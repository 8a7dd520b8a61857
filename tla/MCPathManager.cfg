SPECIFICATION SmallSpec
CONSTANTS
  Names = {n1, n2}
  ValidNames = {n1}
  Callers = {c1}
  Handlers = {h1}
  Paths = {p1, p2, p3}
  None = None
INVARIANTS
  OnePathPerName
  CloseIsFinal
  MissingIsComing
  NobodyStranded
PROPERTIES
  ImplementsRegistry
  RequestsReturn
  CloseCompletes
