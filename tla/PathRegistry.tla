----------------------------- MODULE PathRegistry -----------------------------
(***************************************************************************)
(* What the path manager promises to those who configure paths, without    *)
(* the goroutines that carry it out.  A name is due when it was found      *)
(* configured, by a request or by a reload, and only what is due opens.  A *)
(* path is taken away by a reload alone, and only while its name is not    *)
(* configured.  A reload ends when all of what was configured after it     *)
(* had closed the others is open, or was removed before its turn.          *)
(* PathManager.tla (mediamtx/core/path_manager.go) implements it.          *)
(***************************************************************************)
CONSTANT Names

VARIABLES
  confs,      \* the names that are configured
  open,       \* the names that have a path
  reloading,  \* "no", "closing" what is not configured, "opening" what is
  due,        \* the names that a request or the reload has to open ...
  may,        \* ... and those the reload may take note of
  down        \* no reload and no request is taken any more

registryVars == <<confs, open, reloading, due, may, down>>

Init ==
  /\ confs = {} /\ open = {}
  /\ reloading = "no" /\ due = {} /\ may = {}
  /\ down = FALSE

Configure(n) ==
  /\ n \notin confs
  /\ confs' = confs \cup {n}
  /\ may' = IF reloading = "opening" THEN may \cup {n} ELSE may
  /\ UNCHANGED <<open, reloading, due, down>>

\* What is forgotten in its turn opens all the same.
Forget(n) ==
  /\ n \in confs
  /\ confs' = confs \ {n}
  /\ may' = may \ {n}
  /\ due' \in IF reloading = "opening" THEN {due, due \ {n}} ELSE {due}
  /\ UNCHANGED <<open, reloading, down>>

Note(n) ==
  /\ n \in may
  /\ due' = due \cup {n}
  /\ may' = may \ {n}
  /\ UNCHANGED <<confs, open, reloading, down>>

\* A request is for one name.
Admit(n) ==
  /\ reloading = "no" /\ due = {} /\ ~down
  /\ n \in confs
  /\ due' = {n}
  /\ UNCHANGED <<confs, open, reloading, may, down>>

\* What is due is open, if it was not before.
Open(n) ==
  /\ n \in due
  /\ open' = open \cup {n}
  /\ due' = due \ {n}
  /\ UNCHANGED <<confs, reloading, may, down>>

BeginReload ==
  /\ reloading = "no" /\ due = {} /\ ~down
  /\ reloading' = "closing"
  /\ UNCHANGED <<confs, open, due, may, down>>

Close(n) ==
  /\ reloading = "closing"
  /\ n \in open \ confs
  /\ open' = open \ {n}
  /\ UNCHANGED <<confs, reloading, due, may, down>>

BeginOpening ==
  /\ reloading = "closing"
  /\ reloading' = "opening"
  /\ due' = confs
  /\ UNCHANGED <<confs, open, may, down>>

EndReload ==
  /\ reloading = "opening" /\ due = {}
  /\ reloading' = "no"
  /\ may' = {}
  /\ UNCHANGED <<confs, open, due, down>>

GoDown ==
  /\ ~down
  /\ down' = TRUE
  /\ UNCHANGED <<confs, open, reloading, due, may>>

Next ==
  \/ \E n \in Names : \/ Configure(n) \/ Forget(n) \/ Note(n) \/ Admit(n)
                       \/ Open(n) \/ Close(n)
  \/ BeginReload \/ BeginOpening \/ EndReload \/ GoDown

Spec == Init /\ [][Next]_registryVars
=============================================================================
