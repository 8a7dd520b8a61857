----------------------------- MODULE PathManager -----------------------------
(***************************************************************************)
(* The path manager (mediamtx/core/path_manager.go), the goroutines of its *)
(* paths (path.go) and everybody who calls them: RTSP sessions, the HTTP   *)
(* handlers that edit the configuration (handler.go) and the one that      *)
(* stops it all.                                                           *)
(*                                                                         *)
(* They meet on channels without buffers, in selects that all wait for a   *)
(* context as well.  Closing a context's channel wakes everybody who waits *)
(* for it, and whoever comes later finds it closed and nobody waiting: no  *)
(* two goroutines meet once a context both wait for is done.               *)
(*                                                                         *)
(* The HTTP handlers edit the very map the manager works with, and no lock *)
(* protects it.  So the manager's handlers are split where they look into  *)
(* that map: a request looks its configuration up and creates the path     *)
(* later, a reload walks over the map and looks each name up again.  A     *)
(* path that starts or ends a stream waits for the manager to hear of it;  *)
(* what else the handlers of a path do is in Path.tla.                     *)
(***************************************************************************)
EXTENDS Naturals, FiniteSets

CONSTANTS
  Names,      \* path names, other than "all" and "all_others"
  ValidNames, \* those that isValidPathName accepts; AddPath takes any
  Callers,    \* RTSP sessions and connections
  Handlers,   \* goroutines that add and remove units
  Paths,      \* path objects; a bound on what the manager may create
  None        \* no path, no caller, no name

ASSUME NoneIsNobody == None \notin Names \cup Callers \cup Paths
ASSUME PathsAreFinite == IsFiniteSet(Paths)

VARIABLES
  \* ---- the manager
  mgr,        \* its goroutine: "select", "request" (a caller is admitted), in
              \* doReloadConf "check", "await" (in path.wait) and "create", "down"
  todo,       \* what the range over pathConfs has yet to produce ...
  late,       \* ... and what was added since it began, which it may produce
  picked,     \* what it has produced and the loop has not looked at yet
  awaited,    \* the path that path.wait waits for
  ctxDone,    \* its context is cancelled
  wg,         \* pathManager.wg: its goroutine and those of the paths
  paths,      \* pathManager.paths
  pathConfs,  \* pathManager.pathConfs, which the handlers edit in place
  \* ---- the paths
  pname,      \* path.name of each object in use
  at,         \* its goroutine: "unused", "select", "notify" (in pathReady or
              \* pathNotReady), "ending", "done"
  cancelled,  \* path.ctx is done
  serving,    \* the caller whose request it is handling
  \* ---- the callers
  call,       \* "idle", "manager", "found" (the manager has its configuration),
              \* "path", "reply", "holding" (it has a path)
  asked,      \* the name it asks the manager for
  target,     \* the path it has
  \* ---- the handlers
  reload,     \* those that wait in ReloadPathConfs
  closer      \* pathManager.close: "idle", "cancelling", "waiting", "returned"

loopVars == <<todo, late, picked, awaited>>
mgrVars  == <<mgr, todo, late, picked, awaited, ctxDone, wg, paths, pathConfs>>
pathVars == <<pname, at, cancelled, serving>>
callVars == <<call, asked, target>>
vars == <<mgr, todo, late, picked, awaited, ctxDone, wg, paths, pathConfs,
          pname, at, cancelled, serving, call, asked, target, reload, closer>>

A == INSTANCE Access

TypeOK ==
  /\ mgr \in {"select", "request", "check", "await", "create", "down"}
  /\ todo \subseteq Names
  /\ late \subseteq Names
  /\ picked \in Names \cup {None}
  /\ awaited \in Paths \cup {None}
  /\ ctxDone \in BOOLEAN
  /\ wg \in 0..(1 + Cardinality(Paths))
  /\ paths \in [Names -> Paths \cup {None}]
  /\ pathConfs \subseteq Names
  /\ pname \in [Paths -> Names \cup {None}]
  /\ at \in [Paths -> {"unused", "select", "notify", "ending", "done"}]
  /\ cancelled \in [Paths -> BOOLEAN]
  /\ serving \in [Paths -> Callers \cup {None}]
  /\ call \in [Callers -> {"idle", "manager", "found", "path", "reply", "holding"}]
  /\ asked \in [Callers -> Names \cup {None}]
  /\ target \in [Callers -> Paths \cup {None}]
  /\ reload \subseteq Handlers
  /\ closer \in {"idle", "cancelling", "waiting", "returned"}

Init ==
  /\ mgr = "select"
  /\ todo = {} /\ late = {} /\ picked = None /\ awaited = None
  /\ ctxDone = FALSE
  /\ wg = 1
  /\ paths = [n \in Names |-> None]
  /\ pathConfs = {}
  /\ pname = [p \in Paths |-> None]
  /\ at = [p \in Paths |-> "unused"]
  /\ cancelled = [p \in Paths |-> FALSE]
  /\ serving = [p \in Paths |-> None]
  /\ call = [c \in Callers |-> "idle"]
  /\ asked = [c \in Callers |-> None]
  /\ target = [c \in Callers |-> None]
  /\ reload = {}
  /\ closer = "idle"

-----------------------------------------------------------------------------
(***************************************************************************)
(* The manager.                                                            *)
(***************************************************************************)

\* The object the next createPath makes.  Which one it is makes no difference.
Unused ==
  LET free == {p \in Paths : at[p] = "unused"}
  IN IF free = {} THEN {} ELSE {CHOOSE p \in free : TRUE}

\* createPath that starts the goroutine without counting it.
createPathUncounted(n, p) ==
  /\ paths' = [paths EXCEPT ![n] = p]
  /\ pname' = [pname EXCEPT ![p] = n]
  /\ at' = [at EXCEPT ![p] = "select"]
  /\ cancelled' = [cancelled EXCEPT ![p] = ctxDone]
  /\ UNCHANGED wg

\* createPath that starts the path under a context of its own.
createPathDetached(n, p) ==
  /\ paths' = [paths EXCEPT ![n] = p]
  /\ pname' = [pname EXCEPT ![p] = n]
  /\ at' = [at EXCEPT ![p] = "select"]
  /\ cancelled' = [cancelled EXCEPT ![p] = FALSE]
  /\ wg' = wg + 1

\* createPath and path.initialize: the path is registered, counted and started,
\* under a context that is done from the start if its parent is.
createPath(n, p) ==
  /\ paths' = [paths EXCEPT ![n] = p]
  /\ pname' = [pname EXCEPT ![p] = n]
  /\ at' = [at EXCEPT ![p] = "select"]
  /\ cancelled' = [cancelled EXCEPT ![p] = ctxDone]
  /\ wg' = wg + 1

\* doAddPublisher asks for another permission than doDescribe and doAddReader do.
Actions == {"read", "publish"}

\* doDescribe, doAddReader, doAddPublisher begin: the configuration is looked up and
\* the user is checked.
TakeRequest(c) ==
  /\ mgr = "select" /\ ~ctxDone
  /\ call[c] = "manager"
  /\ \E action \in Actions :
       \/ /\ A!Admitted(pathConfs, action, asked[c])
          /\ mgr' = "request"
          /\ call' = [call EXCEPT ![c] = "found"]
          /\ UNCHANGED asked
       \/ /\ ~A!Admitted(pathConfs, action, asked[c])
          /\ call' = [call EXCEPT ![c] = "idle"]
          /\ asked' = [asked EXCEPT ![c] = None]
          /\ UNCHANGED mgr
  /\ UNCHANGED <<loopVars, ctxDone, wg, paths, pathConfs, pathVars, target, reload, closer>>

\* They end: a path that is missing is created with the configuration that was found,
\* whether or not that is still there, and the caller gets the path.
AnswerRequest(c) ==
  /\ mgr = "request"
  /\ call[c] = "found"
  /\ LET n == asked[c]
     IN \/ /\ paths[n] # None
           /\ target' = [target EXCEPT ![c] = paths[n]]
           /\ UNCHANGED <<paths, wg, pname, at, cancelled>>
        \/ /\ paths[n] = None
           /\ \E p \in Unused : createPath(n, p) /\ target' = [target EXCEPT ![c] = p]
  /\ call' = [call EXCEPT ![c] = "path"]
  /\ asked' = [asked EXCEPT ![c] = None]
  /\ mgr' = "select"
  /\ UNCHANGED <<loopVars, ctxDone, pathConfs, serving, reload, closer>>

\* doReloadConf begins.  The map it is given is the map it has.
TakeReload(h) ==
  /\ mgr = "select" /\ ~ctxDone
  /\ h \in reload
  /\ reload' = reload \ {h}
  /\ mgr' = "check"
  /\ todo' = pathConfs
  /\ UNCHANGED <<late, picked, awaited, ctxDone, wg, paths, pathConfs, pathVars, callVars, closer>>

\* The range of either loop produces a name.
PickConf(n) ==
  /\ mgr \in {"check", "create"} /\ picked = None
  /\ n \in todo \cup late
  /\ picked' = n
  /\ todo' = todo \ {n}
  /\ late' = late \ {n}
  /\ UNCHANGED <<mgr, awaited, ctxDone, wg, paths, pathConfs, pathVars, callVars, reload, closer>>

\* A lookup that finds every configuration deleted.
DeletedAlways(n) == paths[n] # None

\* A path whose configuration is not found when it is looked up.
Deleted(n) == n \notin pathConfs /\ paths[n] # None

\* The first loop, which takes the configuration it was given by the range to be the
\* one it finds: AddPath makes equal configurations for equal names.
KeepPath ==
  /\ mgr = "check" /\ picked # None
  /\ ~Deleted(picked)
  /\ picked' = None
  /\ UNCHANGED <<mgr, todo, late, awaited, ctxDone, wg, paths, pathConfs, pathVars, callVars,
                 reload, closer>>

\* DropPath that goes on without waiting for the path.
DropPathUnawaited ==
  /\ mgr = "check" /\ picked # None
  /\ Deleted(picked)
  /\ cancelled' = [cancelled EXCEPT ![paths[picked]] = TRUE]
  /\ paths' = [paths EXCEPT ![picked] = None]
  /\ picked' = None
  /\ UNCHANGED <<mgr, awaited, todo, late, ctxDone, wg, pathConfs, pname, at, serving, callVars,
                 reload, closer>>

\* ... or the handlers have deleted it since: removePath, path.close, path.wait.
DropPath ==
  /\ mgr = "check" /\ picked # None
  /\ Deleted(picked)
  /\ cancelled' = [cancelled EXCEPT ![paths[picked]] = TRUE]
  /\ paths' = [paths EXCEPT ![picked] = None]
  /\ awaited' = paths[picked]
  /\ picked' = None
  /\ mgr' = "await"
  /\ UNCHANGED <<todo, late, ctxDone, wg, pathConfs, pname, at, serving, callVars, reload,
                 closer>>

PathAwaited ==
  /\ mgr = "await"
  /\ at[awaited] = "done"
  /\ awaited' = None
  /\ mgr' = "check"
  /\ UNCHANGED <<todo, late, picked, ctxDone, wg, paths, pathConfs, pathVars, callVars,
                 reload, closer>>

\* The second loop begins.
CheckEnds ==
  /\ mgr = "check" /\ picked = None /\ todo = {}
  /\ mgr' = "create"
  /\ todo' = pathConfs
  /\ late' = {}
  /\ UNCHANGED <<picked, awaited, ctxDone, wg, paths, pathConfs, pathVars, callVars,
                 reload, closer>>

\* A path that is missing is created, whether or not its name is still configured.
ReloadCreates ==
  /\ mgr = "create" /\ picked # None
  /\ \/ /\ paths[picked] = None
        /\ \E p \in Unused : createPath(picked, p)
     \/ /\ paths[picked] # None
        /\ UNCHANGED <<paths, wg, pname, at, cancelled>>
  /\ picked' = None
  /\ UNCHANGED <<mgr, todo, late, awaited, ctxDone, pathConfs, serving, callVars, reload, closer>>

\* A reload that may leave its second loop after any turn.
ReloadEndsEarly ==
  /\ mgr = "create" /\ picked = None
  /\ mgr' = "select"
  /\ todo' = {}
  /\ late' = {}
  /\ UNCHANGED <<picked, awaited, ctxDone, wg, paths, pathConfs, pathVars, callVars,
                 reload, closer>>

ReloadEnds ==
  /\ mgr = "create" /\ picked = None /\ todo = {}
  /\ mgr' = "select"
  /\ late' = {}
  /\ UNCHANGED <<todo, picked, awaited, ctxDone, wg, paths, pathConfs, pathVars, callVars, reload, closer>>

\* doPathReady and doPathNotReady; no HLS server is ever set in this program.
\* The path goes on with its handler and answers.
TakeNotify(p) ==
  /\ mgr = "select" /\ ~ctxDone /\ ~cancelled[p]
  /\ at[p] = "notify"
  /\ at' = [at EXCEPT ![p] = "select"]
  /\ call' = [call EXCEPT ![serving[p]] = "holding"]
  /\ serving' = [serving EXCEPT ![p] = None]
  /\ UNCHANGED <<mgrVars, pname, cancelled, asked, target, reload, closer>>

\* run that leaves its loop without telling the wait group.
ManagerExitsUncounted ==
  /\ mgr = "select" /\ ctxDone
  /\ mgr' = "down"
  /\ UNCHANGED <<wg, loopVars, ctxDone, paths, pathConfs, pathVars, callVars, reload, closer>>

\* The manager leaves its loop.
ManagerExits ==
  /\ mgr = "select" /\ ctxDone
  /\ mgr' = "down"
  /\ wg' = wg - 1
  /\ UNCHANGED <<loopVars, ctxDone, paths, pathConfs, pathVars, callVars, reload, closer>>

-----------------------------------------------------------------------------
(***************************************************************************)
(* The callers and the paths.                                              *)
(***************************************************************************)

\* pathManager.Describe, AddReader or AddPublisher is called.
Ask(c, n) ==
  /\ call[c] = "idle"
  /\ call' = [call EXCEPT ![c] = "manager"]
  /\ asked' = [asked EXCEPT ![c] = n]
  /\ UNCHANGED <<mgrVars, pathVars, target, reload, closer>>

RequestTerminated(c) ==
  /\ ctxDone
  /\ call[c] = "manager"
  /\ call' = [call EXCEPT ![c] = "idle"]
  /\ asked' = [asked EXCEPT ![c] = None]
  /\ UNCHANGED <<mgrVars, pathVars, target, reload, closer>>

\* A caller that has the path calls it again, or is through with it.
CallPath(c) ==
  /\ call[c] = "holding"
  /\ call' = [call EXCEPT ![c] = "path"]
  /\ UNCHANGED <<mgrVars, pathVars, asked, target, reload, closer>>

Release(c) ==
  /\ call[c] = "holding"
  /\ call' = [call EXCEPT ![c] = "idle"]
  /\ target' = [target EXCEPT ![c] = None]
  /\ UNCHANGED <<mgrVars, pathVars, asked, reload, closer>>

\* The path answers at once, or after a step that the manager has to hear of.
PathTakes(c) ==
  LET p == target[c]
  IN /\ call[c] = "path"
     /\ at[p] = "select" /\ ~cancelled[p]
     /\ \/ /\ call' = [call EXCEPT ![c] = "holding"]
           /\ UNCHANGED <<at, serving>>
        \/ /\ call' = [call EXCEPT ![c] = "reply"]
           /\ at' = [at EXCEPT ![p] = "notify"]
           /\ serving' = [serving EXCEPT ![p] = c]
     /\ UNCHANGED <<mgrVars, pname, cancelled, asked, target, reload, closer>>

\* A call of a path that answers only to the manager's end, not to the path's.
PathCallTerminatedByManager(c) ==
  /\ call[c] = "path"
  /\ mgr = "down" /\ at[target[c]] = "select"
  /\ call' = [call EXCEPT ![c] = "idle"]
  /\ target' = [target EXCEPT ![c] = None]
  /\ UNCHANGED <<mgrVars, pathVars, asked, reload, closer>>

PathCallTerminated(c) ==
  /\ call[c] = "path"
  /\ cancelled[target[c]]
  /\ call' = [call EXCEPT ![c] = "idle"]
  /\ target' = [target EXCEPT ![c] = None]
  /\ UNCHANGED <<mgrVars, pathVars, asked, reload, closer>>

\* pathReady and pathNotReady give up with either context.
NotifyGivesUp(p) ==
  /\ at[p] = "notify"
  /\ ctxDone \/ cancelled[p]
  /\ at' = [at EXCEPT ![p] = "select"]
  /\ call' = [call EXCEPT ![serving[p]] = "holding"]
  /\ serving' = [serving EXCEPT ![p] = None]
  /\ UNCHANGED <<mgrVars, pname, cancelled, asked, target, reload, closer>>

\* runInner returns; closePath gives up at once, since the context is done.
PathEnds(p) ==
  /\ at[p] = "select" /\ cancelled[p]
  /\ at' = [at EXCEPT ![p] = "ending"]
  /\ UNCHANGED <<mgrVars, pname, cancelled, serving, callVars, reload, closer>>

\* The rest of run: the stream and the source are closed.
PathDone(p) ==
  /\ at[p] = "ending"
  /\ at' = [at EXCEPT ![p] = "done"]
  /\ wg' = wg - 1
  /\ UNCHANGED <<mgr, loopVars, ctxDone, paths, pathConfs, pname, cancelled, serving,
                 callVars, reload, closer>>

-----------------------------------------------------------------------------
(***************************************************************************)
(* The handlers.                                                           *)
(***************************************************************************)

\* RtspHandler.AddPath and RemovePath edit the map the manager uses, then ask
\* it to reload that map.  A range that is under way may produce a name that is added
\* or not; one that is removed before its turn it does not produce.
AddPath(h, n) ==
  /\ h \notin reload
  /\ n \notin pathConfs
  /\ pathConfs' = pathConfs \cup {n}
  /\ late' = IF mgr \in {"check", "await", "create"} THEN late \cup {n} ELSE late
  /\ reload' = reload \cup {h}
  /\ UNCHANGED <<mgr, todo, picked, awaited, ctxDone, wg, paths, pathVars, callVars, closer>>

RemovePath(h, n) ==
  /\ h \notin reload
  /\ n \in pathConfs
  /\ pathConfs' = pathConfs \ {n}
  /\ todo' = todo \ {n}
  /\ late' = late \ {n}
  /\ reload' = reload \cup {h}
  /\ UNCHANGED <<mgr, picked, awaited, ctxDone, wg, paths, pathVars, callVars, closer>>

ReloadTerminated(h) ==
  /\ ctxDone
  /\ h \in reload
  /\ reload' = reload \ {h}
  /\ UNCHANGED <<mgrVars, pathVars, callVars, closer>>

\* pathManager.close cancels its context, the contexts of the paths one after
\* the other, and waits for the goroutines.
Close ==
  /\ closer = "idle"
  /\ ctxDone' = TRUE
  /\ closer' = "cancelling"
  /\ UNCHANGED <<mgr, loopVars, wg, paths, pathConfs, pathVars, callVars, reload>>

CancelPath(p) ==
  /\ closer = "cancelling"
  /\ at[p] # "unused" /\ ~cancelled[p]
  /\ cancelled' = [cancelled EXCEPT ![p] = TRUE]
  /\ UNCHANGED <<mgrVars, pname, at, serving, callVars, reload, closer>>

CloseWaits ==
  /\ closer = "cancelling"
  /\ \A p \in Paths : at[p] # "unused" => cancelled[p]
  /\ closer' = "waiting"
  /\ UNCHANGED <<mgrVars, pathVars, callVars, reload>>

CloseReturns ==
  /\ closer = "waiting"
  /\ wg = 0
  /\ closer' = "returned"
  /\ UNCHANGED <<mgrVars, pathVars, callVars, reload>>

-----------------------------------------------------------------------------
ReloadStep ==
  \/ \E n \in Names : PickConf(n)
  \/ KeepPath \/ DropPath \/ PathAwaited \/ CheckEnds
  \/ ReloadCreates \/ ReloadEnds

ManagerStep ==
  \/ \E c \in Callers : TakeRequest(c) \/ AnswerRequest(c)
  \/ \E h \in Handlers : TakeReload(h)
  \/ ReloadStep
  \/ \E p \in Paths : TakeNotify(p)
  \/ ManagerExits

CallerStep(c) ==
  \/ \E n \in Names : Ask(c, n)
  \/ RequestTerminated(c) \/ CallPath(c) \/ Release(c)
  \/ PathTakes(c) \/ PathCallTerminated(c)

PathStep(p) == NotifyGivesUp(p) \/ PathEnds(p) \/ PathDone(p)

HandlerStep(h) ==
  \/ \E n \in Names : AddPath(h, n) \/ RemovePath(h, n)
  \/ ReloadTerminated(h)

CloserStep ==
  \/ Close \/ CloseWaits \/ CloseReturns
  \/ \E p \in Paths : CancelPath(p)

Next ==
  \/ ManagerStep
  \/ \E c \in Callers : CallerStep(c)
  \/ \E p \in Paths : PathStep(p)
  \/ \E h \in Handlers : HandlerStep(h)
  \/ CloserStep

Spec == Init /\ [][Next]_vars

\* A select takes any of its ready cases at random and a channel serves those who
\* wait in order, so a sender who finds the receiver in its select again and
\* again is taken: strong fairness for each rendezvous.  A range passes the entries of
\* its map once, so it comes to its end though names be added all the time.
\* Everything else goes on when it can.  Nobody has to ask, to edit or to close.
RangeGoesOn == (\E n \in todo : PickConf(n)) \/ CheckEnds \/ ReloadEnds

Fairness ==
  /\ \A c \in Callers : /\ SF_vars(TakeRequest(c)) /\ SF_vars(PathTakes(c))
                        /\ WF_vars(RequestTerminated(c) \/ PathCallTerminated(c))
  /\ \A h \in Handlers : SF_vars(TakeReload(h)) /\ WF_vars(ReloadTerminated(h))
  /\ SF_vars(RangeGoesOn)
  /\ WF_vars(ReloadStep \/ ManagerExits \/ \E c \in Callers : AnswerRequest(c))
  /\ \A c \in Callers : SF_vars(\E p \in Paths : serving[p] = c /\ TakeNotify(p))
  /\ \A p \in Paths : WF_vars(PathStep(p))
  /\ WF_vars(CloseWaits \/ CloseReturns \/ \E p \in Paths : CancelPath(p))

FairSpec == Spec /\ Fairness

-----------------------------------------------------------------------------
(***************************************************************************)
(* Properties.                                                             *)
(***************************************************************************)

\* Two path goroutines never run for one name, whichever of a request and a reload
\* creates its path, and also when a reload has removed a path whose name is asked
\* for or configured again (createPath; doReloadConf, "avoid conflicts between sources").
OnePathPerName ==
  \A p, q \in Paths :
    p # q /\ at[p] \notin {"unused", "done"} /\ at[q] \notin {"unused", "done"}
      => pname[p] # pname[q]

\* Once pathManager.close has returned, neither the manager nor any path runs,
\* also when a reload was creating paths while it waited.
CloseIsFinal ==
  closer = "returned" => mgr = "down" /\ \A p \in Paths : at[p] \in {"unused", "done"}

\* A configuration without a path is about to get one (doReloadConf): a handler
\* still waits for its reload, or one is under way that will come to it.
MissingIsComing ==
  \A n \in pathConfs :
    paths[n] = None /\ ~ctxDone =>
      reload # {} \/ mgr \in {"check", "await"} \/ n \in todo \/ n = picked

\* Nobody waits for a goroutine that has left without a context that is done, or will
\* be, to wake him: a caller of the manager, a caller of a path, who may have got
\* it long before, one whose answer hangs on the manager, the manager itself, for a path
\* that it has removed, and close, for paths that a reload starts after it has
\* cancelled the others.
NobodyStranded ==
  /\ \A c \in Callers :
       /\ call[c] = "manager" => mgr # "down" \/ ctxDone
       /\ call[c] = "found" => mgr = "request"
       /\ call[c] = "path" =>
            at[target[c]] \in {"select", "notify"} \/ cancelled[target[c]]
       /\ call[c] = "reply" =>
            /\ at[target[c]] = "notify" /\ serving[target[c]] = c
            /\ mgr # "down" \/ ctxDone
  /\ mgr = "await" => cancelled[awaited]
  /\ closer = "waiting" => \A p \in Paths : at[p] # "unused" => cancelled[p]

Registry ==
  INSTANCE PathRegistry WITH
    confs     <- pathConfs,
    open      <- {n \in Names : paths[n] # None},
    reloading <- (CASE mgr \in {"check", "await"} -> "closing"
                    [] mgr = "create"             -> "opening"
                    [] OTHER                      -> "no"),
    may       <- (IF mgr = "create" THEN late ELSE {}),
    due       <- (CASE mgr = "request" -> {n \in Names : \E c \in Callers :
                                                          call[c] = "found" /\ asked[c] = n}
                    [] mgr = "create"  -> todo \cup ({picked} \ {None})
                    [] OTHER           -> {}),
    down      <- ctxDone

\* Those who configure paths get what the registry promises, however requests, which
\* create paths too, edits of the map in use and the shutdown meet a reload.
ImplementsRegistry == Registry!Spec

\* Describe, AddReader, AddPublisher, the calls of a path and ReloadPathConfs come back,
\* whether the manager, the path or the shutdown answers them.
RequestsReturn ==
  /\ \A c \in Callers :
       call[c] \in {"manager", "found", "path", "reply"} ~> call[c] \in {"idle", "holding"}
  /\ \A h \in Handlers : h \in reload ~> h \notin reload

\* pathManager.close returns once it was called, though paths may be waiting for
\* a manager that has left its loop.
CloseCompletes == closer = "cancelling" ~> closer = "returned"
=============================================================================
