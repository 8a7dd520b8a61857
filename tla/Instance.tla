------------------------------ MODULE Instance ------------------------------
(***************************************************************************)
(* The control plane: Instance (instance.go), its HTTP handlers            *)
(* (http_control.go), its watchdog and the configuration calls of the RTSP *)
(* handler (mediamtx/core/handler.go, path_manager.go).                    *)
(*                                                                         *)
(* net/http serves each request in a goroutine of its own, and the         *)
(* watchdog is one more: all of them run AddUnit and RemoveUnit on the     *)
(* same maps.  The mutex of Instance covers only the two map writes at the *)
(* end of each operation, so an operation is a sequence of steps, one for  *)
(* each access to shared state, and the steps of the actors interleave.    *)
(*                                                                         *)
(* A transcoder is here what the Instance sees of it: its running flag,    *)
(* its status and its ffmpeg process.  Its goroutines are in               *)
(* Transcoder.tla.                                                         *)
(***************************************************************************)
EXTENDS Naturals, FiniteSets

CONSTANTS
  Ids,         \* unit ids, which are also the names of their paths
  Clients,     \* HTTP requests under way at a time
  Watchdog,    \* the goroutine of Instance.run
  Procs,       \* Transcoder objects in use at a time, each with its ffmpeg
  None,        \* a missing map entry
  Retry,       \* is retryAfterSeconds > 0?  The program passes 10.
  StartCanFail \* may starting ffmpeg fail?

ASSUME WatchdogIsNoClient == Watchdog \notin Clients
ASSUME NoneIsNoProc == None \notin Procs
ASSUME NoneIsNoAnswer ==
  /\ None \notin {"ok", "down"}
  /\ \A S \in SUBSET Ids : None \notin [S -> {"ok", "down"}]
ASSUME RetryIsBoolean == Retry \in BOOLEAN
ASSUME StartCanFailIsBoolean == StartCanFail \in BOOLEAN

Actors == Clients \cup {Watchdog}

VARIABLES
  \* ---- Instance
  units,         \* Instance.units, as the ids that have an entry
  transcoders,   \* Instance.transcoders
  ctxDone,       \* Instance.ctx is cancelled
  stage,         \* Instance.Stop: "up", "stopping", "counted", "ranging", "waiting",
                 \* "drained", "closing", "stopped"; "panicked" ends the program
  owed,          \* the wait group of Instance.Stop
  stopTodo,      \* what its range over the units has yet to produce
  stopping,      \* its goroutines that have yet to stop a unit's transcoder
  disturbed,     \* history: the units changed between its count and the end of its range
  \* ---- ControlServer
  http,          \* "up"; "done": Done is closed; "failed": it has stopped listening
  \* ---- RtspHandler and pathManager
  pathConfs,     \* pathManager.pathConfs, the map RtspHandler edits in place
  paths,         \* pathManager.paths
  reload,        \* doReloadConf: "no", "closing" what is deleted, "opening" what
                 \* is missing
  walk,          \* what its range over pathConfs has yet to come to
  rtsp,          \* RtspHandler.Stop: "up", "closing", "down" (the manager's
                 \* context is done)
  \* ---- the actors
  pc,            \* the step an actor is at
  arg,           \* the unit it works on
  made,          \* the transcoder its AddUnit has started and not stored yet
  todo,          \* units the watchdog has yet to look at in this round
  \* ---- the transcoders
  running,       \* Transcoder.running
  status,        \* Transcoder.status: "ok", or "down" for stopped and error
  alive,         \* its ffmpeg process exists, as far as cmd.Wait has told
  runDue         \* its goroutine run has been started and has not run yet

stopVars  == <<owed, stopTodo, stopping, disturbed>>
instVars  == <<units, transcoders, ctxDone, stage, stopVars, http>>
reloadVars == <<paths, reload, walk>>
pmVars    == <<pathConfs, reloadVars, rtsp>>
actorVars == <<pc, arg, made, todo>>
procVars  == <<running, status, alive, runDue>>
vars == <<units, transcoders, ctxDone, stage, owed, stopTodo, stopping, disturbed, http,
          pathConfs, paths, reload, walk, rtsp,
          pc, arg, made, todo,
          running, status, alive, runDue>>

Steps == {"idle", "scan", "exited",
          "addCheck", "addPath", "addConf", "addReload", "addStop", "addStart", "addStore",
          "remCheck", "remStop", "remPath", "remReload", "remDelete"}

TypeOK ==
  /\ units \subseteq Ids
  /\ transcoders \in [Ids -> Procs \cup {None}]
  /\ ctxDone \in BOOLEAN
  /\ stage \in {"up", "stopping", "counted", "ranging", "waiting",
                "drained", "closing", "stopped", "panicked"}
  /\ owed \in Nat
  /\ stopTodo \subseteq Ids
  /\ stopping \in [Ids -> Nat]
  /\ disturbed \in BOOLEAN
  /\ http \in {"up", "done", "failed"}
  /\ pathConfs \subseteq Ids
  /\ paths \subseteq Ids
  /\ reload \in {"no", "closing", "opening"}
  /\ walk \subseteq Ids
  /\ rtsp \in {"up", "closing", "down"}
  /\ pc \in [Actors -> Steps]
  /\ arg \in [Actors -> Ids \cup {None}]
  /\ made \in [Actors -> Procs \cup {None}]
  /\ todo \subseteq Ids
  /\ running \in [Procs -> BOOLEAN]
  /\ status \in [Procs -> {"ok", "down"}]
  /\ alive \in [Procs -> BOOLEAN]
  /\ runDue \in [Procs -> BOOLEAN]

Init ==
  /\ units = {}
  /\ transcoders = [i \in Ids |-> None]
  /\ ctxDone = FALSE
  /\ stage = "up"
  /\ owed = 0
  /\ stopTodo = {}
  /\ stopping = [i \in Ids |-> 0]
  /\ disturbed = FALSE
  /\ http = "up"
  /\ pathConfs = {}
  /\ paths = {}
  /\ reload = "no"
  /\ walk = {}
  /\ rtsp = "up"
  /\ pc = [a \in Actors |-> "idle"]
  /\ arg = [a \in Actors |-> None]
  /\ made = [a \in Actors |-> None]
  /\ todo = {}
  /\ running = [p \in Procs |-> FALSE]
  /\ status = [p \in Procs |-> "down"]
  /\ alive = [p \in Procs |-> FALSE]
  /\ runDue = [p \in Procs |-> FALSE]

-----------------------------------------------------------------------------
Goto(a, step) == pc' = [pc EXCEPT ![a] = step]

\* The actor leaves its operation: a request is answered, the watchdog goes on
\* with its round.
Answer(a) ==
  /\ pc' = [pc EXCEPT ![a] = IF a = Watchdog THEN "scan" ELSE "idle"]
  /\ arg' = [arg EXCEPT ![a] = None]

\* A stopped Transcoder object that nobody refers to any more.  What is left of
\* it, its ffmpeg among it, goes on out of the Instance's sight.
Unused(p) ==
  /\ ~running[p]
  /\ \A i \in Ids : transcoders[i] # p
  /\ \A a \in Actors : made[a] # p

\* The object the next NewTranscoder makes.  Which one it is makes no difference.
Fresh ==
  LET free == {p \in Procs : Unused(p)}
  IN IF free = {} THEN {} ELSE {CHOOSE p \in free : TRUE}

\* Transcoder.Stop, as far as the Instance can tell.  It releases the process
\* before it kills it, so that the kill reports an error and ffmpeg lives on
\* (Transcoder.tla).
StopTranscoder(p) ==
  IF p = None THEN UNCHANGED running ELSE running' = [running EXCEPT ![p] = FALSE]

\* doReloadConf begins; the map it is given is the map in use.
BeginReload ==
  /\ rtsp # "down" /\ reload = "no"
  /\ reload' = "closing"
  /\ walk' = pathConfs

\* ReloadPathConfs that waits for the manager only.
ReloadPathConfsBlocking == BeginReload

\* pathManager.ReloadPathConfs: the manager takes the request when it is free; a
\* manager that is shut down lets the caller go on.
ReloadPathConfs == BeginReload \/ (rtsp = "down" /\ UNCHANGED <<reload, walk>>)

-----------------------------------------------------------------------------
(***************************************************************************)
(* AddUnit.                                                                *)
(***************************************************************************)

\* The look at Instance.units, without its lock.  NewSource before it ends the program
\* when the id or the source make no URL that parses (transcoder.go); here they do.
AddCheck(a) ==
  /\ pc[a] = "addCheck"
  /\ \/ arg[a] \in units /\ Answer(a)
     \/ arg[a] \notin units /\ Goto(a, "addPath") /\ UNCHANGED arg
  /\ UNCHANGED <<instVars, pmVars, made, todo, procVars>>

\* RtspHandler.AddPath looks for the path in the manager's map ...
AddPathCheck(a) ==
  /\ pc[a] = "addPath"
  /\ \/ arg[a] \in pathConfs /\ Answer(a)
     \/ arg[a] \notin pathConfs /\ Goto(a, "addConf") /\ UNCHANGED arg
  /\ UNCHANGED <<instVars, pmVars, made, todo, procVars>>

\* ... and writes it there.  A range that a reload has under way may come to it.
AddPathConf(a) ==
  /\ pc[a] = "addConf"
  /\ pathConfs' = pathConfs \cup {arg[a]}
  /\ walk' \in IF reload = "no" \/ arg[a] \in pathConfs THEN {walk}
                                                       ELSE {walk, walk \cup {arg[a]}}
  /\ Goto(a, "addReload")
  /\ UNCHANGED <<instVars, paths, reload, rtsp, arg, made, todo, procVars>>

AddPathReload(a) ==
  /\ pc[a] = "addReload"
  /\ ReloadPathConfs
  /\ Goto(a, "addStop")
  /\ UNCHANGED <<instVars, pathConfs, paths, rtsp, arg, made, todo, procVars>>

AddStopOld(a) ==
  /\ pc[a] = "addStop"
  /\ StopTranscoder(transcoders[arg[a]])
  /\ Goto(a, "addStart")
  /\ UNCHANGED <<instVars, pmVars, arg, made, todo, status, alive, runDue>>

\* Transcoder.Start: ffmpeg is there and the goroutines of the transcoder are
\* started, or the start fails and AddUnit returns at once.
AddStart(a) ==
  /\ pc[a] = "addStart"
  /\ \/ \E p \in Fresh :
          /\ made' = [made EXCEPT ![a] = p]
          /\ running' = [running EXCEPT ![p] = TRUE]
          /\ status' = [status EXCEPT ![p] = "down"]
          /\ alive' = [alive EXCEPT ![p] = TRUE]
          /\ runDue' = [runDue EXCEPT ![p] = TRUE]
          /\ Goto(a, "addStore")
          /\ UNCHANGED arg
     \/ /\ StartCanFail
        /\ Answer(a)
        /\ UNCHANGED <<made, running, status, alive, runDue>>
  /\ UNCHANGED <<instVars, pmVars, todo>>

\* A range over the units that Instance.Stop has under way may come to a unit that is
\* added, and does not come to one that is deleted.
EditUnits(new) ==
  /\ units' = new
  /\ stopTodo' \in IF stage = "ranging" THEN {stopTodo \cap new, (stopTodo \cap new) \cup (new \ units)}
                                       ELSE {stopTodo}
  /\ disturbed' = (disturbed \/ (stage \in {"counted", "ranging"} /\ new # units))
  /\ UNCHANGED <<owed, stopping>>

\* The two map writes, under the lock.
AddStore(a) ==
  /\ pc[a] = "addStore"
  /\ transcoders' = [transcoders EXCEPT ![arg[a]] = made[a]]
  /\ EditUnits(units \cup {arg[a]})
  /\ made' = [made EXCEPT ![a] = None]
  /\ Answer(a)
  /\ UNCHANGED <<ctxDone, stage, http, pmVars, todo, procVars>>

-----------------------------------------------------------------------------
(***************************************************************************)
(* RemoveUnit.  The watchdog, in RestartUnit, ignores its result and goes  *)
(* on with AddUnit.                                                        *)
(***************************************************************************)
\* RestartUnit that only removes.
AfterRemoveNoAdd(a) == Answer(a)

AfterRemove(a) ==
  IF a = Watchdog THEN Goto(a, "addCheck") /\ UNCHANGED arg ELSE Answer(a)

RemoveCheck(a) ==
  /\ pc[a] = "remCheck"
  /\ \/ arg[a] \notin units /\ AfterRemove(a)
     \/ arg[a] \in units /\ Goto(a, "remStop") /\ UNCHANGED arg
  /\ UNCHANGED <<instVars, pmVars, made, todo, procVars>>

\* RemoveUnit that leaves the transcoder running.
RemoveStopNothing(a) ==
  /\ pc[a] = "remStop"
  /\ Goto(a, "remPath")
  /\ UNCHANGED <<instVars, pmVars, arg, made, todo, procVars>>

RemoveStop(a) ==
  /\ pc[a] = "remStop"
  /\ StopTranscoder(transcoders[arg[a]])
  /\ Goto(a, "remPath")
  /\ UNCHANGED <<instVars, pmVars, arg, made, todo, status, alive, runDue>>

\* RtspHandler.RemovePath edits the map the manager works with.  The range of a reload
\* does not come to what is deleted, unless that is the one it has just come to.
RemovePathConf(a) ==
  /\ pc[a] = "remPath"
  /\ Goto(a, IF arg[a] \in pathConfs THEN "remReload" ELSE "remDelete")
  /\ pathConfs' = pathConfs \ {arg[a]}
  /\ walk' \in IF arg[a] \notin pathConfs     THEN {walk}
               ELSE IF walk \subseteq pathConfs THEN {walk, walk \ {arg[a]}}
               ELSE                                 {walk \ {arg[a]}}
  /\ UNCHANGED <<instVars, paths, reload, rtsp, arg, made, todo, procVars>>

RemovePathReload(a) ==
  /\ pc[a] = "remReload"
  /\ ReloadPathConfs
  /\ Goto(a, "remDelete")
  /\ UNCHANGED <<instVars, pathConfs, paths, rtsp, arg, made, todo, procVars>>

\* RemoveUnit that forgets the entry of Instance.units.
RemoveDeleteTranscoderOnly(a) ==
  /\ pc[a] = "remDelete"
  /\ transcoders' = [transcoders EXCEPT ![arg[a]] = None]
  /\ AfterRemove(a)
  /\ UNCHANGED <<units, ctxDone, stage, stopVars, http, pmVars, made, todo, procVars>>

RemoveDelete(a) ==
  /\ pc[a] = "remDelete"
  /\ transcoders' = [transcoders EXCEPT ![arg[a]] = None]
  /\ EditUnits(units \ {arg[a]})
  /\ AfterRemove(a)
  /\ UNCHANGED <<ctxDone, stage, http, pmVars, made, todo, procVars>>

-----------------------------------------------------------------------------
(***************************************************************************)
(* The HTTP API and the watchdog.                                          *)
(***************************************************************************)
Create(c, i) ==
  /\ pc[c] = "idle"
  /\ stage = "up" /\ http # "failed"
  /\ Goto(c, "addCheck")
  /\ arg' = [arg EXCEPT ![c] = i]
  /\ UNCHANGED <<instVars, pmVars, made, todo, procVars>>

Stop(c, i) ==
  /\ pc[c] = "idle"
  /\ stage = "up" /\ http # "failed"
  /\ Goto(c, "remCheck")
  /\ arg' = [arg EXCEPT ![c] = i]
  /\ UNCHANGED <<instVars, pmVars, made, todo, procVars>>

\* GET /{id}/status and GET /status, 404 if None: the one of a unit asks for the unit
\* and its transcoder; the one of all is None when a single transcoder is missing.
OnStatus(i) ==
  IF i \in units /\ transcoders[i] # None THEN status[transcoders[i]] ELSE None

OnStatusAll ==
  IF \E i \in units : transcoders[i] = None THEN None ELSE [i \in units |-> OnStatus(i)]

\* The ticker fires while the instance runs: a round over the units begins.
Tick ==
  /\ Retry
  /\ pc[Watchdog] = "idle"
  /\ stage = "up"
  /\ Goto(Watchdog, "scan")
  /\ todo' = units
  /\ UNCHANGED <<instVars, pmVars, arg, made, procVars>>

\* A watchdog that does not read the status of a transcoder.
BrokenIfMissing(i) == transcoders[i] = None \/ i \notin paths

\* What makes the watchdog restart a unit.
Broken(i) ==
  LET t == transcoders[i]
  IN t = None \/ status[t] # "ok" \/ i \notin paths

\* The next unit of the round.  A unit deleted since the round began is not
\* visited; one added since then may be missed, and here it is.
Scan(i) ==
  /\ pc[Watchdog] = "scan"
  /\ i \in todo
  /\ todo' = todo \ {i}
  /\ IF i \in units /\ Broken(i)
       THEN Goto(Watchdog, "remCheck") /\ arg' = [arg EXCEPT ![Watchdog] = i]
       ELSE UNCHANGED <<pc, arg>>
  /\ UNCHANGED <<instVars, pmVars, made, procVars>>

\* The round is over; the loop asks again whether the instance runs.
ScanDone ==
  /\ pc[Watchdog] = "scan"
  /\ todo = {}
  /\ IF stage = "up"
       THEN Goto(Watchdog, "idle") /\ UNCHANGED ctxDone
       ELSE Goto(Watchdog, "exited") /\ ctxDone' = TRUE
  /\ UNCHANGED <<units, transcoders, stage, stopVars, http, pmVars, arg, made, todo, procVars>>

\* A watchdog that returns and leaves the instance running.
WatchdogExitOnly ==
  /\ Retry
  /\ pc[Watchdog] = "idle"
  /\ ctxDone \/ http # "up"
  /\ Goto(Watchdog, "exited")
  /\ UNCHANGED <<instVars, pmVars, arg, made, todo, procVars>>

\* One of the contexts the watchdog selects on is done: it returns, and its
\* deferred call cancels the instance.
WatchdogExit ==
  /\ Retry
  /\ pc[Watchdog] = "idle"
  /\ ctxDone \/ http # "up"
  /\ ctxDone' = TRUE
  /\ Goto(Watchdog, "exited")
  /\ UNCHANGED <<units, transcoders, stage, stopVars, http, pmVars, arg, made, todo, procVars>>

-----------------------------------------------------------------------------
(***************************************************************************)
(* The path manager.                                                       *)
(***************************************************************************)

\* The first loop of doReloadConf.  The map it was given is the map in use, so it finds
\* a configuration deleted only if that goes while the range is at it.
ReloadChecks(i) ==
  /\ reload = "closing"
  /\ i \in walk
  /\ walk' = walk \ {i}
  /\ paths' = IF i \in pathConfs THEN paths ELSE paths \ {i}
  /\ UNCHANGED <<instVars, pathConfs, reload, rtsp, actorVars, procVars>>

ReloadOpens ==
  /\ reload = "closing"
  /\ walk = {}
  /\ reload' = "opening"
  /\ walk' = pathConfs
  /\ UNCHANGED <<instVars, pathConfs, paths, rtsp, actorVars, procVars>>

\* A second loop that looks for what is in the new map and not in the old one, which is
\* the same object.
ReloadCreatesNothing(i) ==
  /\ reload = "opening"
  /\ i \in walk
  /\ walk' = walk \ {i}
  /\ UNCHANGED <<instVars, pathConfs, paths, reload, rtsp, actorVars, procVars>>

\* The second loop: a path that is missing is created.
ReloadCreates(i) ==
  /\ reload = "opening"
  /\ i \in walk
  /\ walk' = walk \ {i}
  /\ paths' = paths \cup {i}
  /\ UNCHANGED <<instVars, pathConfs, reload, rtsp, actorVars, procVars>>

ReloadEnds ==
  /\ reload = "opening"
  /\ walk = {}
  /\ reload' = "no"
  /\ UNCHANGED <<instVars, pathConfs, paths, walk, rtsp, actorVars, procVars>>

-----------------------------------------------------------------------------
(***************************************************************************)
(* The transcoders and their ffmpeg processes.                             *)
(***************************************************************************)

\* The first thing Transcoder.run does.
RunBegins(p) ==
  /\ runDue[p]
  /\ ~Unused(p)
  /\ runDue' = [runDue EXCEPT ![p] = FALSE]
  /\ status' = [status EXCEPT ![p] = "ok"]
  /\ UNCHANGED <<instVars, pmVars, actorVars, running, alive>>

\* ffmpeg ends and cmd.Wait returns: the status is written, and the transcoder's
\* context is cancelled, which stops it.
FFmpegEnds(p) ==
  /\ alive[p]
  /\ ~Unused(p)
  /\ alive' = [alive EXCEPT ![p] = FALSE]
  /\ status' = [status EXCEPT ![p] = "down"]
  /\ running' = [running EXCEPT ![p] = FALSE]
  /\ UNCHANGED <<instVars, pmVars, actorVars, runDue>>

\* Transcoders whose context is not the instance's child.
ContextStopsNever(p) == FALSE

\* The context of a transcoder is a child of the instance's: when that is done
\* the transcoder stops, whether or not the instance still knows it.
ContextStops(p) ==
  /\ ctxDone
  /\ running[p]
  /\ running' = [running EXCEPT ![p] = FALSE]
  /\ UNCHANGED <<instVars, pmVars, actorVars, status, alive, runDue>>

-----------------------------------------------------------------------------
(***************************************************************************)
(* Shutdown.                                                               *)
(***************************************************************************)

\* A handler panicked: ControlServer.Done is closed, and the server goes on.
HttpPanics ==
  /\ http = "up"
  /\ http' = "done"
  /\ UNCHANGED <<units, transcoders, ctxDone, stage, stopVars, pmVars, actorVars, procVars>>

\* ListenAndServe failed: the server stops itself.  The requests under way go on.
HttpFails ==
  /\ http # "failed"
  /\ stage = "up"
  /\ http' = "failed"
  /\ UNCHANGED <<units, transcoders, ctxDone, stage, stopVars, pmVars, actorVars, procVars>>

\* The program cancels the context it created the instance with.
Cancel ==
  /\ ~ctxDone
  /\ ctxDone' = TRUE
  /\ UNCHANGED <<units, transcoders, stage, stopVars, http, pmVars, actorVars, procVars>>

\* Instance.Stop begins: no request is taken any more.
StopBegins ==
  /\ ctxDone
  /\ stage = "up"
  /\ stage' = "stopping"
  /\ http' = IF http = "failed" THEN http ELSE "done"
  /\ UNCHANGED <<units, transcoders, ctxDone, stopVars, pmVars, actorVars, procVars>>

\* http.Server.Shutdown has waited for the requests under way, unless the server had
\* stopped before; the units are counted.
StopCounts ==
  /\ stage = "stopping"
  /\ http = "failed" \/ \A c \in Clients : pc[c] = "idle"
  /\ stage' = "counted"
  /\ owed' = Cardinality(units)
  /\ UNCHANGED <<units, transcoders, ctxDone, stopTodo, stopping, disturbed, http, pmVars,
                 actorVars, procVars>>

\* The range over the units begins, starts a goroutine for each, and ends.  Neither the
\* watchdog's round nor a request that outlives its server waits for it.
StopRanges ==
  /\ stage = "counted"
  /\ stage' = "ranging"
  /\ stopTodo' = units
  /\ UNCHANGED <<units, transcoders, ctxDone, owed, stopping, disturbed, http, pmVars,
                 actorVars, procVars>>

StopSpawns(i) ==
  /\ stage = "ranging"
  /\ i \in stopTodo
  /\ stopTodo' = stopTodo \ {i}
  /\ stopping' = [stopping EXCEPT ![i] = @ + 1]
  /\ UNCHANGED <<units, transcoders, ctxDone, stage, owed, disturbed, http, pmVars,
                 actorVars, procVars>>

StopRanged ==
  /\ stage = "ranging"
  /\ stopTodo = {}
  /\ stage' = "waiting"
  /\ UNCHANGED <<units, transcoders, ctxDone, stopVars, http, pmVars, actorVars, procVars>>

\* A goroutine of Stop stops the transcoder its unit has by then.
StopsTranscoder(i) ==
  /\ stopping[i] > 0
  /\ owed > 0
  /\ stopping' = [stopping EXCEPT ![i] = @ - 1]
  /\ owed' = owed - 1
  /\ StopTranscoder(transcoders[i])
  /\ UNCHANGED <<units, transcoders, ctxDone, stage, stopTodo, disturbed, http, pmVars,
                 actorVars, status, alive, runDue>>

\* One more than were counted takes the wait group below zero.  That panics, and nothing
\* is left of the program but its ffmpeg processes, which nobody sees any more.
StopPanics(i) ==
  /\ stopping[i] > 0
  /\ owed = 0
  /\ stage' = "panicked"
  /\ stopping' = [j \in Ids |-> 0]
  /\ units' = {} /\ stopTodo' = {} /\ pathConfs' = {} /\ paths' = {} /\ walk' = {} /\ todo' = {}
  /\ transcoders' = [j \in Ids |-> None]
  /\ http' = "failed" /\ rtsp' = "down" /\ reload' = "no"
  /\ pc' = [a \in Actors |-> "exited"]
  /\ arg' = [a \in Actors |-> None]
  /\ made' = [a \in Actors |-> None]
  /\ running' = [p \in Procs |-> FALSE]
  /\ runDue' = [p \in Procs |-> FALSE]
  /\ UNCHANGED <<ctxDone, owed, disturbed, status, alive>>

\* wg.Wait returns.
StopDrained ==
  /\ stage = "waiting"
  /\ owed = 0
  /\ stage' = "drained"
  /\ UNCHANGED <<units, transcoders, ctxDone, stopVars, http, pmVars, actorVars, procVars>>

\* RtspHandler.Stop, in the handler's own goroutine: the handler's context is a
\* child of the instance's.
RtspStopsItself ==
  /\ ctxDone
  /\ rtsp = "up"
  /\ rtsp' = "closing"
  /\ UNCHANGED <<instVars, pathConfs, reloadVars, actorVars, procVars>>

\* RtspHandler.Stop, called by Instance.Stop; the second caller does not wait.
StopRtsp ==
  /\ stage = "drained"
  /\ stage' = IF rtsp = "up" THEN "closing" ELSE "stopped"
  /\ rtsp' = IF rtsp = "up" THEN "closing" ELSE rtsp
  /\ UNCHANGED <<units, transcoders, ctxDone, stopVars, http, pathConfs, reloadVars,
                 actorVars, procVars>>

\* pathManager.close cancels the manager's context.
RtspCloses ==
  /\ rtsp = "closing"
  /\ rtsp' = "down"
  /\ UNCHANGED <<instVars, pathConfs, reloadVars, actorVars, procVars>>

StopEnds ==
  /\ stage = "closing"
  /\ rtsp = "down"
  /\ stage' = "stopped"
  /\ UNCHANGED <<units, transcoders, ctxDone, stopVars, http, pmVars, actorVars, procVars>>

\* What a period of ten seconds is long enough for, which runs may assume: the
\* manager carries out its reload and Transcoder.run is scheduled before it ends.
TickerIsSlow ==
  pc[Watchdog] = "idle" /\ pc'[Watchdog] = "scan" =>
    reload = "no" /\ \A p \in Procs : runDue[p] => Unused(p)

-----------------------------------------------------------------------------
OperationStep(a) ==
  \/ AddCheck(a) \/ AddPathCheck(a) \/ AddPathConf(a) \/ AddPathReload(a)
  \/ AddStopOld(a) \/ AddStart(a) \/ AddStore(a)
  \/ RemoveCheck(a) \/ RemoveStop(a) \/ RemovePathConf(a)
  \/ RemovePathReload(a) \/ RemoveDelete(a)

WatchdogStep == Tick \/ (\E i \in Ids : Scan(i)) \/ ScanDone \/ WatchdogExit

ProcStep(p) ==
  RunBegins(p) \/ FFmpegEnds(p) \/ ContextStops(p)

ReloadStep ==
  \/ \E i \in Ids : ReloadChecks(i) \/ ReloadCreates(i)
  \/ ReloadOpens \/ ReloadEnds

StopStep ==
  \/ StopBegins \/ StopCounts \/ StopRanges \/ StopRanged \/ StopDrained
  \/ StopRtsp \/ StopEnds
  \/ \E i \in Ids : StopSpawns(i)

StopGoroutine(i) == StopsTranscoder(i) \/ StopPanics(i)

RtspStep == RtspStopsItself \/ RtspCloses

Next ==
  \/ \E c \in Clients, i \in Ids : Create(c, i) \/ Stop(c, i)
  \/ \E a \in Actors : OperationStep(a)
  \/ WatchdogStep
  \/ ReloadStep
  \/ \E i \in Ids : StopGoroutine(i)
  \/ \E p \in Procs : ProcStep(p)
  \/ HttpPanics \/ HttpFails \/ Cancel \/ StopStep \/ RtspStep

Spec == Init /\ [][Next]_vars

(***************************************************************************)
(* Fairness.  A goroutine that can move does, and the manager too.  The    *)
(* senders on a Go channel are served in the order in which they came, so  *)
(* no operation waits for ever for a reload while others keep getting      *)
(* theirs (SF).  The ticker keeps firing, but the watchdog's select picks  *)
(* at random among its ready cases: a context that is done is not passed   *)
(* over for ever (SF).  Nothing makes a client call, an ffmpeg end or the  *)
(* program stop.                                                           *)
(***************************************************************************)
Fairness ==
  /\ \A a \in Actors : SF_vars(OperationStep(a))
  /\ WF_vars(WatchdogStep)
  /\ SF_vars(WatchdogExit)
  /\ WF_vars(ReloadStep)
  /\ \A p \in Procs : WF_vars(RunBegins(p)) /\ WF_vars(ContextStops(p))
  /\ WF_vars(StopStep) /\ WF_vars(RtspStep)
  /\ \A i \in Ids : WF_vars(StopGoroutine(i))

FairSpec == Spec /\ Fairness

-----------------------------------------------------------------------------
(***************************************************************************)
(* Safety.  Quiet: the instance is up, no request is under way, and the    *)
(* watchdog waits for its ticker.                                          *)
(***************************************************************************)
Quiet == ~ctxDone /\ \A a \in Actors : pc[a] \in {"idle", "exited"}

\* A path whose configuration is deleted is removed by the reload that follows.
RemovedPathClosed == Quiet /\ reload = "no" => paths \subseteq pathConfs

-----------------------------------------------------------------------------
(***************************************************************************)
(* Liveness.                                                               *)
(***************************************************************************)

\* Every request is answered, also when the manager is shut down under it, unless the
\* program ends.
RequestsReturn == \A c \in Clients : pc[c] \notin {"idle", "exited"} ~> pc[c] \in {"idle", "exited"}

\* When the HTTP server fails or the program cancels, the RTSP side goes down and
\* Instance.Stop returns, unless a restart or a request that outlives its server has
\* changed the units between the count of Stop and the end of its range: then its wait
\* group waits for ever or goes below zero (instance.go Stop).
ShutdownCompletes ==
  (http # "up" \/ ctxDone) ~> rtsp = "down" /\ (stage = "stopped" \/ disturbed)

\* After that no transcoder runs, not even one that was being started meanwhile.
ShutdownStopsTranscoders == ctxDone ~> [](\A p \in Procs : ~running[p])
=============================================================================
