---------------------------- MODULE InstanceProofs ----------------------------
(***************************************************************************)
(* The safety of the instance for any number of units, requests and        *)
(* transcoders, however their operations overlap: what always holds, and   *)
(* what holds of every unit that no two actors have worked on at once.     *)
(***************************************************************************)
EXTENDS InstanceClients, FiniteSetTheorems, TLAPS

(***************************************************************************)
(* What always holds.                                                      *)
(***************************************************************************)

\* An operation has a unit, and AddUnit a transcoder from its start to its storing.
OperationInv ==
  \A a \in Actors :
    /\ pc[a] \notin {"idle", "scan", "exited"} => arg[a] \in Ids
    /\ pc[a] = "addStore" <=> made[a] # None

\* The two maps have the same keys, finitely many: they are written together, under the
\* lock.
EntryInv ==
  /\ \A i \in Ids : i \in units <=> transcoders[i] # None
  /\ IsFiniteSet(units)

\* The instance and its RTSP handler stop only once the context is done.
RtspInv ==
  /\ stage # "up" \/ rtsp # "up" => ctxDone
  /\ \A i \in Ids : stopping[i] > 0 => ctxDone

Base == TypeOK /\ OperationInv /\ EntryInv /\ RtspInv

\* Nothing has happened.
LEMMA BaseInitially == Init => Base
<1> SUFFICES ASSUME Init PROVE Base
  OBVIOUS
<1>1. TypeOK
  BY DEF Init, TypeOK, Steps
<1>2. OperationInv
  BY DEF Init, OperationInv
<1>3. EntryInv
  BY FS_EmptySet DEF Init, EntryInv
<1>4. RtspInv
  BY DEF Init, RtspInv
<1> QED
  BY <1>1, <1>2, <1>3, <1>4 DEF Base

\* Every step of AddUnit and RemoveUnit keeps the invariant.
LEMMA BaseOperations == ASSUME Base, NEW a \in Actors, OperationStep(a) PROVE Base'
<1> USE NoneIsNoProc
    DEF Base, TypeOK, OperationInv, EntryInv, RtspInv, Steps, Actors, Goto, Answer,
        instVars, stopVars, pmVars, reloadVars, actorVars, procVars
<1>1. CASE AddCheck(a)
  BY <1>1 DEF AddCheck
<1>2. CASE AddPathCheck(a)
  BY <1>2 DEF AddPathCheck
<1>3. CASE AddPathConf(a)
  BY <1>3 DEF AddPathConf
<1>4. CASE AddPathReload(a)
  BY <1>4 DEF AddPathReload, ReloadPathConfs, BeginReload
<1>5. CASE AddStopOld(a)
  BY <1>5 DEF AddStopOld, StopTranscoder
<1>6. CASE AddStart(a)
  <2>1. ASSUME NEW p \in Procs,
               made' = [made EXCEPT ![a] = p], pc' = [pc EXCEPT ![a] = "addStore"],
               running' = [running EXCEPT ![p] = TRUE], status' = [status EXCEPT ![p] = "down"],
               alive' = [alive EXCEPT ![p] = TRUE], runDue' = [runDue EXCEPT ![p] = TRUE],
               UNCHANGED <<arg, instVars, pmVars, todo>>
        PROVE  Base'
    <3>1. TypeOK'
      BY <2>1
    <3>2. OperationInv'
      <4>1. pc[a] = "addStart"
        BY <1>6 DEF AddStart
      <4>2. pc'[a] = "addStore" /\ made'[a] = p /\ arg'[a] \in Ids
        BY <2>1, <4>1
      <4>3. ASSUME NEW b \in Actors, b # a
            PROVE  pc'[b] = pc[b] /\ made'[b] = made[b] /\ arg'[b] = arg[b]
        BY <2>1, <4>3
      <4> QED
        BY <4>2, <4>3
    <3>3. (EntryInv /\ RtspInv)'
      BY <2>1
    <3> QED
      BY <3>1, <3>2, <3>3
  <2>2. ASSUME pc[a] = "addStart", Answer(a),
               UNCHANGED <<made, running, status, alive, runDue>>,
               UNCHANGED <<instVars, pmVars, todo>>
        PROVE  Base'
    BY <2>2
  <2>3. Fresh \subseteq Procs
    BY DEF Fresh
  <2> QED
    BY <1>6, <2>1, <2>2, <2>3 DEF AddStart
<1>7. CASE AddStore(a)
  <2>1. TypeOK' /\ OperationInv' /\ RtspInv'
    BY <1>7 DEF AddStore, EditUnits
  <2>2. EntryInv'
    BY <1>7, FS_AddElement DEF AddStore, EditUnits
  <2> QED
    BY <2>1, <2>2
<1>8. CASE RemoveCheck(a)
  BY <1>8 DEF RemoveCheck, AfterRemove
<1>9. CASE RemoveStop(a)
  BY <1>9 DEF RemoveStop, StopTranscoder
<1>10. CASE RemovePathConf(a)
  BY <1>10 DEF RemovePathConf
<1>11. CASE RemovePathReload(a)
  BY <1>11 DEF RemovePathReload, ReloadPathConfs, BeginReload
<1>12. CASE RemoveDelete(a)
  <2>1. TypeOK' /\ OperationInv' /\ RtspInv'
    BY <1>12 DEF RemoveDelete, EditUnits, AfterRemove
  <2>2. EntryInv'
    BY <1>12, FS_RemoveElement DEF RemoveDelete, EditUnits
  <2> QED
    BY <2>1, <2>2
<1> QED
  BY <1>1, <1>2, <1>3, <1>4, <1>5, <1>6, <1>7, <1>8, <1>9, <1>10, <1>11, <1>12 DEF OperationStep

\* So does Instance.Stop, also where it panics.
LEMMA BaseStop ==
  ASSUME Base, StopStep \/ \E i \in Ids : StopGoroutine(i)
  PROVE  Base'
<1> USE NoneIsNoProc
    DEF Base, TypeOK, OperationInv, EntryInv, RtspInv, Steps, Actors,
        instVars, stopVars, pmVars, reloadVars, actorVars, procVars
<1>1. CASE StopBegins
  BY <1>1 DEF StopBegins
<1>2. CASE StopCounts
  BY <1>2, FS_CardinalityType DEF StopCounts
<1>3. CASE StopRanges
  BY <1>3 DEF StopRanges
<1>4. ASSUME NEW i \in Ids, StopSpawns(i) PROVE Base'
  BY <1>4 DEF StopSpawns
<1>5. CASE StopRanged \/ StopDrained
  BY <1>5 DEF StopRanged, StopDrained
<1>6. CASE StopRtsp
  BY <1>6 DEF StopRtsp
<1>7. CASE StopEnds
  BY <1>7 DEF StopEnds
<1>8. ASSUME NEW i \in Ids, StopsTranscoder(i) PROVE Base'
  <2>1. stopping[i] \in Nat /\ stopping[i] > 0 /\ owed \in Nat /\ owed > 0
    BY <1>8 DEF StopsTranscoder
  <2>2. stopping[i] - 1 \in Nat /\ owed - 1 \in Nat
    BY <2>1
  <2>3. running' \in [Procs -> BOOLEAN]
    BY <1>8 DEF StopsTranscoder, StopTranscoder
  <2>4. stopping' = [stopping EXCEPT ![i] = stopping[i] - 1] /\ owed' = owed - 1
    BY <1>8 DEF StopsTranscoder
  <2>5. /\ stopping' \in [Ids -> Nat] /\ owed' \in Nat
        /\ \A j \in Ids : stopping'[j] > 0 => stopping[j] > 0
    BY <2>1, <2>2, <2>4
  <2> QED
    BY <1>8, <2>3, <2>5 DEF StopsTranscoder
<1>9. ASSUME NEW i \in Ids, StopPanics(i) PROVE Base'
  BY <1>9, FS_EmptySet DEF StopPanics
<1> HIDE DEF Base
<1> QED
  BY <1>1, <1>2, <1>3, <1>4, <1>5, <1>6, <1>7, <1>8, <1>9 DEF StopStep, StopGoroutine

\* Every other step keeps the invariant.
LEMMA BaseOthers ==
  ASSUME Base,
         \/ \E c \in Clients, i \in Ids : Create(c, i) \/ Stop(c, i)
         \/ WatchdogStep \/ ReloadStep \/ (\E p \in Procs : ProcStep(p))
         \/ HttpPanics \/ HttpFails \/ Cancel \/ RtspStep
  PROVE  Base'
<1> USE NoneIsNoProc
    DEF Base, TypeOK, OperationInv, EntryInv, RtspInv, Steps, Actors, Goto, Answer,
        instVars, stopVars, pmVars, reloadVars, actorVars, procVars
<1>1. ASSUME NEW c \in Clients, NEW i \in Ids, Create(c, i) \/ Stop(c, i) PROVE Base'
  BY <1>1 DEF Create, Stop
<1>2. CASE Tick
  BY <1>2 DEF Tick
<1>3. ASSUME NEW i \in Ids, Scan(i) PROVE Base'
  BY <1>3 DEF Scan
<1>4. CASE ScanDone \/ WatchdogExit
  <2>1. /\ UNCHANGED <<units, transcoders, stage, stopVars, http, pmVars, arg, made, todo, procVars>>
        /\ pc[Watchdog] \in {"scan", "idle"} /\ ctxDone' \in BOOLEAN /\ (ctxDone => ctxDone')
        /\ pc' \in {[pc EXCEPT ![Watchdog] = "idle"], [pc EXCEPT ![Watchdog] = "exited"]}
    BY <1>4 DEF ScanDone, WatchdogExit
  <2>2. TypeOK'
    BY <2>1
  <2>3. OperationInv'
    BY <2>1
  <2>4. EntryInv' /\ RtspInv'
    BY <2>1
  <2> QED
    BY <2>2, <2>3, <2>4
<1>5. ASSUME NEW i \in Ids, ReloadChecks(i) \/ ReloadCreates(i) PROVE Base'
  BY <1>5 DEF ReloadChecks, ReloadCreates
<1>6. CASE ReloadOpens \/ ReloadEnds
  BY <1>6 DEF ReloadOpens, ReloadEnds
<1>7. ASSUME NEW p \in Procs, ProcStep(p) PROVE Base'
  <2>1. CASE RunBegins(p)
    BY <2>1 DEF RunBegins
  <2>2. CASE FFmpegEnds(p)
    BY <2>2 DEF FFmpegEnds
  <2>3. CASE ContextStops(p)
    BY <2>3 DEF ContextStops
  <2> QED
    BY <1>7, <2>1, <2>2, <2>3 DEF ProcStep
<1>8. CASE HttpPanics \/ HttpFails \/ Cancel
  BY <1>8 DEF HttpPanics, HttpFails, Cancel
<1>9. CASE RtspStep
  BY <1>9 DEF RtspStep, RtspStopsItself, RtspCloses
<1> HIDE DEF Base
<1> QED
  BY <1>1, <1>2, <1>3, <1>4, <1>5, <1>6, <1>7, <1>8, <1>9 DEF WatchdogStep, ReloadStep

\* It is an invariant of every interleaving.
LEMMA BaseStep == Base /\ [Next]_vars => Base'
<1> SUFFICES ASSUME Base, [Next]_vars PROVE Base'
  OBVIOUS
<1>1. CASE Next
  BY <1>1, BaseOperations, BaseStop, BaseOthers DEF Next
<1>2. CASE UNCHANGED vars
  BY <1>2 DEF vars, Base, TypeOK, OperationInv, EntryInv, RtspInv
<1> QED
  BY <1>1, <1>2

\* The two maps and the operations agree in every interleaving of requests, restarts
\* and shutdown.
THEOREM Invariant == Spec => []Base
BY BaseInitially, BaseStep, PTL DEF Spec

\* Type correctness.
THEOREM TypeCorrect == Spec => []TypeOK
<1>1. Base => TypeOK
  BY DEF Base
<1> QED
  BY <1>1, Invariant, PTL

(***************************************************************************)
(* What holds of the units that no two actors have worked on at once.      *)
(* Nothing is claimed once the instance stops.                             *)
(***************************************************************************)

\* A transcoder has been started for the unit it is stored or held for.
Objects ==
  /\ wanted \subseteq Ids
  /\ \A p \in Procs :
       /\ \A i \in Ids : transcoders[i] = p => startedFor[p] = i
       /\ \A a \in Actors : made[a] = p => startedFor[p] = arg[a]
       /\ running[p] => startedFor[p] \in Ids

\* A transcoder that is about to be overwritten or forgotten was stopped.
Stopped(i) ==
  \A a \in Actors :
    arg[a] = i /\ pc[a] \in {"addStart", "addStore", "remPath", "remReload", "remDelete"} =>
      \A p \in Procs : transcoders[i] = p => ~running[p]

\* A transcoder that runs is stored, or about to be.
Owned(i) ==
  \A p \in Procs :
    running[p] /\ startedFor[p] = i =>
      transcoders[i] = p \/ \E a \in Actors : made[a] = p /\ arg[a] = i

\* The path of a configured unit is there, or the reload under way comes to it.
Created(i) ==
  /\ i \in pathConfs
  /\ \/ i \in paths
     \/ reload = "closing"
     \/ reload = "opening" /\ i \in walk

\* A unit about to be added has its path configured, and created in the end.
Prepared(i) ==
  \A a \in Actors :
    arg[a] = i => /\ pc[a] \in {"addReload", "addStop", "addStart", "addStore"} => i \in pathConfs
                  /\ pc[a] \in {"addStop", "addStart", "addStore"} => Created(i)

\* So has a unit that is not about to be removed.
Served(i) ==
  i \in units =>
    Created(i) \/ \E a \in Actors : arg[a] = i /\ pc[a] \in {"remReload", "remDelete"}

Adding == {"addCheck", "addPath", "addConf", "addReload", "addStop", "addStart", "addStore"}

\* Clients have asked for a unit that is there or being restarted.
AskedFor(i) ==
  i \in units \/ (arg[Watchdog] = i /\ pc[Watchdog] \notin {"idle", "scan", "exited"}) => i \in wanted

\* A unit that clients asked for is there, or on its way back with nothing in the way.
Kept(i) ==
  /\ i \in wanted => i \in units \/ (arg[Watchdog] = i /\ pc[Watchdog] \in Adding)
  /\ arg[Watchdog] = i =>
       /\ pc[Watchdog] \in {"remCheck", "remStop"} => i \in units
       /\ pc[Watchdog] \in Adding => i \notin units
       /\ pc[Watchdog] \in {"remReload", "remDelete", "addCheck", "addPath"} => i \notin pathConfs

Tidy(i) == Stopped(i) /\ Owned(i) /\ Prepared(i) /\ Served(i) /\ AskedFor(i) /\ Kept(i)

Clashes == \A i \in Ids : Clash(i) => i \in contested

ClientsInv ==
  /\ Base
  /\ ~ctxDone => /\ Objects /\ Clashes
                 /\ \A i \in Ids \ contested : Tidy(i)

\* An operation moves its own actor; it fulfils a request of its client where it ends with
\* the unit stored or deleted, and gives a unit up where a restart fails to start ffmpeg.
LEMMA Moves ==
  ASSUME Base, NEW a \in Actors, OperationStep(a), Promise, Note
  PROVE  /\ \A b \in Actors \ {a} : pc'[b] = pc[b] /\ arg'[b] = arg[b] /\ made'[b] = made[b]
         /\ wanted' = CASE a \in Clients /\ pc[a] = "addStore"  -> wanted \cup {arg[a]}
                        [] a \in Clients /\ pc[a] = "remDelete" -> wanted \ {arg[a]}
                        [] a = Watchdog /\ pc[a] = "addStart" /\ pc'[a] = "scan" -> wanted \ {arg[a]}
                        [] OTHER -> wanted
         /\ \A p \in Procs :
              startedFor'[p] = IF made[a] = None /\ made'[a] = p THEN arg[a] ELSE startedFor[p]
<1> USE DEF OperationStep, AddCheck, AddPathCheck, AddPathConf, AddPathReload, AddStopOld,
            AddStart, AddStore, RemoveCheck, RemoveStop, RemovePathConf, RemovePathReload,
            RemoveDelete
<1>1. \A b \in Actors \ {a} : pc'[b] = pc[b] /\ arg'[b] = arg[b] /\ made'[b] = made[b]
  BY DEF Base, TypeOK, Goto, Answer, AfterRemove, actorVars
<1>2. arg[a] \in Ids
  BY DEF Base, OperationInv
<1>3. a \in Clients => a # Watchdog /\ (pc[a] \in {"addStore", "remDelete"} => pc'[a] = "idle")
  BY WatchdogIsNoClient DEF Base, TypeOK, AfterRemove, Answer
<1>4. a \notin Clients => a = Watchdog
  BY DEF Actors
<1> HIDE DEF OperationStep, AddCheck, AddPathCheck, AddPathConf, AddPathReload, AddStopOld,
            AddStart, AddStore, RemoveCheck, RemoveStop, RemovePathConf, RemovePathReload,
            RemoveDelete
<1>5. \A c \in Clients : c # a => pc'[c] = pc[c]
  BY <1>1 DEF Actors
<1>6. Granted("addStore") = IF a \in Clients /\ pc[a] = "addStore" THEN {arg[a]} ELSE {}
  BY <1>3, <1>5 DEF Granted
<1>7. Granted("remDelete") = IF a \in Clients /\ pc[a] = "remDelete" THEN {arg[a]} ELSE {}
  BY <1>3, <1>5 DEF Granted
<1>8. GivenUp = IF a = Watchdog /\ pc[a] = "addStart" /\ pc'[a] = "scan" THEN {arg[a]} ELSE {}
  <2>1. a # Watchdog => pc'[Watchdog] = pc[Watchdog]
    BY <1>1 DEF Actors
  <2> QED
    BY <1>2, <2>1 DEF GivenUp
<1>9. wanted' = CASE a \in Clients /\ pc[a] = "addStore"  -> wanted \cup {arg[a]}
                  [] a \in Clients /\ pc[a] = "remDelete" -> wanted \ {arg[a]}
                  [] a = Watchdog /\ pc[a] = "addStart" /\ pc'[a] = "scan" -> wanted \ {arg[a]}
                  [] OTHER -> wanted
  BY <1>3, <1>6, <1>7, <1>8 DEF Promise
<1>10. ASSUME NEW p \in Procs
       PROVE  startedFor'[p] = IF made[a] = None /\ made'[a] = p THEN arg[a] ELSE startedFor[p]
  <2>1. Starters(p) = IF made[a] = None /\ made'[a] = p THEN {a} ELSE {}
    BY <1>1, NoneIsNoProc DEF Starters
  <2> QED
    BY <2>1 DEF Note
<1> QED
  BY <1>1, <1>9, <1>10

\* Where nobody starts a transcoder and no answer is given, nothing changes for clients.
LEMMA Unpromised ==
  ASSUME Promise, Note, made' = made,
         \A a \in Actors : pc'[a] = pc[a] \/ pc[a] \notin {"addStore", "remDelete", "addStart"}
  PROVE  wanted' = wanted /\ \A p \in Procs : startedFor'[p] = startedFor[p]
<1>1. Granted("addStore") = {} /\ Granted("remDelete") = {}
  BY DEF Granted, Actors
<1>2. GivenUp = {}
  BY DEF GivenUp, Actors
<1>3. \A p \in Procs : Starters(p) = {}
  BY NoneIsNoProc DEF Starters
<1> QED
  BY <1>1, <1>2, <1>3 DEF Promise, Note

\* What an operation does to its transcoders.
LEMMA ObjectsKept ==
  ASSUME Base, Objects, NEW a \in Actors, OperationStep(a), Promise, Note
  PROVE  Objects'
<1>1. Base' /\ arg[a] \in Ids
  BY BaseOperations
  DEF Base, OperationInv, OperationStep, AddCheck, AddPathCheck, AddPathConf, AddPathReload,
      AddStopOld, AddStart, AddStore, RemoveCheck, RemoveStop, RemovePathConf, RemovePathReload,
      RemoveDelete
<1>2. wanted' \subseteq Ids
  BY <1>1, Moves DEF Objects
<1>3. ASSUME pc[a] \notin {"addStart", "addStore", "remDelete"}
      PROVE  Objects'
  <2>1. made' = made /\ transcoders' = transcoders /\ \A p \in Procs : running'[p] => running[p]
    BY <1>3
    DEF Base, TypeOK, procVars, StopTranscoder, OperationStep, AddCheck, AddPathCheck,
        AddPathConf, AddPathReload, AddStopOld, AddStart, AddStore, RemoveCheck, RemoveStop, RemovePathConf, RemovePathReload,
        RemoveDelete, instVars
  <2>2. made[a] = None
    BY <1>3 DEF Base, OperationInv
  <2> QED
    BY <1>2, <2>1, <2>2, Moves, NoneIsNoProc DEF Objects
<1>4. CASE AddStart(a)
  <2>1. made[a] = None /\ transcoders' = transcoders
    BY <1>4 DEF AddStart, instVars, Base, OperationInv
  <2>2. CASE made' = made
    <3>1. running' = running
      BY <1>4, <2>1, <2>2, NoneIsNoProc DEF AddStart, Base, TypeOK
    <3> QED
      BY <1>2, <2>1, <2>2, <3>1, Moves, NoneIsNoProc DEF Objects
  <2>3. ASSUME NEW p \in Procs, Unused(p), made' = [made EXCEPT ![a] = p], arg' = arg,
               running' = [running EXCEPT ![p] = TRUE]
        PROVE  Objects'
    <3>1. \A q \in Procs \ {p} : startedFor'[q] = startedFor[q]
      BY <2>1, <2>3, Moves DEF Base, TypeOK
    <3>2. startedFor'[p] = arg[a]
      BY <2>1, <2>3, Moves DEF Base, TypeOK
    <3> QED
      BY <1>1, <1>2, <2>1, <2>3, <3>1, <3>2, NoneIsNoProc DEF Objects, Unused, Base, TypeOK
  <2> QED
    BY <1>4, <2>2, <2>3 DEF AddStart, Fresh
<1>5. CASE AddStore(a)
  <2>1. \A p \in Procs : startedFor'[p] = startedFor[p]
    BY <1>5, Moves, NoneIsNoProc DEF AddStore, Base, TypeOK
  <2> QED
    BY <1>1, <1>2, <1>5, <2>1, Moves, NoneIsNoProc DEF AddStore, Objects, Base, TypeOK, procVars
<1>6. CASE RemoveDelete(a)
  <2>1. made[a] = None /\ made' = made
    BY <1>6 DEF RemoveDelete, Base, OperationInv
  <2> QED
    BY <1>1, <1>2, <1>6, <2>1, Moves, NoneIsNoProc DEF RemoveDelete, Objects, Base, TypeOK, procVars
<1> QED
  BY <1>3, <1>4, <1>5, <1>6
  DEF OperationStep, AddCheck, AddPathCheck, AddPathConf, AddPathReload,
      AddStopOld, RemoveCheck, RemoveStop, RemovePathConf, RemovePathReload

\* An operation on another unit.
LEMMA OtherUnits ==
  ASSUME Base, Objects, NEW a \in Actors, OperationStep(a), Promise, Note,
         NEW i \in Ids, arg[a] # i, Tidy(i), ~ctxDone
  PROVE  Tidy(i)'
<1> DEFINE Others == Actors \ {a}
<1>1. Base' /\ arg[a] \in Ids /\ rtsp = "up"
  BY BaseOperations
  DEF Base, OperationInv, RtspInv, OperationStep, AddCheck, AddPathCheck, AddPathConf,
      AddPathReload, AddStopOld, AddStart, AddStore, RemoveCheck, RemoveStop, RemovePathConf,
      RemovePathReload, RemoveDelete
<1>2. /\ \A b \in Others : pc'[b] = pc[b] /\ arg'[b] = arg[b] /\ made'[b] = made[b]
      /\ i \in wanted' <=> i \in wanted
      /\ \A p \in Procs : startedFor'[p] = i => startedFor[p] = i
  BY Moves
<1>3. arg'[a] # i \/ pc'[a] \in {"idle", "scan"}
  BY DEF OperationStep, AddCheck, AddPathCheck, AddPathConf, AddPathReload, AddStopOld,
         AddStart, AddStore, RemoveCheck, RemoveStop, RemovePathConf, RemovePathReload,
         RemoveDelete, Goto, Answer, AfterRemove, Base, TypeOK, actorVars
<1>4. /\ i \in units' <=> i \in units
      /\ transcoders'[i] = transcoders[i]
  BY <1>1 DEF OperationStep, AddCheck, AddPathCheck, AddPathConf, AddPathReload, AddStopOld,
         AddStart, AddStore, RemoveCheck, RemoveStop, RemovePathConf, RemovePathReload,
         RemoveDelete, EditUnits, instVars, Base, TypeOK
<1>5. i \in pathConfs' <=> i \in pathConfs
  BY <1>1 DEF OperationStep, AddCheck, AddPathCheck, AddPathConf, AddPathReload, AddStopOld,
         AddStart, AddStore, RemoveCheck, RemoveStop, RemovePathConf, RemovePathReload,
         RemoveDelete, pmVars
<1>6. Created(i) => Created(i)'
  <2>1. paths' = paths
    BY DEF OperationStep, AddCheck, AddPathCheck, AddPathConf, AddPathReload, AddStopOld,
           AddStart, AddStore, RemoveCheck, RemoveStop, RemovePathConf, RemovePathReload,
           RemoveDelete, pmVars, reloadVars, ReloadPathConfs, BeginReload
  <2>2. \/ reload' = reload /\ (i \in walk => i \in walk')
        \/ reload = "no" /\ reload' = "closing"
    BY <1>1
       DEF OperationStep, AddCheck, AddPathCheck, AddPathConf, AddPathReload, AddStopOld,
           AddStart, AddStore, RemoveCheck, RemoveStop, RemovePathConf, RemovePathReload,
           RemoveDelete, pmVars, reloadVars, ReloadPathConfs, BeginReload
  <2> QED
    BY <1>5, <2>1, <2>2 DEF Created
<1>7. \A p \in Procs : startedFor'[p] = i \/ transcoders[i] = p => (running'[p] => running[p])
  <2>1. CASE AddStart(a)
    <3>1. made[a] = None
      BY <2>1 DEF AddStart, Base, OperationInv
    <3>2. CASE UNCHANGED running
      BY <3>2
    <3>3. ASSUME NEW p \in Procs, Unused(p), made' = [made EXCEPT ![a] = p],
                 running' = [running EXCEPT ![p] = TRUE]
          PROVE  \A q \in Procs : startedFor'[q] = i \/ transcoders[i] = q => (running'[q] => running[q])
      <4>1. startedFor'[p] = arg[a]
        BY <3>1, <3>3, Moves DEF Base, TypeOK
      <4>2. transcoders[i] # p
        BY <3>3 DEF Unused
      <4> QED
        BY <3>3, <4>1, <4>2 DEF Base, TypeOK
    <3> QED
      BY <2>1, <3>2, <3>3 DEF AddStart, Fresh
  <2>2. CASE ~AddStart(a)
    BY <2>2 DEF OperationStep, AddCheck, AddPathCheck, AddPathConf, AddPathReload, AddStopOld,
         AddStore, RemoveCheck, RemoveStop, RemovePathConf, RemovePathReload,
         RemoveDelete, procVars, StopTranscoder, Base, TypeOK
  <2> QED
    BY <2>1, <2>2
<1>8. \A b \in Actors : b = a \/ b \in Others
  OBVIOUS
<1>9. Watchdog \in Actors
  BY DEF Actors
<1> HIDE DEF Others
<1>10. Stopped(i)'
  BY <1>2, <1>3, <1>4, <1>7, <1>8 DEF Tidy, Stopped
<1>11. Owned(i)'
  <2> SUFFICES ASSUME NEW p \in Procs, running'[p], startedFor'[p] = i
               PROVE  transcoders'[i] = p \/ \E b \in Actors : made'[b] = p /\ arg'[b] = i
    BY DEF Owned
  <2>1. transcoders[i] = p \/ \E b \in Actors : made[b] = p /\ arg[b] = i
    BY <1>2, <1>7 DEF Tidy, Owned
  <2> QED
    BY <1>2, <1>4, <1>8, <2>1
<1>12. Prepared(i)'
  BY <1>2, <1>3, <1>5, <1>6, <1>8 DEF Tidy, Prepared
<1>13. Served(i)'
  <2>1. i \in units' => Created(i) \/ \E b \in Others : arg[b] = i /\ pc[b] \in {"remReload", "remDelete"}
    BY <1>4, <1>8 DEF Tidy, Served
  <2>2. \A b \in Others : b \in Actors
    BY DEF Others
  <2> QED
    BY <1>2, <1>6, <2>1, <2>2 DEF Served
<1>14. AskedFor(i)'
  BY <1>2, <1>3, <1>4, <1>8, <1>9 DEF Tidy, AskedFor
<1>15. Kept(i)'
  BY <1>2, <1>3, <1>4, <1>5, <1>8, <1>9 DEF Tidy, Kept, Adding
<1> QED
  BY <1>10, <1>11, <1>12, <1>13, <1>14, <1>15 DEF Tidy

\* Nothing is left to be said of a unit nothing is left of.
LEMMA CleanIsTidy == ASSUME NEW i \in Ids, Base', Clean(i)' PROVE Tidy(i)'
<1>1. i \notin units' /\ i \notin pathConfs' /\ i \notin wanted'
  BY DEF Clean
<1>2. \A p \in Procs : running'[p] => startedFor'[p] # i
  BY DEF Clean
<1>3. \A a \in Actors : arg'[a] = i =>
        /\ pc'[a] \in {"idle", "exited", "scan", "addCheck", "addPath", "remCheck"}
        /\ a = Watchdog => pc'[a] \in {"idle", "exited", "scan"}
  BY WatchdogIsNoClient DEF Clean, Engaged
<1>4. Watchdog \in Actors
  BY DEF Actors
<1>5. Stopped(i)' /\ Owned(i)' /\ Prepared(i)' /\ Served(i)'
  BY <1>1, <1>2, <1>3 DEF Stopped, Owned, Prepared, Served
<1>6. AskedFor(i)' /\ Kept(i)'
  BY <1>1, <1>3, <1>4 DEF AskedFor, Kept, Adding
<1> QED
  BY <1>5, <1>6 DEF Tidy

\* An operation that nobody else touches the unit of.
LEMMA OwnUnit ==
  ASSUME Base, Objects, NEW a \in Actors, OperationStep(a), Promise, Note,
         NEW i \in Ids, arg[a] = i, Tidy(i), ~Clash(i), ~Clash(i)', ~ctxDone
  PROVE  Tidy(i)'
<1> DEFINE Others == Actors \ {a}
           Alone == \A b \in Others : arg[b] = i =>
                      \/ pc[b] \in {"idle", "exited", "scan"}
                      \/ b # Watchdog /\ pc[b] \in {"addCheck", "addPath", "remCheck"}
<1>1. Base' /\ rtsp = "up"
  BY BaseOperations DEF Base, RtspInv
<1>2. \A b \in Others : b \in Actors /\ pc'[b] = pc[b] /\ arg'[b] = arg[b] /\ made'[b] = made[b]
  BY Moves
<1>3. wanted' = CASE a \in Clients /\ pc[a] = "addStore"  -> wanted \cup {i}
                  [] a \in Clients /\ pc[a] = "remDelete" -> wanted \ {i}
                  [] a = Watchdog /\ pc[a] = "addStart" /\ pc'[a] = "scan" -> wanted \ {i}
                  [] OTHER -> wanted
  BY Moves
<1>4. \A p \in Procs :
        startedFor'[p] = IF made[a] = None /\ made'[a] = p THEN i ELSE startedFor[p]
  BY Moves
<1>5. Watchdog \in Actors /\ Watchdog \notin Clients /\ \A b \in Actors : b = Watchdog \/ b \in Clients
  BY WatchdogIsNoClient DEF Actors
<1>6. Engaged(a, i) \/ Engaged(a, i)' => Alone
  <2> SUFFICES ASSUME Engaged(a, i) \/ Engaged(a, i)', NEW b \in Others
               PROVE  ~Engaged(b, i)
    BY <1>5 DEF Engaged
  <2>1. Engaged(b, i)' <=> Engaged(b, i)
    BY <1>2 DEF Engaged
  <2> QED
    BY <2>1 DEF Clash
<1>7. /\ a = Watchdog \/ pc[a] \notin {"addCheck", "addPath", "remCheck", "idle", "exited", "scan"}
      /\ pc[a] \notin {"idle", "exited", "scan"}
      => Alone
  BY <1>5, <1>6 DEF Engaged
<1>8. \A b \in Actors : b = a \/ b \in Others
  OBVIOUS
<1> HIDE DEF Others
<1> USE DEF Base, TypeOK, Steps, Goto, Answer, AfterRemove
<1>a1. CASE AddCheck(a)
  <2>1. wanted' = wanted /\ \A p \in Procs : startedFor'[p] = startedFor[p]
    BY <1>3, <1>4, <1>a1, NoneIsNoProc DEF AddCheck
  <2>2. /\ pc[a] = "addCheck" /\ UNCHANGED <<instVars, pmVars, made, todo, procVars>>
        /\ \/ i \in units /\ Answer(a)
           \/ i \notin units /\ Goto(a, "addPath") /\ arg' = arg
    BY <1>a1 DEF AddCheck
  <2> USE DEF instVars, stopVars, pmVars, reloadVars, procVars
  <2>3. Stopped(i)'
    BY <1>2, <1>8, NoneIsNoProc, <2>1, <2>2 DEF Tidy, Stopped
  <2>4. Owned(i)'
    BY <1>1, <1>2, <1>8, NoneIsNoProc, <2>1, <2>2 DEF Tidy, Owned, Stopped, OperationInv
  <2>5. Prepared(i)'
    BY <1>2, <1>8, <2>1, <2>2 DEF Tidy, Prepared, Created
  <2>6. Served(i)'
    BY <1>2, <1>8, <2>1, <2>2 DEF Tidy, Served, Created, Prepared
  <2>7. AskedFor(i)' /\ Kept(i)'
    BY <1>2, <1>5, <1>8, <2>1, <2>2 DEF Tidy, AskedFor, Kept, Adding
  <2> QED
    BY <2>3, <2>4, <2>5, <2>6, <2>7 DEF Tidy
<1>a2. CASE AddPathCheck(a)
  <2>1. wanted' = wanted /\ \A p \in Procs : startedFor'[p] = startedFor[p]
    BY <1>3, <1>4, <1>a2, NoneIsNoProc DEF AddPathCheck
  <2>2. /\ pc[a] = "addPath" /\ UNCHANGED <<instVars, pmVars, made, todo, procVars>>
        /\ \/ i \in pathConfs /\ Answer(a)
           \/ i \notin pathConfs /\ Goto(a, "addConf") /\ arg' = arg
    BY <1>a2 DEF AddPathCheck
  <2> USE DEF instVars, stopVars, pmVars, reloadVars, procVars
  <2>3. Stopped(i)'
    BY <1>2, <1>8, NoneIsNoProc, <2>1, <2>2 DEF Tidy, Stopped
  <2>4. Owned(i)'
    BY <1>1, <1>2, <1>8, NoneIsNoProc, <2>1, <2>2 DEF Tidy, Owned, Stopped, OperationInv
  <2>5. Prepared(i)'
    BY <1>2, <1>8, <2>1, <2>2 DEF Tidy, Prepared, Created
  <2>6. Served(i)'
    BY <1>2, <1>8, <2>1, <2>2 DEF Tidy, Served, Created, Prepared
  <2>7. AskedFor(i)' /\ Kept(i)'
    BY <1>2, <1>5, <1>8, <2>1, <2>2 DEF Tidy, AskedFor, Kept, Adding
  <2> QED
    BY <2>3, <2>4, <2>5, <2>6, <2>7 DEF Tidy
<1>a3. CASE AddPathConf(a)
  <2>1. wanted' = wanted /\ \A p \in Procs : startedFor'[p] = startedFor[p]
    BY <1>3, <1>4, <1>a3, NoneIsNoProc DEF AddPathConf
  <2>2. /\ pc[a] = "addConf" /\ Goto(a, "addReload") /\ pathConfs' = pathConfs \cup {i}
        /\ i \in pathConfs => walk' = walk
        /\ UNCHANGED <<instVars, paths, reload, rtsp, arg, made, todo, procVars>>
    BY <1>a3 DEF AddPathConf
  <2>3. Alone
    BY <1>7, <2>2
  <2> USE DEF instVars, stopVars, pmVars, reloadVars, procVars
  <2>4. Stopped(i)'
    BY <1>2, <1>8, NoneIsNoProc, <2>1, <2>2, <2>3 DEF Tidy, Stopped
  <2>5. Owned(i)'
    BY <1>1, <1>2, <1>8, NoneIsNoProc, <2>1, <2>2, <2>3 DEF Tidy, Owned, Stopped, OperationInv
  <2>6. Prepared(i)'
    BY <1>2, <1>8, <2>1, <2>2, <2>3 DEF Tidy, Prepared, Created
  <2>7. Served(i)'
    BY <1>2, <1>8, <2>1, <2>2, <2>3 DEF Tidy, Served, Created, Prepared
  <2>8. AskedFor(i)' /\ Kept(i)'
    BY <1>2, <1>5, <1>8, <2>1, <2>2, <2>3 DEF Tidy, AskedFor, Kept, Adding
  <2> QED
    BY <2>4, <2>5, <2>6, <2>7, <2>8 DEF Tidy
<1>a4. CASE AddPathReload(a)
  <2>1. wanted' = wanted /\ \A p \in Procs : startedFor'[p] = startedFor[p]
    BY <1>3, <1>4, <1>a4, NoneIsNoProc DEF AddPathReload
  <2>2. /\ pc[a] = "addReload" /\ Goto(a, "addStop") /\ reload' = "closing"
        /\ UNCHANGED <<instVars, pathConfs, paths, rtsp, arg, made, todo, procVars>>
    BY <1>1, <1>a4 DEF AddPathReload, ReloadPathConfs, BeginReload
  <2> USE DEF instVars, stopVars, pmVars, reloadVars, procVars
  <2>3. Stopped(i)'
    BY <1>2, <1>8, NoneIsNoProc, <2>1, <2>2 DEF Tidy, Stopped
  <2>4. Owned(i)'
    BY <1>1, <1>2, <1>8, NoneIsNoProc, <2>1, <2>2 DEF Tidy, Owned, Stopped, OperationInv
  <2>5. Prepared(i)'
    BY <1>2, <1>8, <2>1, <2>2 DEF Tidy, Prepared, Created
  <2>6. Served(i)'
    BY <1>2, <1>8, <2>1, <2>2 DEF Tidy, Served, Created, Prepared
  <2>7. AskedFor(i)' /\ Kept(i)'
    BY <1>2, <1>5, <1>8, <2>1, <2>2 DEF Tidy, AskedFor, Kept, Adding
  <2> QED
    BY <2>3, <2>4, <2>5, <2>6, <2>7 DEF Tidy
<1>a5. CASE AddStopOld(a)
  <2>1. wanted' = wanted /\ \A p \in Procs : startedFor'[p] = startedFor[p]
    BY <1>3, <1>4, <1>a5, NoneIsNoProc DEF AddStopOld
  <2>2. /\ pc[a] = "addStop" /\ Goto(a, "addStart")
        /\ \A p \in Procs : /\ transcoders[i] = p => ~running'[p]
                            /\ running'[p] => running[p]
        /\ UNCHANGED <<instVars, pmVars, arg, made, todo, status, alive, runDue>>
    BY <1>a5, NoneIsNoProc DEF AddStopOld, StopTranscoder
  <2> USE DEF instVars, stopVars, pmVars, reloadVars, procVars
  <2>3. Stopped(i)'
    BY <1>2, <1>8, NoneIsNoProc, <2>1, <2>2 DEF Tidy, Stopped
  <2>4. Owned(i)'
    BY <1>1, <1>2, <1>8, NoneIsNoProc, <2>1, <2>2 DEF Tidy, Owned, Stopped, OperationInv
  <2>5. Prepared(i)'
    BY <1>2, <1>8, <2>1, <2>2 DEF Tidy, Prepared, Created
  <2>6. Served(i)'
    BY <1>2, <1>8, <2>1, <2>2 DEF Tidy, Served, Created, Prepared
  <2>7. AskedFor(i)' /\ Kept(i)'
    BY <1>2, <1>5, <1>8, <2>1, <2>2 DEF Tidy, AskedFor, Kept, Adding
  <2> QED
    BY <2>3, <2>4, <2>5, <2>6, <2>7 DEF Tidy
<1>a6. CASE AddStart(a)
  <2>1. /\ pc[a] = "addStart" /\ made[a] = None
        /\ UNCHANGED <<instVars, pmVars, todo>>
    BY <1>a6 DEF AddStart, OperationInv
  <2>2. Alone
    BY <1>7, <2>1
  <2> USE DEF instVars, stopVars, pmVars, reloadVars, procVars
  <2>3. ASSUME NEW p \in Procs, Unused(p), made' = [made EXCEPT ![a] = p],
               running' = [running EXCEPT ![p] = TRUE], Goto(a, "addStore"), arg' = arg
        PROVE  Tidy(i)'
    <3>1. /\ startedFor'[p] = i
          /\ wanted' = wanted /\ \A q \in Procs \ {p} : startedFor'[q] = startedFor[q]
      BY <1>3, <1>4, <1>5, <2>1, <2>3, NoneIsNoProc
    <3>2. transcoders[i] # p /\ \A b \in Actors : made[b] # p
      BY <2>3 DEF Unused
    <3>3. Stopped(i)'
      BY <1>2, <1>8, <2>1, <2>3, <3>2 DEF Tidy, Stopped
    <3>4. Owned(i)'
      BY <1>2, <1>8, <2>1, <2>3, <3>1, <3>2, NoneIsNoProc DEF Tidy, Owned
    <3>5. Prepared(i)'
      BY <1>2, <1>8, <2>1, <2>3 DEF Tidy, Prepared, Created
    <3>6. Served(i)'
      BY <1>2, <1>8, <2>1, <2>3 DEF Tidy, Served, Created
    <3>7. AskedFor(i)' /\ Kept(i)'
      BY <1>2, <1>5, <1>8, <2>1, <2>3, <3>1 DEF Tidy, AskedFor, Kept, Adding
    <3> QED
      BY <3>3, <3>4, <3>5, <3>6, <3>7 DEF Tidy
  <2>4. ASSUME Answer(a), UNCHANGED <<made, running>>
        PROVE  Tidy(i)'
    <3>1. /\ wanted' = IF a = Watchdog THEN wanted \ {i} ELSE wanted
          /\ \A p \in Procs : startedFor'[p] = startedFor[p]
      BY <1>3, <1>4, <1>5, <2>1, <2>4, NoneIsNoProc
    <3>2. Stopped(i)'
      BY <1>2, <1>8, <2>1, <2>4 DEF Tidy, Stopped
    <3>3. Owned(i)'
      BY <1>2, <1>8, <2>1, <2>4, <3>1, NoneIsNoProc DEF Tidy, Owned
    <3>4. Prepared(i)'
      BY <1>2, <1>8, <2>1, <2>4 DEF Tidy, Prepared, Created
    <3>5. Served(i)'
      BY <1>2, <1>8, <2>1, <2>4 DEF Tidy, Served, Created
    <3>6. AskedFor(i)' /\ Kept(i)'
      BY <1>2, <1>5, <1>8, <2>1, <2>2, <2>4, <3>1 DEF Tidy, AskedFor, Kept, Adding
    <3> QED
      BY <3>2, <3>3, <3>4, <3>5, <3>6 DEF Tidy
  <2> QED
    BY <1>a6, <2>3, <2>4 DEF AddStart, Fresh
<1>a7. CASE AddStore(a)
  <2>1. \A p \in Procs : startedFor'[p] = startedFor[p]
    BY <1>3, <1>4, <1>a7, NoneIsNoProc DEF AddStore
  <2>2. /\ pc[a] = "addStore" /\ Answer(a) /\ made' = [made EXCEPT ![a] = None]
        /\ units' = units \cup {i} /\ transcoders' = [transcoders EXCEPT ![i] = made[a]]
        /\ UNCHANGED <<pmVars, todo, procVars>>
    BY <1>a7 DEF AddStore, EditUnits
  <2>3. Alone
    BY <1>7, <2>2
  <2>4. wanted' = IF a = Watchdog THEN wanted ELSE wanted \cup {i}
    BY <1>3, <1>5, <2>2
  <2> USE DEF instVars, stopVars, pmVars, reloadVars, procVars
  <2>5. Stopped(i)'
    BY <1>2, <1>8, NoneIsNoProc, <2>1, <2>2, <2>3, <2>4 DEF Tidy, Stopped
  <2>6. Owned(i)'
    BY <1>1, <1>2, <1>8, NoneIsNoProc, <2>1, <2>2, <2>3, <2>4 DEF Tidy, Owned, Stopped, OperationInv
  <2>7. Prepared(i)'
    BY <1>2, <1>8, <2>1, <2>2, <2>3, <2>4 DEF Tidy, Prepared, Created
  <2>8. Served(i)'
    BY <1>2, <1>8, <2>1, <2>2, <2>3, <2>4 DEF Tidy, Served, Created, Prepared
  <2>9. AskedFor(i)' /\ Kept(i)'
    BY <1>2, <1>5, <1>8, <2>1, <2>2, <2>3, <2>4 DEF Tidy, AskedFor, Kept, Adding
  <2> QED
    BY <2>5, <2>6, <2>7, <2>8, <2>9 DEF Tidy
<1>r1. CASE RemoveCheck(a)
  <2>1. wanted' = wanted /\ \A p \in Procs : startedFor'[p] = startedFor[p]
    BY <1>3, <1>4, <1>r1, NoneIsNoProc DEF RemoveCheck
  <2>2. /\ pc[a] = "remCheck" /\ UNCHANGED <<instVars, pmVars, made, todo, procVars>>
        /\ \/ i \notin units /\ AfterRemove(a)
           \/ i \in units /\ Goto(a, "remStop") /\ arg' = arg
    BY <1>r1 DEF RemoveCheck
  <2> USE DEF instVars, stopVars, pmVars, reloadVars, procVars
  <2>3. Stopped(i)'
    BY <1>2, <1>8, NoneIsNoProc, <2>1, <2>2 DEF Tidy, Stopped
  <2>4. Owned(i)'
    BY <1>1, <1>2, <1>8, NoneIsNoProc, <2>1, <2>2 DEF Tidy, Owned, Stopped, OperationInv
  <2>5. Prepared(i)'
    BY <1>2, <1>8, <2>1, <2>2 DEF Tidy, Prepared, Created
  <2>6. Served(i)'
    BY <1>2, <1>8, <2>1, <2>2 DEF Tidy, Served, Created, Prepared
  <2>7. AskedFor(i)' /\ Kept(i)'
    BY <1>2, <1>5, <1>8, <2>1, <2>2 DEF Tidy, AskedFor, Kept, Adding
  <2> QED
    BY <2>3, <2>4, <2>5, <2>6, <2>7 DEF Tidy
<1>r2. CASE RemoveStop(a)
  <2>1. wanted' = wanted /\ \A p \in Procs : startedFor'[p] = startedFor[p]
    BY <1>3, <1>4, <1>r2, NoneIsNoProc DEF RemoveStop
  <2>2. /\ pc[a] = "remStop" /\ Goto(a, "remPath")
        /\ \A p \in Procs : /\ transcoders[i] = p => ~running'[p]
                            /\ running'[p] => running[p]
        /\ UNCHANGED <<instVars, pmVars, arg, made, todo, status, alive, runDue>>
    BY <1>r2, NoneIsNoProc DEF RemoveStop, StopTranscoder
  <2> USE DEF instVars, stopVars, pmVars, reloadVars, procVars
  <2>3. Stopped(i)'
    BY <1>2, <1>8, NoneIsNoProc, <2>1, <2>2 DEF Tidy, Stopped
  <2>4. Owned(i)'
    BY <1>1, <1>2, <1>8, NoneIsNoProc, <2>1, <2>2 DEF Tidy, Owned, Stopped, OperationInv
  <2>5. Prepared(i)'
    BY <1>2, <1>8, <2>1, <2>2 DEF Tidy, Prepared, Created
  <2>6. Served(i)'
    BY <1>2, <1>8, <2>1, <2>2 DEF Tidy, Served, Created, Prepared
  <2>7. AskedFor(i)' /\ Kept(i)'
    BY <1>2, <1>5, <1>8, <2>1, <2>2 DEF Tidy, AskedFor, Kept, Adding
  <2> QED
    BY <2>3, <2>4, <2>5, <2>6, <2>7 DEF Tidy
<1>r3. CASE RemovePathConf(a)
  <2>1. wanted' = wanted /\ \A p \in Procs : startedFor'[p] = startedFor[p]
    BY <1>3, <1>4, <1>r3, NoneIsNoProc DEF RemovePathConf
  <2>2. /\ pc[a] = "remPath" /\ (Goto(a, "remReload") \/ Goto(a, "remDelete"))
        /\ pathConfs' = pathConfs \ {i}
        /\ UNCHANGED <<instVars, paths, reload, rtsp, arg, made, todo, procVars>>
    BY <1>r3 DEF RemovePathConf
  <2>3. Alone
    BY <1>7, <2>2
  <2> USE DEF instVars, stopVars, pmVars, reloadVars, procVars
  <2>4. Stopped(i)'
    BY <1>2, <1>8, NoneIsNoProc, <2>1, <2>2, <2>3 DEF Tidy, Stopped
  <2>5. Owned(i)'
    BY <1>1, <1>2, <1>8, NoneIsNoProc, <2>1, <2>2, <2>3 DEF Tidy, Owned, Stopped, OperationInv
  <2>6. Prepared(i)'
    BY <1>2, <1>8, <2>1, <2>2, <2>3 DEF Tidy, Prepared, Created
  <2>7. Served(i)'
    BY <1>2, <1>8, <2>1, <2>2, <2>3 DEF Tidy, Served, Created, Prepared
  <2>8. AskedFor(i)' /\ Kept(i)'
    BY <1>2, <1>5, <1>8, <2>1, <2>2, <2>3 DEF Tidy, AskedFor, Kept, Adding
  <2> QED
    BY <2>4, <2>5, <2>6, <2>7, <2>8 DEF Tidy
<1>r4. CASE RemovePathReload(a)
  <2>1. wanted' = wanted /\ \A p \in Procs : startedFor'[p] = startedFor[p]
    BY <1>3, <1>4, <1>r4, NoneIsNoProc DEF RemovePathReload
  <2>2. /\ pc[a] = "remReload" /\ Goto(a, "remDelete") /\ reload' = "closing"
        /\ UNCHANGED <<instVars, pathConfs, paths, rtsp, arg, made, todo, procVars>>
    BY <1>1, <1>r4 DEF RemovePathReload, ReloadPathConfs, BeginReload
  <2> USE DEF instVars, stopVars, pmVars, reloadVars, procVars
  <2>3. Stopped(i)'
    BY <1>2, <1>8, NoneIsNoProc, <2>1, <2>2 DEF Tidy, Stopped
  <2>4. Owned(i)'
    BY <1>1, <1>2, <1>8, NoneIsNoProc, <2>1, <2>2 DEF Tidy, Owned, Stopped, OperationInv
  <2>5. Prepared(i)'
    BY <1>2, <1>8, <2>1, <2>2 DEF Tidy, Prepared, Created
  <2>6. Served(i)'
    BY <1>2, <1>8, <2>1, <2>2 DEF Tidy, Served, Created, Prepared
  <2>7. AskedFor(i)' /\ Kept(i)'
    BY <1>2, <1>5, <1>8, <2>1, <2>2 DEF Tidy, AskedFor, Kept, Adding
  <2> QED
    BY <2>3, <2>4, <2>5, <2>6, <2>7 DEF Tidy
<1>r5. CASE RemoveDelete(a)
  <2>1. \A p \in Procs : startedFor'[p] = startedFor[p]
    BY <1>3, <1>4, <1>r5, NoneIsNoProc DEF RemoveDelete
  <2>2. /\ pc[a] = "remDelete" /\ AfterRemove(a)
        /\ units' = units \ {i} /\ transcoders' = [transcoders EXCEPT ![i] = None]
        /\ UNCHANGED <<pmVars, made, todo, procVars>>
    BY <1>r5 DEF RemoveDelete, EditUnits
  <2>3. Alone
    BY <1>7, <2>2
  <2>4. wanted' = IF a = Watchdog THEN wanted ELSE wanted \ {i}
    BY <1>3, <1>5, <2>2
  <2> USE DEF instVars, stopVars, pmVars, reloadVars, procVars
  <2>5. Stopped(i)'
    BY <1>2, <1>8, NoneIsNoProc, <2>1, <2>2, <2>3, <2>4 DEF Tidy, Stopped
  <2>6. Owned(i)'
    BY <1>1, <1>2, <1>8, NoneIsNoProc, <2>1, <2>2, <2>3, <2>4 DEF Tidy, Owned, Stopped, OperationInv
  <2>7. Prepared(i)'
    BY <1>2, <1>8, <2>1, <2>2, <2>3, <2>4 DEF Tidy, Prepared, Created
  <2>8. Served(i)'
    BY <1>2, <1>8, <2>1, <2>2, <2>3, <2>4 DEF Tidy, Served, Created, Prepared
  <2>9. AskedFor(i)' /\ Kept(i)'
    BY <1>2, <1>5, <1>8, <2>1, <2>2, <2>3, <2>4 DEF Tidy, AskedFor, Kept, Adding
  <2> QED
    BY <2>5, <2>6, <2>7, <2>8, <2>9 DEF Tidy
<1> QED
  BY <1>a1, <1>a2, <1>a3, <1>a4, <1>a5, <1>a6, <1>a7, <1>r1, <1>r2, <1>r3, <1>r4, <1>r5
  DEF OperationStep

\* Every other step while the instance is up.
LEMMA OtherSteps ==
  ASSUME Base, Objects, Promise, Note, ~ctxDone, ~ctxDone',
         \/ \E c \in Clients, j \in Ids : Create(c, j) \/ Stop(c, j)
         \/ WatchdogStep \/ ReloadStep \/ StopStep \/ (\E j \in Ids : StopGoroutine(j))
         \/ (\E p \in Procs : ProcStep(p))
         \/ HttpPanics \/ HttpFails \/ Cancel \/ RtspStep
  PROVE  Objects' /\ \A i \in Ids : Tidy(i) => Tidy(i)'
<1> DEFINE Same(b) == pc'[b] = pc[b] /\ arg'[b] = arg[b]
           Goal == Objects' /\ \A i \in Ids : Tidy(i) => Tidy(i)'
<1> SUFFICES Goal
  OBVIOUS
<1>1. stage = "up" /\ rtsp = "up" /\ \A j \in Ids : ~(stopping[j] > 0)
  BY DEF Base, RtspInv
<1>2. Watchdog \in Actors /\ \A c \in Clients : c \in Actors /\ c # Watchdog
  BY WatchdogIsNoClient DEF Actors
<1>3. ASSUME UNCHANGED <<units, transcoders, pathConfs, made>>,
             \A p \in Procs : running'[p] => running[p],
             \A i \in Ids : Created(i) => Created(i)',
             \A b \in Actors : \/ Same(b)
                               \/ made[b] = None /\ pc[b] \in {"idle", "scan"} /\ pc'[b] \in {"idle", "scan"}
                                  /\ arg'[b] = arg[b]
                               \/ made[b] = None /\ b # Watchdog /\ pc[b] = "idle" /\ pc'[b] \in {"addCheck", "remCheck"}
                               \/ made[b] = None /\ b = Watchdog /\ pc[b] = "scan" /\ pc'[b] = "remCheck" /\ arg'[b] \in units
      PROVE  Goal
  <2>1. wanted' = wanted /\ \A p \in Procs : startedFor'[p] = startedFor[p]
    BY <1>3, Unpromised
  <2>2. Objects'
    BY <1>3, <2>1, NoneIsNoProc DEF Objects
  <2>3. ASSUME NEW i \in Ids, Tidy(i) PROVE Tidy(i)'
    <3>1. Stopped(i)'
      BY <1>3, <2>3 DEF Tidy, Stopped
    <3>2. Owned(i)'
      BY <1>3, <2>1, <2>3, NoneIsNoProc DEF Tidy, Owned
    <3>3. Prepared(i)'
      BY <1>3, <2>3 DEF Tidy, Prepared
    <3>4. Served(i)'
      BY <1>3, <2>3 DEF Tidy, Served
    <3>5. AskedFor(i)' /\ Kept(i)'
      BY <1>2, <1>3, <2>1, <2>3 DEF Tidy, AskedFor, Kept, Adding
    <3> QED
      BY <3>1, <3>2, <3>3, <3>4, <3>5 DEF Tidy
  <2> QED
    BY <2>2, <2>3
<1> USE DEF Base, TypeOK, OperationInv, instVars, stopVars, pmVars, reloadVars, actorVars, procVars
<1> HIDE DEF Goal
<1>4. \A b \in Actors : pc[b] \in {"idle", "scan"} => made[b] = None
  OBVIOUS
<1>5. ASSUME NEW c \in Clients, NEW j \in Ids, Create(c, j) \/ Stop(c, j)
      PROVE  Goal
  BY <1>2, <1>3, <1>4, <1>5 DEF Create, Stop, Goto, Created
<1>6. CASE Tick
  BY <1>2, <1>3, <1>4, <1>6 DEF Tick, Goto, Created
<1>7. ASSUME NEW j \in Ids, Scan(j) PROVE Goal
  BY <1>2, <1>3, <1>4, <1>7 DEF Scan, Goto, Created
<1>8. CASE ScanDone
  BY <1>1, <1>2, <1>3, <1>4, <1>8 DEF ScanDone, Goto, Created
<1>9. ASSUME NEW j \in Ids, ReloadChecks(j) \/ ReloadCreates(j) PROVE Goal
  <2>1. \A i \in Ids : Created(i) => Created(i)'
    BY <1>9 DEF ReloadChecks, ReloadCreates, Created
  <2> QED
    BY <1>3, <1>9, <2>1 DEF ReloadChecks, ReloadCreates
<1>10. CASE ReloadOpens \/ ReloadEnds
  <2>1. \A i \in Ids : Created(i) => Created(i)'
    BY <1>10 DEF ReloadOpens, ReloadEnds, Created
  <2> QED
    BY <1>3, <1>10, <2>1 DEF ReloadOpens, ReloadEnds
<1>11. ASSUME NEW p \in Procs, ProcStep(p) PROVE Goal
  BY <1>3, <1>11 DEF ProcStep, RunBegins, FFmpegEnds, ContextStops, Created
<1>12. CASE HttpPanics \/ HttpFails
  BY <1>3, <1>12 DEF HttpPanics, HttpFails, Created
<1>13. ~(WatchdogExit \/ Cancel \/ RtspStep \/ StopStep \/ \E j \in Ids : StopGoroutine(j))
  <2>1. ~(WatchdogExit \/ Cancel \/ RtspStep)
    BY <1>1 DEF WatchdogExit, Cancel, RtspStep, RtspStopsItself, RtspCloses
  <2>2. ~StopStep
    BY <1>1 DEF StopStep, StopBegins, StopCounts, StopRanges, StopRanged, StopDrained, StopRtsp,
                StopEnds, StopSpawns
  <2>3. \A j \in Ids : ~StopGoroutine(j)
    BY <1>1 DEF StopGoroutine, StopsTranscoder, StopPanics
  <2> QED
    BY <2>1, <2>2, <2>3
<1> QED
  BY <1>5, <1>6, <1>7, <1>8, <1>9, <1>10, <1>11, <1>12, <1>13 DEF WatchdogStep, ReloadStep

\* Nothing has happened.
LEMMA ClientsInitially == ClientInit => ClientsInv
<1> SUFFICES ASSUME ClientInit PROVE ClientsInv
  OBVIOUS
<1>1. Base
  BY BaseInitially DEF ClientInit
<1>2. Objects
  BY NoneIsNoProc DEF ClientInit, Init, Objects
<1>3. Clashes
  BY DEF ClientInit, Init, Clashes, Clash, Engaged
<1>4. ASSUME NEW i \in Ids PROVE Tidy(i)
  <2>1. Stopped(i) /\ Owned(i) /\ Prepared(i) /\ Served(i)
    BY DEF ClientInit, Init, Stopped, Owned, Prepared, Served
  <2>2. AskedFor(i) /\ Kept(i)
    BY DEF ClientInit, Init, AskedFor, Kept, Actors, Adding
  <2> QED
    BY <2>1, <2>2 DEF Tidy
<1> QED
  BY <1>1, <1>2, <1>3, <1>4 DEF ClientsInv

\* Each step keeps it, of the units that no two actors work on.
LEMMA ClientsStep == ClientsInv /\ [ClientNext]_clientVars => ClientsInv'
<1> SUFFICES ASSUME ClientsInv, [ClientNext]_clientVars PROVE ClientsInv'
  OBVIOUS
<1>1. Base /\ Base'
  BY BaseStep DEF ClientsInv, ClientNext, clientVars
<1>2. CASE UNCHANGED clientVars
  <2>1. UNCHANGED vars /\ UNCHANGED <<wanted, startedFor, contested>>
    BY <1>2 DEF clientVars
  <2> QED
    BY <1>1, <2>1
    DEF vars, ClientsInv, Objects, Clashes, Clash, Engaged, Tidy, Stopped, Owned, Prepared, Served,
        Created, AskedFor, Kept
<1>3. CASE ClientNext
  <2>1. Next /\ Promise /\ Note /\ Contest
    BY <1>3 DEF ClientNext
  <2> SUFFICES ASSUME ~ctxDone'
               PROVE  Objects' /\ Clashes' /\ \A i \in Ids \ contested' : Tidy(i)'
    BY <1>1 DEF ClientsInv
  <2>2. ~ctxDone
    BY <2>1
    DEF Next, OperationStep, AddCheck, AddPathCheck, AddPathConf, AddPathReload, AddStopOld,
        AddStart, AddStore, RemoveCheck, RemoveStop, RemovePathConf, RemovePathReload, RemoveDelete,
        Create, Stop, WatchdogStep, Tick, Scan, ScanDone, WatchdogExit, ReloadStep, ReloadChecks,
        ReloadCreates, ReloadOpens, ReloadEnds, StopGoroutine, StopsTranscoder, StopPanics,
        ProcStep, RunBegins, FFmpegEnds, ContextStops, HttpPanics, HttpFails, Cancel, StopStep,
        StopBegins, StopCounts, StopRanges, StopRanged, StopDrained, StopRtsp, StopEnds, StopSpawns,
        RtspStep, RtspStopsItself, RtspCloses, instVars
  <2>3. Objects /\ Clashes /\ \A i \in Ids \ contested : Tidy(i)
    BY <2>2 DEF ClientsInv
  <2>4. Clashes'
    BY <2>1 DEF Contest, Clashes
  <2>5. ASSUME NEW i \in Ids \ contested' PROVE Tidy(i)'
    <3>1. i \notin contested \/ Clean(i)'
      BY <2>1, <2>5 DEF Contest
    <3>2. CASE Clean(i)'
      BY <1>1, <3>2, CleanIsTidy
    <3>3. CASE i \notin contested
      <4>1. Tidy(i) /\ ~Clash(i) /\ ~Clash(i)'
        BY <2>3, <2>4, <2>5, <3>3 DEF Clashes
      <4>2. ASSUME NEW a \in Actors, OperationStep(a) PROVE Tidy(i)'
        <5>1. CASE arg[a] = i
          BY <1>1, <2>1, <2>2, <2>3, <4>1, <4>2, <5>1, OwnUnit
        <5>2. CASE arg[a] # i
          BY <1>1, <2>1, <2>2, <2>3, <4>1, <4>2, <5>2, OtherUnits
        <5> QED
          BY <5>1, <5>2
      <4> QED
        BY <1>1, <2>1, <2>2, <2>3, <4>1, <4>2, OtherSteps DEF Next
    <3> QED
      BY <3>1, <3>2, <3>3
  <2>6. Objects'
    BY <1>1, <2>1, <2>2, <2>3, ObjectsKept, OtherSteps DEF Next
  <2> QED
    BY <2>4, <2>5, <2>6
<1> QED
  BY <1>2, <1>3

\* However the operations of clients and watchdog overlap, they leave nothing behind of a unit
\* that two of them have not met on, but what that unit needs.
THEOREM ClientsInvariant == ClientSpec => []ClientsInv
BY ClientsInitially, ClientsStep, PTL DEF ClientSpec

\* Between operations, every such unit has its path configured and, once a reload is
\* through, created (AddUnit, RemoveUnit and the path manager they edit the configuration of).
THEOREM UnitsConfigured == ClientSpec => []UnitConfigured
<1>1. ClientsInv => UnitConfigured
  <2> SUFFICES ASSUME ClientsInv, Quiet, NEW i \in units \ contested
               PROVE  i \in pathConfs /\ (reload = "no" => i \in paths)
    BY DEF UnitConfigured
  <2>1. i \in Ids /\ Served(i)
    BY DEF ClientsInv, Quiet, Base, TypeOK, Tidy
  <2>2. Created(i)
    BY <2>1 DEF Served, Quiet
  <2> QED
    BY <2>2 DEF Created
<1> QED
  BY <1>1, ClientsInvariant, PTL

\* Every transcoder that runs is the one of its unit, so that a client can stop it (AddUnit
\* overwrites and RemoveUnit forgets only transcoders they have stopped).
THEOREM NoOrphans == ClientSpec => []NoOrphanTranscoder
<1>1. ClientsInv => NoOrphanTranscoder
  <2> SUFFICES ASSUME ClientsInv, Quiet, NEW p \in Procs, running[p], startedFor[p] \notin contested
               PROVE  startedFor[p] \in units /\ transcoders[startedFor[p]] = p
    BY DEF NoOrphanTranscoder
  <2>1. startedFor[p] \in Ids /\ Tidy(startedFor[p])
    BY DEF ClientsInv, Quiet, Objects
  <2>2. \A a \in Actors : made[a] = None
    BY DEF ClientsInv, Quiet, Base, OperationInv
  <2>3. transcoders[startedFor[p]] = p
    BY <2>1, <2>2, NoneIsNoProc DEF Tidy, Owned
  <2> QED
    BY <2>1, <2>3, NoneIsNoProc DEF ClientsInv, Base, EntryInv
<1> QED
  BY <1>1, ClientsInvariant, PTL

\* GET /status answers, and shows a unit that was not asked for only where two actors have
\* met on it (RemoveUnit against the watchdog's RestartUnit).
THEOREM GhostsNeedOverlap == ClientSpec => []GhostsOnlyByOverlap
<1>1. ClientsInv => GhostsOnlyByOverlap
  <2> SUFFICES ASSUME ClientsInv, Quiet
               PROVE  OnStatusAll # None /\ DOMAIN OnStatusAll \subseteq wanted \cup contested
    BY DEF GhostsOnlyByOverlap
  <2>1. units \subseteq Ids /\ \A i \in units : transcoders[i] # None
    BY DEF ClientsInv, Base, TypeOK, EntryInv
  <2>2. OnStatusAll = [i \in units |-> OnStatus(i)]
    BY <2>1 DEF OnStatusAll
  <2>3. OnStatusAll \in [units -> {"ok", "down"}]
    BY <2>1, <2>2 DEF ClientsInv, Base, TypeOK, OnStatus
  <2>4. units \subseteq wanted \cup contested
    BY <2>1 DEF ClientsInv, Quiet, Tidy, AskedFor
  <2> QED
    BY <2>1, <2>2, <2>3, <2>4, NoneIsNoAnswer
<1> QED
  BY <1>1, ClientsInvariant, PTL

\* No unit is lost that the API was asked for, unless two actors have met on it or the log
\* says that ffmpeg did not start again (instance.go RestartUnit).
THEOREM NoLosses == ClientSpec => []NoLostUnit
<1>1. ClientsInv => NoLostUnit
  <2> SUFFICES ASSUME ClientsInv, Quiet, NEW i \in wanted \ contested PROVE OnStatus(i) # None
    BY DEF NoLostUnit
  <2>1. i \in Ids /\ Kept(i)
    BY DEF ClientsInv, Quiet, Objects, Tidy
  <2>2. i \in units
    BY <2>1 DEF Kept, Quiet, Actors, Adding
  <2>3. transcoders[i] \in Procs
    BY <2>1, <2>2 DEF ClientsInv, Base, TypeOK, EntryInv
  <2>4. OnStatus(i) \in {"ok", "down"}
    BY <2>2, <2>3, NoneIsNoProc DEF ClientsInv, Base, TypeOK, OnStatus
  <2> QED
    BY <2>4, NoneIsNoAnswer
<1> QED
  BY <1>1, ClientsInvariant, PTL
=============================================================================
