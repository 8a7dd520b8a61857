--------------------------- MODULE PathManagerProofs ---------------------------
(***************************************************************************)
(* The safety of the path manager for any number of names, callers,        *)
(* handlers and path objects.                                              *)
(***************************************************************************)
EXTENDS PathManager, FiniteSetTheorems, TLAPS

\* The types of everything but the counter.
Typed ==
  /\ mgr \in {"select", "request", "check", "await", "create", "down"}
  /\ todo \subseteq Names
  /\ late \subseteq Names
  /\ picked \in Names \cup {None}
  /\ awaited \in Paths \cup {None}
  /\ ctxDone \in BOOLEAN
  /\ paths \in [Names -> Paths \cup {None}]
  /\ pathConfs \subseteq Names
  /\ pname \in [Paths -> Names \cup {None}]
  /\ at \in [Paths -> {"unused", "select", "notify", "ending", "done"}]
  /\ cancelled \in [Paths -> BOOLEAN]
  /\ serving \in [Paths -> Callers \cup {None}]
  /\ call \in [Callers -> {"idle", "manager", "found", "path", "reply", "holding"}]
  /\ asked \in [Callers -> Names \cup {None}]
  /\ target \in [Callers -> Paths \cup {None}]
  /\ reload \subseteq Handlers
  /\ closer \in {"idle", "cancelling", "waiting", "returned"}

\* The paths whose goroutine has not ended.
Live == {p \in Paths : at[p] \notin {"unused", "done"}}

\* The wait group counts the manager's goroutine and those of the paths.
CountInv == wg = (IF mgr = "down" THEN 0 ELSE 1) + Cardinality(Live)

\* Whoever runs is registered under its name, but for the path that a reload has
\* removed and waits for, whose name has no other path meanwhile.
NamesInv ==
  /\ \A p \in Paths : at[p] = "unused" <=> pname[p] = None
  /\ \A n \in Names : paths[n] # None => pname[paths[n]] = n
  /\ \A p \in Live : paths[pname[p]] = p \/ (mgr = "await" /\ awaited = p)
  /\ mgr = "await" <=> awaited # None
  /\ mgr = "await" => pname[awaited] \in Names /\ paths[pname[awaited]] = None

\* What the manager has in hand is of one request or of one reload; a range has yet to
\* produce what is configured, each name once.
LoopInv ==
  /\ picked # None => mgr \in {"check", "create"}
  /\ late # {} => mgr \in {"check", "await", "create"}
  /\ todo \cup late \subseteq pathConfs
  /\ todo \cap late = {}
  /\ picked \notin todo
  /\ \A c \in Callers : call[c] = "found" => mgr = "request" /\ asked[c] \in Names
  /\ \A c, d \in Callers : call[c] = "found" /\ call[d] = "found" => c = d

IInv == Typed /\ CountInv /\ NamesInv /\ LoopInv /\ MissingIsComing /\ CloseIsFinal

\* A set of paths is finite and no larger than all of them.
LEMMA PathSets ==
  \A S \in SUBSET Paths : /\ IsFiniteSet(S) /\ Cardinality(S) \in Nat
                          /\ Cardinality(S) <= Cardinality(Paths)
<1> SUFFICES ASSUME NEW S \in SUBSET Paths
             PROVE  /\ IsFiniteSet(S) /\ Cardinality(S) \in Nat
                    /\ Cardinality(S) <= Cardinality(Paths)
  OBVIOUS
<1>1. IsFiniteSet(S) /\ Cardinality(S) <= Cardinality(Paths)
  BY PathsAreFinite, FS_Subset
<1> QED
  BY <1>1, FS_CardinalityType

\* What the next createPath makes is an unused object.
LEMMA UnusedIsFree ==
  ASSUME NEW p \in Unused PROVE p \in Paths /\ at[p] = "unused"
BY DEF Unused

\* The manager starts with no path.
LEMMA Initially == Init => IInv
<1> SUFFICES ASSUME Init PROVE IInv
  OBVIOUS
<1>1. Live = {}
  BY DEF Init, Live
<1>2. CountInv
  BY <1>1, FS_EmptySet DEF Init, CountInv
<1>3. Typed /\ MissingIsComing /\ CloseIsFinal
  BY NoneIsNobody DEF Init, Typed, MissingIsComing, CloseIsFinal
<1>4. NamesInv /\ LoopInv
  BY <1>1, NoneIsNobody DEF Init, NamesInv, LoopInv
<1> QED
  BY <1>2, <1>3, <1>4 DEF IInv

\* Creating a path for a name that has none keeps the count and the names, when no
\* path is waited for.
LEMMA Creation ==
  ASSUME IInv, mgr # "down", mgr # "await", mgr' # "down", mgr' # "await",
         NEW n \in Names, paths[n] = None, NEW p \in Unused, createPath(n, p),
         UNCHANGED awaited
  PROVE  /\ CountInv' /\ NamesInv'
         /\ paths' = [paths EXCEPT ![n] = p] /\ p \in Paths
         /\ paths' \in [Names -> Paths \cup {None}]
         /\ pname' \in [Paths -> Names \cup {None}]
         /\ at' \in [Paths -> {"unused", "select", "notify", "ending", "done"}]
         /\ cancelled' \in [Paths -> BOOLEAN]
<1> USE NoneIsNobody
<1>1. p \in Paths /\ at[p] = "unused"
  BY UnusedIsFree
<1>2. Live' = Live \cup {p} /\ p \notin Live
  BY <1>1 DEF createPath, Live, IInv, Typed
<1>3. Cardinality(Live') = Cardinality(Live) + 1 /\ Cardinality(Live) \in Nat
  <2>1. Live \in SUBSET Paths
    BY DEF Live
  <2> QED
    BY <1>2, <2>1, PathSets, FS_AddElement
<1>4. CountInv'
  BY <1>3 DEF CountInv, IInv, createPath
<1>5. NamesInv'
  <2>1. /\ paths' = [paths EXCEPT ![n] = p]
        /\ pname' = [pname EXCEPT ![p] = n]
        /\ at' = [at EXCEPT ![p] = "select"]
    BY DEF createPath
  <2>2. \A q \in Paths : at'[q] = "unused" <=> pname'[q] = None
    BY <1>1, <2>1 DEF NamesInv, IInv, Typed
  <2>3. \A m \in Names : paths'[m] # None => pname'[paths'[m]] = m
    BY <1>1, <2>1 DEF NamesInv, IInv, Typed
  <2>4. ASSUME NEW q \in Live' PROVE paths'[pname'[q]] = q
    <3>1. CASE q = p
      BY <1>1, <2>1, <3>1 DEF IInv, Typed
    <3>2. CASE q # p
      <4>1. q \in Live /\ paths[pname[q]] = q
        BY <1>2, <2>4, <3>2 DEF NamesInv, IInv
      <4>2. q \in Paths /\ pname[q] \in Names /\ pname[q] # n
        BY <4>1 DEF NamesInv, IInv, Typed, Live
      <4> QED
        BY <2>1, <3>2, <4>1, <4>2 DEF IInv, Typed
    <3> QED
      BY <3>1, <3>2
  <2> QED
    BY <2>2, <2>3, <2>4 DEF NamesInv, IInv
<1> QED
  BY <1>1, <1>4, <1>5 DEF createPath, IInv, Typed

\* A step that starts and ends no goroutine keeps the count.
LEMMA CountKept ==
  ASSUME IInv, UNCHANGED wg, (mgr' = "down") = (mgr = "down"), Live' = Live
  PROVE  CountInv'
BY DEF CountInv, IInv

\* A step that leaves the paths alone, and waits for none, keeps the count and the names.
LEMMA NamesKept ==
  ASSUME IInv, UNCHANGED <<wg, awaited, paths, pname, at>>,
         (mgr' = "down") = (mgr = "down"), (mgr' = "await") = (mgr = "await")
  PROVE  CountInv' /\ NamesInv'
<1>1. Live' = Live
  BY DEF Live
<1> QED
  BY <1>1, CountKept DEF IInv, NamesInv

\* A request keeps the invariant.
LEMMA RequestSteps ==
  ASSUME IInv, NEW c \in Callers, TakeRequest(c) \/ AnswerRequest(c) PROVE IInv'
<1> USE NoneIsNobody DEF IInv, Typed
<1>1. CASE TakeRequest(c)
  <2>1. /\ mgr = "select" /\ call[c] = "manager"
        /\ UNCHANGED <<loopVars, ctxDone, wg, paths, pathConfs, pathVars, target, reload, closer>>
    BY <1>1 DEF TakeRequest
  <2>2. \/ /\ asked[c] \in Names /\ mgr' = "request"
           /\ call' = [call EXCEPT ![c] = "found"] /\ UNCHANGED asked
        \/ /\ UNCHANGED mgr
           /\ call' = [call EXCEPT ![c] = "idle"] /\ asked' = [asked EXCEPT ![c] = None]
    BY <1>1 DEF TakeRequest, A!Admitted, A!FindPathConf
  <2>3. Typed'
    BY <2>1, <2>2 DEF loopVars, pathVars
  <2>4. (CountInv /\ NamesInv)'
    BY <2>1, <2>2, NamesKept DEF loopVars, pathVars
  <2>5. LoopInv'
    BY <2>1, <2>2 DEF LoopInv, loopVars
  <2>6. (MissingIsComing /\ CloseIsFinal)'
    BY <2>1, <2>2 DEF MissingIsComing, CloseIsFinal, loopVars, pathVars
  <2> QED
    BY <2>3, <2>4, <2>5, <2>6
<1>2. CASE AnswerRequest(c)
  <2>1. PICK n \in Names : n = asked[c]
    BY <1>2 DEF AnswerRequest, LoopInv
  <2>2. /\ mgr = "request" /\ call[c] = "found" /\ mgr' = "select"
        /\ call' = [call EXCEPT ![c] = "path"] /\ asked' = [asked EXCEPT ![c] = None]
        /\ UNCHANGED <<loopVars, ctxDone, pathConfs, serving, reload, closer>>
    BY <1>2 DEF AnswerRequest
  <2>3. LoopInv'
    BY <2>2 DEF LoopInv, loopVars
  <2>4. CloseIsFinal'
    BY <2>2 DEF CloseIsFinal
  <2>5. CASE /\ paths[n] # None
             /\ target' = [target EXCEPT ![c] = paths[n]]
             /\ UNCHANGED <<paths, wg, pname, at, cancelled>>
    <3>1. Typed'
      BY <2>2, <2>5 DEF loopVars
    <3>2. (CountInv /\ NamesInv)'
      BY <2>2, <2>5, NamesKept DEF loopVars
    <3>3. MissingIsComing'
      BY <2>2, <2>5 DEF MissingIsComing, loopVars
    <3> QED
      BY <2>3, <2>4, <3>1, <3>2, <3>3
  <2>6. ASSUME paths[n] = None, NEW p \in Unused, createPath(n, p),
               target' = [target EXCEPT ![c] = p]
        PROVE  IInv'
    <3>1. /\ CountInv' /\ NamesInv'
          /\ paths' = [paths EXCEPT ![n] = p] /\ p \in Paths
          /\ paths' \in [Names -> Paths \cup {None}]
          /\ pname' \in [Paths -> Names \cup {None}]
          /\ at' \in [Paths -> {"unused", "select", "notify", "ending", "done"}]
          /\ cancelled' \in [Paths -> BOOLEAN]
      BY <2>2, <2>6, Creation DEF loopVars
    <3>2. Typed'
      BY <2>2, <2>6, <3>1 DEF loopVars
    <3>3. MissingIsComing'
      BY <2>2, <3>1 DEF MissingIsComing, loopVars
    <3> QED
      BY <2>3, <2>4, <3>1, <3>2, <3>3
  <2> QED
    BY <1>2, <2>1, <2>5, <2>6 DEF AnswerRequest
<1> QED
  BY <1>1, <1>2

\* A reload keeps the invariant: the steps that leave the paths alone.
LEMMA RangeSteps ==
  ASSUME IInv,
         \/ \E h \in Handlers : TakeReload(h)
         \/ \E n \in Names : PickConf(n)
         \/ KeepPath \/ CheckEnds \/ ReloadEnds
  PROVE  IInv'
<1> USE NoneIsNobody DEF IInv, Typed
<1>1. /\ UNCHANGED <<awaited, ctxDone, wg, paths, pathConfs, pathVars, callVars, closer>>
      /\ mgr \in {"select", "check", "create"} /\ mgr' \in {"select", "check", "create"}
  BY DEF TakeReload, PickConf, KeepPath, CheckEnds, ReloadEnds
<1>2. (CountInv /\ NamesInv)'
  BY <1>1, NamesKept DEF pathVars
<1>3. CloseIsFinal'
  BY <1>1 DEF CloseIsFinal, pathVars
<1>4. /\ todo' \subseteq Names /\ late' \subseteq Names
      /\ picked' \in Names \cup {None} /\ reload' \subseteq Handlers
  BY DEF TakeReload, PickConf, KeepPath, CheckEnds, ReloadEnds
<1>5. Typed'
  BY <1>1, <1>4 DEF pathVars, callVars
<1>6. ASSUME NEW h \in Handlers, TakeReload(h) PROVE (LoopInv /\ MissingIsComing)'
  BY <1>1, <1>6 DEF TakeReload, LoopInv, MissingIsComing, callVars
<1>7. ASSUME NEW n \in Names, PickConf(n) PROVE (LoopInv /\ MissingIsComing)'
  BY <1>1, <1>7 DEF PickConf, LoopInv, MissingIsComing, callVars
<1>8. ASSUME KeepPath PROVE (LoopInv /\ MissingIsComing)'
  BY <1>1, <1>8 DEF KeepPath, LoopInv, MissingIsComing, callVars
<1>9. ASSUME CheckEnds PROVE (LoopInv /\ MissingIsComing)'
  BY <1>1, <1>9 DEF CheckEnds, LoopInv, MissingIsComing, callVars
<1>10. ASSUME ReloadEnds PROVE (LoopInv /\ MissingIsComing)'
  BY <1>1, <1>10 DEF ReloadEnds, LoopInv, MissingIsComing, callVars
<1> QED
  BY <1>2, <1>3, <1>5, <1>6, <1>7, <1>8, <1>9, <1>10

\* ... and those that remove a path, wait for it, and create one.
LEMMA ReloadSteps ==
  ASSUME IInv, DropPath \/ PathAwaited \/ ReloadCreates PROVE IInv'
<1> USE NoneIsNobody DEF IInv, Typed
<1>1. CASE DropPath
  <2>1. PICK n \in Names : n = picked
    BY <1>1 DEF DropPath
  <2>2. PICK p \in Paths : p = paths[n]
    BY <1>1, <2>1 DEF DropPath, Deleted
  <2>3. /\ mgr = "check" /\ mgr' = "await" /\ awaited' = p /\ picked' = None
        /\ paths' = [paths EXCEPT ![n] = None]
        /\ cancelled' = [cancelled EXCEPT ![p] = TRUE]
        /\ UNCHANGED <<todo, late, ctxDone, wg, pathConfs, pname, at, serving, callVars,
                       reload, closer>>
    BY <1>1, <2>1, <2>2 DEF DropPath
  <2>4. Live' = Live
    BY <2>3 DEF Live
  <2>5. CountInv'
    BY <2>3, <2>4, CountKept
  <2>6. Typed'
    BY <2>3 DEF callVars
  <2>7. NamesInv'
    <3>1. pname[p] = n
      BY <2>2 DEF NamesInv
    <3>2. \A q \in Live : q # p => pname[q] \in Names /\ paths[pname[q]] = q /\ pname[q] # n
      BY <2>2, <2>3 DEF NamesInv, Live
    <3>3. \A q \in Live' : paths'[pname'[q]] = q \/ (mgr' = "await" /\ awaited' = q)
      BY <2>3, <2>4, <3>2
    <3>4. \A m \in Names : paths'[m] # None => pname'[paths'[m]] = m
      BY <2>3 DEF NamesInv
    <3>5. pname'[awaited'] \in Names /\ paths'[pname'[awaited']] = None
      BY <2>3, <3>1
    <3> QED
      BY <2>3, <3>3, <3>4, <3>5 DEF NamesInv
  <2>8. LoopInv'
    BY <2>3 DEF LoopInv, callVars
  <2>9. (MissingIsComing /\ CloseIsFinal)'
    BY <2>3 DEF MissingIsComing, CloseIsFinal
  <2> QED
    BY <2>5, <2>6, <2>7, <2>8, <2>9
<1>2. CASE PathAwaited
  <2>1. /\ mgr = "await" /\ mgr' = "check" /\ at[awaited] = "done" /\ awaited' = None
        /\ UNCHANGED <<todo, late, picked, ctxDone, wg, paths, pathConfs, pathVars, callVars,
                       reload, closer>>
    BY <1>2 DEF PathAwaited
  <2>2. Live' = Live /\ awaited \notin Live
    BY <2>1 DEF Live, pathVars
  <2>3. CountInv'
    BY <2>1, <2>2, CountKept
  <2>4. Typed'
    BY <2>1 DEF pathVars, callVars
  <2>5. NamesInv'
    BY <2>1, <2>2 DEF NamesInv, pathVars
  <2>6. LoopInv'
    BY <2>1 DEF LoopInv, callVars
  <2>7. (MissingIsComing /\ CloseIsFinal)'
    BY <2>1 DEF MissingIsComing, CloseIsFinal, pathVars
  <2> QED
    BY <2>3, <2>4, <2>5, <2>6, <2>7
<1>3. CASE ReloadCreates
  <2>1. PICK n \in Names : n = picked
    BY <1>3 DEF ReloadCreates
  <2>2. /\ mgr = "create" /\ mgr' = "create" /\ picked' = None
        /\ UNCHANGED <<todo, late, awaited, ctxDone, pathConfs, serving, callVars, reload, closer>>
    BY <1>3 DEF ReloadCreates
  <2>3. LoopInv'
    BY <2>2 DEF LoopInv, callVars
  <2>4. CloseIsFinal'
    BY <2>2 DEF CloseIsFinal
  <2>5. CASE paths[n] # None /\ UNCHANGED <<paths, wg, pname, at, cancelled>>
    <3>1. Typed'
      BY <2>2, <2>5 DEF callVars
    <3>2. (CountInv /\ NamesInv)'
      BY <2>2, <2>5, NamesKept
    <3>3. MissingIsComing'
      BY <2>1, <2>2, <2>5 DEF MissingIsComing
    <3> QED
      BY <2>3, <2>4, <3>1, <3>2, <3>3
  <2>6. ASSUME paths[n] = None, NEW p \in Unused, createPath(n, p) PROVE IInv'
    <3>1. /\ CountInv' /\ NamesInv'
          /\ paths' = [paths EXCEPT ![n] = p] /\ p \in Paths
          /\ paths' \in [Names -> Paths \cup {None}]
          /\ pname' \in [Paths -> Names \cup {None}]
          /\ at' \in [Paths -> {"unused", "select", "notify", "ending", "done"}]
          /\ cancelled' \in [Paths -> BOOLEAN]
      BY <2>2, <2>6, Creation
    <3>2. Typed'
      BY <2>2, <3>1 DEF callVars
    <3>3. MissingIsComing'
      BY <2>1, <2>2, <3>1 DEF MissingIsComing
    <3> QED
      BY <2>3, <2>4, <3>1, <3>2, <3>3
  <2> QED
    BY <1>3, <2>1, <2>5, <2>6 DEF ReloadCreates
<1> QED
  BY <1>1, <1>2, <1>3

\* Every step of the manager keeps the invariant.
LEMMA ManagerSteps == ASSUME IInv, ManagerStep PROVE IInv'
<1> USE NoneIsNobody DEF IInv, Typed
<1>1. ASSUME NEW p \in Paths, TakeNotify(p) PROVE IInv'
  <2>1. Live' = Live
    BY <1>1 DEF TakeNotify, Live
  <2>2. CountInv'
    BY <1>1, <2>1, CountKept DEF TakeNotify, mgrVars
  <2>3. Typed'
    BY <1>1 DEF TakeNotify, mgrVars
  <2>4. NamesInv'
    BY <1>1, <2>1 DEF TakeNotify, NamesInv, mgrVars
  <2>5. LoopInv'
    BY <1>1 DEF TakeNotify, LoopInv, mgrVars
  <2>6. (MissingIsComing /\ CloseIsFinal)'
    BY <1>1 DEF TakeNotify, MissingIsComing, CloseIsFinal, mgrVars
  <2> QED
    BY <2>2, <2>3, <2>4, <2>5, <2>6
<1>2. CASE ManagerExits
  <2>1. Live' = Live
    BY <1>2 DEF ManagerExits, Live, pathVars
  <2>2. CountInv'
    <3>1. Live \in SUBSET Paths
      BY DEF Live
    <3>2. Cardinality(Live) \in Nat
      BY <3>1, PathSets
    <3> QED
      BY <1>2, <2>1, <3>2 DEF ManagerExits, CountInv
  <2>3. Typed'
    BY <1>2 DEF ManagerExits, loopVars, pathVars, callVars
  <2>4. NamesInv'
    BY <1>2, <2>1 DEF ManagerExits, NamesInv, loopVars, pathVars
  <2>5. LoopInv'
    BY <1>2 DEF ManagerExits, LoopInv, loopVars, callVars
  <2>6. (MissingIsComing /\ CloseIsFinal)'
    BY <1>2 DEF ManagerExits, MissingIsComing, CloseIsFinal, loopVars, pathVars
  <2> QED
    BY <2>2, <2>3, <2>4, <2>5, <2>6
<1> QED
  BY <1>1, <1>2, RequestSteps, RangeSteps, ReloadSteps DEF ManagerStep, ReloadStep

\* Every step of a caller keeps the invariant.
LEMMA CallerSteps == ASSUME IInv, NEW c \in Callers, CallerStep(c) PROVE IInv'
<1> USE NoneIsNobody DEF IInv, Typed
<1>1. UNCHANGED <<mgrVars, pname, cancelled, reload, closer>>
  BY DEF CallerStep, Ask, RequestTerminated, CallPath, Release, PathTakes, PathCallTerminated,
         pathVars
<1>2. /\ at' \in [Paths -> {"unused", "select", "notify", "ending", "done"}]
      /\ \A p \in Paths : at'[p] # at[p] => at[p] = "select" /\ at'[p] = "notify"
  BY DEF CallerStep, Ask, RequestTerminated, CallPath, Release, PathTakes, PathCallTerminated,
         pathVars
<1>3. /\ serving' \in [Paths -> Callers \cup {None}]
      /\ target' \in [Callers -> Paths \cup {None}]
      /\ asked' \in [Callers -> Names \cup {None}]
      /\ call' \in [Callers -> {"idle", "manager", "found", "path", "reply", "holding"}]
  BY DEF CallerStep, Ask, RequestTerminated, CallPath, Release, PathTakes, PathCallTerminated,
         pathVars
<1>4. \A d \in Callers : call'[d] = "found" => call[d] = "found" /\ asked'[d] = asked[d]
  BY DEF CallerStep, Ask, RequestTerminated, CallPath, Release, PathTakes, PathCallTerminated
<1>5. Typed'
  BY <1>1, <1>2, <1>3 DEF mgrVars
<1>6. Live' = Live
  BY <1>2 DEF Live
<1>7. CountInv'
  BY <1>1, <1>6, CountKept DEF mgrVars
<1>8. NamesInv'
  BY <1>1, <1>2, <1>6 DEF NamesInv, mgrVars
<1>9. LoopInv'
  BY <1>1, <1>4 DEF LoopInv, mgrVars
<1>10. (MissingIsComing /\ CloseIsFinal)'
  BY <1>1, <1>2 DEF MissingIsComing, CloseIsFinal, mgrVars
<1> QED
  BY <1>5, <1>7, <1>8, <1>9, <1>10

\* Every step of a path keeps the invariant.
LEMMA PathSteps == ASSUME IInv, NEW p \in Paths, PathStep(p) PROVE IInv'
<1> USE NoneIsNobody DEF IInv, Typed
<1>1. /\ UNCHANGED <<mgr, loopVars, ctxDone, paths, pathConfs, pname, cancelled, asked, target,
                     reload, closer>>
      /\ \A d \in Callers : call'[d] = "found" => call[d] = "found"
  BY DEF PathStep, NotifyGivesUp, PathEnds, PathDone, mgrVars, loopVars, callVars
<1>2. Typed'
  BY <1>1 DEF PathStep, NotifyGivesUp, PathEnds, PathDone, loopVars, callVars
<1>3. LoopInv'
  BY <1>1 DEF LoopInv, loopVars
<1>4. (MissingIsComing /\ CloseIsFinal)'
  BY <1>1 DEF PathStep, NotifyGivesUp, PathEnds, PathDone, MissingIsComing, CloseIsFinal, loopVars
<1>5. (CountInv /\ NamesInv)'
  <2>1. CASE NotifyGivesUp(p) \/ PathEnds(p)
    <3>1. Live' = Live /\ UNCHANGED wg
      BY <2>1 DEF NotifyGivesUp, PathEnds, Live, mgrVars
    <3>2. \A q \in Paths : at'[q] = "unused" <=> at[q] = "unused"
      BY <2>1 DEF NotifyGivesUp, PathEnds
    <3> QED
      BY <1>1, <3>1, <3>2, CountKept DEF NamesInv, loopVars
  <2>2. CASE PathDone(p)
    <3>1. Live' = Live \ {p} /\ p \in Live
      BY <2>2 DEF PathDone, Live
    <3>2. Live \in SUBSET Paths
      BY DEF Live
    <3>3. /\ Cardinality(Live) \in Nat /\ Cardinality(Live') \in Nat
          /\ Cardinality(Live') = Cardinality(Live) - 1
      BY <3>1, <3>2, PathSets, FS_RemoveElement
    <3>4. CountInv'
      BY <1>1, <2>2, <3>3 DEF PathDone, CountInv
    <3>5. \A q \in Paths : at'[q] = "unused" <=> at[q] = "unused"
      BY <2>2 DEF PathDone
    <3>6. NamesInv'
      BY <1>1, <3>1, <3>5 DEF NamesInv, loopVars
    <3> QED
      BY <3>4, <3>6
  <2> QED
    BY <2>1, <2>2 DEF PathStep
<1> QED
  BY <1>2, <1>3, <1>4, <1>5

\* Every step of a handler keeps the invariant.
LEMMA HandlerSteps == ASSUME IInv, NEW h \in Handlers, HandlerStep(h) PROVE IInv'
<1> USE NoneIsNobody DEF IInv, Typed
<1>1. UNCHANGED <<mgr, picked, awaited, ctxDone, wg, paths, pathVars, callVars, closer>>
  BY DEF HandlerStep, AddPath, RemovePath, ReloadTerminated, mgrVars
<1>2. Typed'
  BY <1>1 DEF HandlerStep, AddPath, RemovePath, ReloadTerminated, mgrVars, pathVars, callVars
<1>3. (CountInv /\ NamesInv)'
  BY <1>1, NamesKept DEF pathVars
<1>4. CloseIsFinal'
  BY <1>1 DEF CloseIsFinal, pathVars
<1>5. ASSUME NEW n \in Names, AddPath(h, n) PROVE (LoopInv /\ MissingIsComing)'
  BY <1>1, <1>5 DEF AddPath, LoopInv, MissingIsComing, callVars
<1>6. ASSUME NEW n \in Names, RemovePath(h, n) PROVE (LoopInv /\ MissingIsComing)'
  BY <1>1, <1>6 DEF RemovePath, LoopInv, MissingIsComing, callVars
<1>7. ASSUME ReloadTerminated(h) PROVE (LoopInv /\ MissingIsComing)'
  BY <1>7 DEF ReloadTerminated, LoopInv, MissingIsComing, mgrVars, callVars
<1> QED
  BY <1>2, <1>3, <1>4, <1>5, <1>6, <1>7 DEF HandlerStep

\* Every step of the close keeps the invariant.
LEMMA CloserSteps == ASSUME IInv, CloserStep PROVE IInv'
<1> USE NoneIsNobody DEF IInv, Typed
<1>1. UNCHANGED <<mgr, loopVars, wg, paths, pathConfs, pname, at, serving, callVars, reload>>
  BY DEF CloserStep, Close, CloseWaits, CloseReturns, CancelPath, mgrVars, loopVars, pathVars
<1>2. Typed'
  BY <1>1 DEF CloserStep, Close, CloseWaits, CloseReturns, CancelPath, loopVars, mgrVars,
              pathVars, callVars
<1>3. (CountInv /\ NamesInv)'
  BY <1>1, NamesKept DEF loopVars
<1>4. LoopInv'
  BY <1>1 DEF LoopInv, loopVars, callVars
<1>5. MissingIsComing'
  BY <1>1 DEF CloserStep, Close, CloseWaits, CloseReturns, CancelPath, MissingIsComing,
              loopVars, mgrVars
<1>6. CloseIsFinal'
  <2>1. CASE CloseReturns
    <3>1. Live \in SUBSET Paths
      BY DEF Live
    <3>2. Cardinality(Live) \in Nat /\ IsFiniteSet(Live)
      BY <3>1, PathSets
    <3>3. mgr = "down" /\ Cardinality(Live) = 0
      BY <2>1, <3>2 DEF CloseReturns, CountInv
    <3>4. Live = {}
      BY <3>2, <3>3, FS_EmptySet
    <3> QED
      BY <1>1, <3>3, <3>4 DEF CloseIsFinal, Live
  <2>2. CASE ~CloseReturns
    BY <1>1, <2>2 DEF CloserStep, Close, CloseWaits, CancelPath, CloseIsFinal
  <2> QED
    BY <2>1, <2>2
<1> QED
  BY <1>2, <1>3, <1>4, <1>5, <1>6

\* The inductive invariant of the path manager, its paths and their callers.
THEOREM Invariant == Spec => []IInv
<1>1. IInv /\ [Next]_vars => IInv'
  <2> SUFFICES ASSUME IInv, [Next]_vars PROVE IInv'
    OBVIOUS
  <2>1. CASE Next
    BY <2>1, ManagerSteps, CallerSteps, PathSteps, HandlerSteps, CloserSteps DEF Next
  <2>2. CASE UNCHANGED vars
    <3>1. (CountInv /\ NamesInv)'
      BY <2>2, NamesKept DEF vars
    <3>2. (Typed /\ LoopInv /\ MissingIsComing /\ CloseIsFinal)'
      BY <2>2 DEF vars, IInv, Typed, LoopInv, MissingIsComing, CloseIsFinal
    <3> QED
      BY <3>1, <3>2 DEF IInv
  <2> QED
    BY <2>1, <2>2
<1> QED
  BY <1>1, Initially, PTL DEF Spec

\* Type correctness, and the bound of the wait group.
THEOREM TypeCorrect == Spec => []TypeOK
<1>1. IInv => TypeOK
  <2> SUFFICES ASSUME IInv PROVE TypeOK
    OBVIOUS
  <2>1. Live \in SUBSET Paths
    BY DEF Live
  <2>2. /\ Cardinality(Live) \in Nat
        /\ Cardinality(Live) <= Cardinality(Paths)
    BY <2>1, PathSets
  <2>3. Cardinality(Paths) \in Nat
    BY PathSets
  <2>4. wg \in 0..(1 + Cardinality(Paths))
    BY <2>2, <2>3 DEF IInv, CountInv
  <2> QED
    BY <2>4 DEF IInv, Typed, TypeOK
<1> QED
  BY <1>1, Invariant, PTL

\* Two path goroutines never run for one name, also when a reload removes a path whose
\* name is then asked for or configured again (doReloadConf, createPath).
THEOREM NamesAreServedOnce == Spec => []OnePathPerName
<1>1. IInv => OnePathPerName
  <2> SUFFICES ASSUME IInv, NEW p \in Live, NEW q \in Live, p # q
               PROVE  pname[p] # pname[q]
    BY DEF OnePathPerName, Live
  <2>1. CASE paths[pname[p]] = p /\ paths[pname[q]] = q
    BY <2>1
  <2>2. CASE mgr = "await" /\ awaited = p
    <3>1. paths[pname[q]] = q /\ paths[pname[p]] = None
      BY <2>2 DEF IInv, NamesInv
    <3> QED
      BY <3>1, NoneIsNobody DEF Live
  <2>3. CASE mgr = "await" /\ awaited = q
    <3>1. paths[pname[p]] = p /\ paths[pname[q]] = None
      BY <2>3 DEF IInv, NamesInv
    <3> QED
      BY <3>1, NoneIsNobody DEF Live
  <2> QED
    BY <2>1, <2>2, <2>3 DEF IInv, NamesInv
<1> QED
  BY <1>1, Invariant, PTL

\* A configuration without a path is about to get one (doReloadConf).
THEOREM MissingPathsCome == Spec => []MissingIsComing
<1>1. IInv => MissingIsComing
  BY DEF IInv
<1> QED
  BY <1>1, Invariant, PTL

\* Nobody runs once the manager's close has returned (pathManager.close).
THEOREM CloseLeavesNobody == Spec => []CloseIsFinal
<1>1. IInv => CloseIsFinal
  BY DEF IInv
<1> QED
  BY <1>1, Invariant, PTL
-----------------------------------------------------------------------------
(***************************************************************************)
(* Whoever waits can be answered.                                          *)
(***************************************************************************)

\* The contexts: the manager leaves its loop, and a path its own, only when theirs is
\* done; the path that is waited for, and once close waits every path, has it done.
ContextInv ==
  /\ mgr = "down" => ctxDone
  /\ closer # "idle" <=> ctxDone
  /\ \A p \in Paths : at[p] \in {"ending", "done"} => cancelled[p]
  /\ mgr = "await" => cancelled[awaited]
  /\ closer \in {"waiting", "returned"} => \A p \in Paths : at[p] # "unused" => cancelled[p]

\* A caller has asked for a name, or has got a path in use.
TargetInv ==
  \A c \in Callers :
    /\ call[c] = "manager" => asked[c] \in Names
    /\ call[c] \in {"path", "reply", "holding"} =>
         target[c] \in Paths /\ at[target[c]] # "unused"

\* A path that tells the manager serves a caller, who waits for its reply; and whoever
\* waits for a reply is served by the path he has called.
ServingInv ==
  /\ \A p \in Paths : at[p] = "notify" =>
       serving[p] \in Callers /\ call[serving[p]] = "reply" /\ target[serving[p]] = p
  /\ \A c \in Callers : call[c] = "reply" =>
       at[target[c]] = "notify" /\ serving[target[c]] = c

WaitInv == ContextInv /\ TargetInv /\ ServingInv

\* A path that is created waits for nobody yet, and is cancelled if its parent is.
LEMMA CreationWaits ==
  ASSUME IInv, WaitInv, NEW n \in Names, paths[n] = None, NEW p \in Unused, createPath(n, p),
         mgr' \notin {"down", "await"}, UNCHANGED <<ctxDone, serving, closer>>
  PROVE  /\ ContextInv'
         /\ \A q \in Paths : q # p => at'[q] = at[q]
         /\ p \in Paths /\ at[p] = "unused" /\ at'[p] = "select"
         /\ \A q \in Paths : at[q] # "unused" => at'[q] # "unused"
<1> USE NoneIsNobody DEF IInv, Typed
<1>1. p \in Paths /\ at[p] = "unused"
  BY UnusedIsFree
<1>2. at' = [at EXCEPT ![p] = "select"] /\ cancelled' = [cancelled EXCEPT ![p] = ctxDone]
  BY DEF createPath
<1>3. ContextInv'
  BY <1>1, <1>2 DEF WaitInv, ContextInv
<1> QED
  BY <1>1, <1>2, <1>3

\* The end of a notification leaves its caller with the answer.
LEMMA NotifyEnds ==
  ASSUME IInv, WaitInv, NEW p \in Paths, at[p] = "notify",
         at' = [at EXCEPT ![p] = "select"],
         call' = [call EXCEPT ![serving[p]] = "holding"],
         serving' = [serving EXCEPT ![p] = None],
         UNCHANGED <<mgr, awaited, ctxDone, cancelled, asked, target, closer>>
  PROVE  WaitInv'
<1> USE NoneIsNobody DEF IInv, Typed
<1> DEFINE c == serving[p]
<1>1. c \in Callers /\ call[c] = "reply" /\ target[c] = p
  BY DEF WaitInv, ServingInv
<1>2. ContextInv'
  BY DEF WaitInv, ContextInv
<1>3. TargetInv'
  BY <1>1 DEF WaitInv, TargetInv
<1>4. ServingInv'
  BY <1>1 DEF WaitInv, ServingInv, TargetInv
<1> QED
  BY <1>2, <1>3, <1>4 DEF WaitInv

\* A request keeps it.
LEMMA RequestWaits ==
  ASSUME IInv, WaitInv, NEW c \in Callers, TakeRequest(c) \/ AnswerRequest(c) PROVE WaitInv'
<1> USE NoneIsNobody DEF IInv, Typed
<1>1. CASE TakeRequest(c)
  <2>1. /\ mgr = "select" /\ mgr' \in {"select", "request"} /\ call[c] = "manager"
        /\ call' \in {[call EXCEPT ![c] = "found"], [call EXCEPT ![c] = "idle"]}
        /\ asked' \in {asked, [asked EXCEPT ![c] = None]}
        /\ UNCHANGED <<ctxDone, pathVars, target, closer>>
    BY <1>1 DEF TakeRequest
  <2>2. ContextInv'
    BY <2>1 DEF WaitInv, ContextInv, pathVars
  <2>3. TargetInv'
    BY <2>1 DEF WaitInv, TargetInv, pathVars
  <2>4. ServingInv'
    BY <2>1 DEF WaitInv, ServingInv, pathVars
  <2> QED
    BY <2>2, <2>3, <2>4 DEF WaitInv
<1>2. CASE AnswerRequest(c)
  <2>1. PICK n \in Names : n = asked[c]
    BY <1>2 DEF AnswerRequest, LoopInv
  <2>2. /\ mgr' = "select" /\ call[c] = "found"
        /\ call' = [call EXCEPT ![c] = "path"] /\ asked' = [asked EXCEPT ![c] = None]
        /\ UNCHANGED <<ctxDone, serving, closer>>
    BY <1>2 DEF AnswerRequest
  <2>3. CASE /\ paths[n] # None
             /\ target' = [target EXCEPT ![c] = paths[n]]
             /\ UNCHANGED <<paths, wg, pname, at, cancelled>>
    <3>1. paths[n] \in Paths /\ at[paths[n]] # "unused"
      BY <2>3 DEF NamesInv
    <3>2. ContextInv'
      BY <2>2, <2>3 DEF WaitInv, ContextInv
    <3>3. TargetInv'
      BY <2>2, <2>3, <3>1 DEF WaitInv, TargetInv
    <3>4. ServingInv'
      BY <2>2, <2>3 DEF WaitInv, TargetInv, ServingInv
    <3> QED
      BY <3>2, <3>3, <3>4 DEF WaitInv
  <2>4. ASSUME paths[n] = None, NEW p \in Unused, createPath(n, p),
               target' = [target EXCEPT ![c] = p]
        PROVE  WaitInv'
    <3>1. /\ ContextInv'
          /\ \A q \in Paths : q # p => at'[q] = at[q]
          /\ p \in Paths /\ at[p] = "unused" /\ at'[p] = "select"
          /\ \A q \in Paths : at[q] # "unused" => at'[q] # "unused"
      BY <2>2, <2>4, CreationWaits
    <3>2. TargetInv'
      BY <2>2, <2>4, <3>1 DEF WaitInv, TargetInv
    <3>3. ServingInv'
      BY <2>2, <2>4, <3>1 DEF WaitInv, TargetInv, ServingInv
    <3> QED
      BY <3>1, <3>2, <3>3 DEF WaitInv
  <2> QED
    BY <1>2, <2>1, <2>3, <2>4 DEF AnswerRequest
<1> QED
  BY <1>1, <1>2

\* A reload keeps it.
LEMMA ReloadWaits ==
  ASSUME IInv, WaitInv, ReloadStep \/ \E h \in Handlers : TakeReload(h) PROVE WaitInv'
<1> USE NoneIsNobody DEF IInv, Typed
<1>1. UNCHANGED <<ctxDone, serving, call, asked, target, closer>>
  BY DEF ReloadStep, TakeReload, PickConf, KeepPath, DropPath, PathAwaited, CheckEnds,
         ReloadCreates, ReloadEnds, pathVars, callVars
<1>2. CASE ReloadCreates
  <2>1. CASE UNCHANGED <<at, cancelled>>
    BY <1>1, <1>2, <2>1 DEF ReloadCreates, WaitInv, ContextInv, TargetInv, ServingInv
  <2>2. ASSUME paths[picked] = None, NEW p \in Unused, createPath(picked, p)
        PROVE  WaitInv'
    <3>1. PICK n \in Names : n = picked
      BY <1>2 DEF ReloadCreates
    <3>2. paths[n] = None /\ createPath(n, p) /\ mgr' \notin {"down", "await"}
      BY <1>2, <2>2, <3>1 DEF ReloadCreates
    <3>3. /\ ContextInv'
          /\ \A q \in Paths : q # p => at'[q] = at[q]
          /\ p \in Paths /\ at[p] = "unused" /\ at'[p] = "select"
          /\ \A q \in Paths : at[q] # "unused" => at'[q] # "unused"
      BY <1>1, <3>2, CreationWaits
    <3>4. TargetInv'
      BY <1>1, <3>3 DEF WaitInv, TargetInv
    <3>5. ServingInv'
      BY <1>1, <3>3 DEF WaitInv, TargetInv, ServingInv
    <3> QED
      BY <3>3, <3>4, <3>5 DEF WaitInv
  <2> QED
    BY <1>2, <2>1, <2>2 DEF ReloadCreates
<1>3. CASE DropPath
  <2>1. (TargetInv /\ ServingInv)'
    BY <1>1, <1>3 DEF DropPath, WaitInv, TargetInv, ServingInv
  <2>2. paths[picked] \in Paths
    BY <1>3 DEF DropPath, Deleted
  <2>3. ContextInv'
    BY <1>1, <1>3, <2>2 DEF DropPath, WaitInv, ContextInv
  <2> QED
    BY <2>1, <2>3 DEF WaitInv
<1>4. CASE ~ReloadCreates /\ ~DropPath
  <2>1. UNCHANGED <<at, cancelled>> /\ mgr' \in {"check", "create", "select"}
    BY <1>4 DEF ReloadStep, TakeReload, PickConf, KeepPath, PathAwaited, CheckEnds, ReloadEnds,
                pathVars
  <2> QED
    BY <1>1, <2>1 DEF WaitInv, ContextInv, TargetInv, ServingInv
<1> QED
  BY <1>2, <1>3, <1>4

\* Every step of the manager keeps it.
LEMMA ManagerWaits == ASSUME IInv, WaitInv, ManagerStep PROVE WaitInv'
<1> USE NoneIsNobody DEF IInv, Typed
<1>1. ASSUME NEW p \in Paths, TakeNotify(p) PROVE WaitInv'
  BY <1>1, NotifyEnds DEF TakeNotify, mgrVars
<1>2. CASE ManagerExits
  BY <1>2 DEF ManagerExits, WaitInv, ContextInv, TargetInv, ServingInv, loopVars, pathVars,
              callVars
<1> QED
  BY <1>1, <1>2, RequestWaits, ReloadWaits DEF ManagerStep

\* Every step of a caller keeps it.
LEMMA CallerWaits == ASSUME IInv, WaitInv, NEW c \in Callers, CallerStep(c) PROVE WaitInv'
<1> USE NoneIsNobody DEF IInv, Typed
<1>1. ContextInv'
  <2>1. UNCHANGED <<mgr, awaited, ctxDone, closer, cancelled>>
    BY DEF CallerStep, Ask, RequestTerminated, CallPath, Release, PathTakes,
           PathCallTerminated, mgrVars, pathVars
  <2>2. \A p \in Paths : at'[p] # at[p] => at[p] = "select" /\ at'[p] = "notify"
    BY DEF CallerStep, Ask, RequestTerminated, CallPath, Release, PathTakes,
           PathCallTerminated, mgrVars, pathVars
  <2> QED
    BY <2>1, <2>2 DEF WaitInv, ContextInv
<1>2. ASSUME NEW n \in Names, Ask(c, n) PROVE (TargetInv /\ ServingInv)'
  BY <1>2 DEF Ask, WaitInv, TargetInv, ServingInv, pathVars
<1>3. ASSUME RequestTerminated(c) PROVE (TargetInv /\ ServingInv)'
  BY <1>3 DEF RequestTerminated, WaitInv, TargetInv, ServingInv, pathVars
<1>4. ASSUME CallPath(c) PROVE (TargetInv /\ ServingInv)'
  BY <1>4 DEF CallPath, WaitInv, TargetInv, ServingInv, pathVars
<1>5. ASSUME Release(c) PROVE (TargetInv /\ ServingInv)'
  BY <1>5 DEF Release, WaitInv, TargetInv, ServingInv, pathVars
<1>6. ASSUME PathTakes(c) PROVE (TargetInv /\ ServingInv)'
  <2>1. target[c] \in Paths /\ at[target[c]] = "select" /\ call[c] = "path"
    BY <1>6 DEF PathTakes, WaitInv, TargetInv
  <2>2. CASE call' = [call EXCEPT ![c] = "holding"] /\ UNCHANGED <<at, serving>>
    BY <1>6, <2>1, <2>2 DEF PathTakes, WaitInv, TargetInv, ServingInv
  <2>3. CASE /\ call' = [call EXCEPT ![c] = "reply"]
             /\ at' = [at EXCEPT ![target[c]] = "notify"]
             /\ serving' = [serving EXCEPT ![target[c]] = c]
    <3>1. UNCHANGED <<asked, target>>
      BY <1>6 DEF PathTakes
    <3>2. TargetInv'
      BY <2>1, <2>3, <3>1 DEF WaitInv, TargetInv
    <3>3. ServingInv'
      BY <2>1, <2>3, <3>1 DEF WaitInv, TargetInv, ServingInv
    <3> QED
      BY <3>2, <3>3
  <2> QED
    BY <1>6, <2>2, <2>3 DEF PathTakes
<1>7. ASSUME PathCallTerminated(c) PROVE (TargetInv /\ ServingInv)'
  BY <1>7 DEF PathCallTerminated, WaitInv, TargetInv, ServingInv, pathVars
<1> QED
  BY <1>1, <1>2, <1>3, <1>4, <1>5, <1>6, <1>7 DEF CallerStep, WaitInv

\* Every step of a path keeps it.
LEMMA PathWaits == ASSUME IInv, WaitInv, NEW p \in Paths, PathStep(p) PROVE WaitInv'
<1> USE NoneIsNobody DEF IInv, Typed
<1>1. CASE NotifyGivesUp(p)
  BY <1>1, NotifyEnds DEF NotifyGivesUp, mgrVars
<1>2. CASE PathEnds(p)
  BY <1>2 DEF PathEnds, WaitInv, ContextInv, TargetInv, ServingInv, mgrVars, callVars
<1>3. CASE PathDone(p)
  BY <1>3 DEF PathDone, WaitInv, ContextInv, TargetInv, ServingInv, loopVars, callVars
<1> QED
  BY <1>1, <1>2, <1>3 DEF PathStep

\* Every step of the handlers and of the close keeps it.
LEMMA OtherWaits ==
  ASSUME IInv, WaitInv, CloserStep \/ \E h \in Handlers : HandlerStep(h)
  PROVE  WaitInv'
<1> USE NoneIsNobody DEF IInv, Typed
<1>1. UNCHANGED <<mgr, awaited, at, serving, call, asked, target>>
  BY DEF CloserStep, Close, CloseWaits, CloseReturns, CancelPath, HandlerStep, AddPath,
         RemovePath, ReloadTerminated, mgrVars, loopVars, pathVars, callVars
<1>2. (TargetInv /\ ServingInv)'
  BY <1>1 DEF WaitInv, TargetInv, ServingInv
<1>3. ContextInv'
  <2>1. CASE Close
    BY <1>1, <2>1 DEF Close, WaitInv, ContextInv, pathVars
  <2>2. CASE CloseWaits
    BY <1>1, <2>2 DEF CloseWaits, WaitInv, ContextInv, pathVars, mgrVars
  <2>3. CASE CloseReturns
    BY <1>1, <2>3 DEF CloseReturns, WaitInv, ContextInv, pathVars, mgrVars
  <2>4. ASSUME NEW p \in Paths, CancelPath(p) PROVE ContextInv'
    BY <1>1, <2>4 DEF CancelPath, WaitInv, ContextInv, NamesInv, mgrVars
  <2>5. ASSUME NEW h \in Handlers, HandlerStep(h) PROVE ContextInv'
    <3>1. UNCHANGED <<ctxDone, closer, cancelled>>
      BY <2>5 DEF HandlerStep, AddPath, RemovePath, ReloadTerminated, mgrVars, pathVars
    <3> QED
      BY <1>1, <3>1 DEF WaitInv, ContextInv
  <2> QED
    BY <2>1, <2>2, <2>3, <2>4, <2>5 DEF CloserStep
<1> QED
  BY <1>2, <1>3 DEF WaitInv

\* So it holds in every state.
LEMMA Waits == Spec => []WaitInv
<1>1. Init => WaitInv
  BY NoneIsNobody DEF Init, WaitInv, ContextInv, TargetInv, ServingInv
<1>2. IInv /\ WaitInv /\ [Next]_vars => WaitInv'
  <2> SUFFICES ASSUME IInv, WaitInv, [Next]_vars PROVE WaitInv'
    OBVIOUS
  <2>1. CASE Next
    BY <2>1, ManagerWaits, CallerWaits, PathWaits, OtherWaits DEF Next
  <2>2. CASE UNCHANGED vars
    BY <2>2 DEF vars, WaitInv, ContextInv, TargetInv, ServingInv
  <2> QED
    BY <2>1, <2>2
<1> QED
  BY <1>1, <1>2, Invariant, PTL DEF Spec

\* Nobody waits for a goroutine that has left with nothing to wake him (the selects of
\* pathManager and path, path.wait, pathManager.close).
THEOREM WhoWaitsIsAnswered == Spec => []NobodyStranded
<1>1. IInv /\ WaitInv => NobodyStranded
  <2> SUFFICES ASSUME IInv, WaitInv PROVE NobodyStranded
    OBVIOUS
  <2>1. \A c \in Callers : call[c] = "path" =>
          at[target[c]] \in {"select", "notify"} \/ cancelled[target[c]]
    BY DEF IInv, Typed, WaitInv, ContextInv, TargetInv
  <2>2. \A c \in Callers : call[c] = "found" => mgr = "request"
    BY DEF IInv, LoopInv
  <2> QED
    BY <2>1, <2>2 DEF WaitInv, ContextInv, ServingInv, NobodyStranded
<1> QED
  BY <1>1, Invariant, Waits, PTL
-----------------------------------------------------------------------------
(***************************************************************************)
(* The path manager implements the registry.                               *)
(***************************************************************************)

\* What the registry shows of the state.
Opened == {n \in Names : paths[n] # None}
Reloading ==
  CASE mgr \in {"check", "await"} -> "closing"
    [] mgr = "create"             -> "opening"
    [] OTHER                      -> "no"
May == IF mgr = "create" THEN late ELSE {}
Found == {n \in Names : \E c \in Callers : call[c] = "found" /\ asked[c] = n}
Due ==
  CASE mgr = "request" -> Found
    [] mgr = "create"  -> todo \cup ({picked} \ {None})
    [] OTHER           -> {}

registry == <<pathConfs, Opened, Reloading, Due, May, ctxDone>>

\* The actions of the registry, in these terms.
LEMMA RegistrySteps ==
  /\ \A n \in Names :
       /\ /\ n \notin pathConfs /\ pathConfs' = pathConfs \cup {n}
          /\ May' = (IF Reloading = "opening" THEN May \cup {n} ELSE May)
          /\ UNCHANGED <<Opened, Reloading, Due, ctxDone>>
          => Registry!Next
       /\ /\ n \in pathConfs /\ pathConfs' = pathConfs \ {n} /\ May' = May \ {n}
          /\ Due' \in (IF Reloading = "opening" THEN {Due, Due \ {n}} ELSE {Due})
          /\ UNCHANGED <<Opened, Reloading, ctxDone>>
          => Registry!Next
       /\ /\ n \in May /\ Due' = Due \cup {n} /\ May' = May \ {n}
          /\ UNCHANGED <<pathConfs, Opened, Reloading, ctxDone>>
          => Registry!Next
       /\ /\ Reloading = "no" /\ Due = {} /\ ~ctxDone /\ n \in pathConfs /\ Due' = {n}
          /\ UNCHANGED <<pathConfs, Opened, Reloading, May, ctxDone>>
          => Registry!Next
       /\ /\ n \in Due /\ Opened' = Opened \cup {n} /\ Due' = Due \ {n}
          /\ UNCHANGED <<pathConfs, Reloading, May, ctxDone>>
          => Registry!Next
       /\ /\ Reloading = "closing" /\ n \in Opened \ pathConfs /\ Opened' = Opened \ {n}
          /\ UNCHANGED <<pathConfs, Reloading, Due, May, ctxDone>>
          => Registry!Next
  /\ /\ Reloading = "no" /\ Due = {} /\ ~ctxDone /\ Reloading' = "closing"
     /\ UNCHANGED <<pathConfs, Opened, Due, May, ctxDone>>
     => Registry!Next
  /\ /\ Reloading = "closing" /\ Reloading' = "opening" /\ Due' = pathConfs
     /\ UNCHANGED <<pathConfs, Opened, May, ctxDone>>
     => Registry!Next
  /\ /\ Reloading = "opening" /\ Due = {} /\ Reloading' = "no" /\ May' = {}
     /\ UNCHANGED <<pathConfs, Opened, Due, ctxDone>>
     => Registry!Next
  /\ /\ ~ctxDone /\ ctxDone' = TRUE
     /\ UNCHANGED <<pathConfs, Opened, Reloading, Due, May>>
     => Registry!Next
<1> USE DEF Opened, Reloading, Due, May, Found
<1>1. ASSUME NEW n \in Names, Registry!Configure(n) \/ Registry!Forget(n) \/ Registry!Note(n)
                              \/ Registry!Admit(n) \/ Registry!Open(n) \/ Registry!Close(n)
      PROVE  Registry!Next
  BY <1>1 DEF Registry!Next
<1>2. ASSUME Registry!BeginReload \/ Registry!BeginOpening \/ Registry!EndReload
             \/ Registry!GoDown
      PROVE  Registry!Next
  BY <1>2 DEF Registry!Next
<1>3. ASSUME NEW n \in Names, n \notin pathConfs, pathConfs' = pathConfs \cup {n},
             May' = (IF Reloading = "opening" THEN May \cup {n} ELSE May),
             UNCHANGED <<Opened, Reloading, Due, ctxDone>>
      PROVE  Registry!Configure(n)
  BY <1>3 DEF Registry!Configure
<1>4. ASSUME NEW n \in Names, n \in pathConfs, pathConfs' = pathConfs \ {n}, May' = May \ {n},
             Due' \in (IF Reloading = "opening" THEN {Due, Due \ {n}} ELSE {Due}),
             UNCHANGED <<Opened, Reloading, ctxDone>>
      PROVE  Registry!Forget(n)
  BY <1>4 DEF Registry!Forget
<1>5. ASSUME NEW n \in Names, n \in May, Due' = Due \cup {n}, May' = May \ {n},
             UNCHANGED <<pathConfs, Opened, Reloading, ctxDone>>
      PROVE  Registry!Note(n)
  BY <1>5 DEF Registry!Note
<1>6. ASSUME NEW n \in Names, Reloading = "no", Due = {}, ~ctxDone, n \in pathConfs, Due' = {n},
             UNCHANGED <<pathConfs, Opened, Reloading, May, ctxDone>>
      PROVE  Registry!Admit(n)
  BY <1>6 DEF Registry!Admit
<1>7. ASSUME NEW n \in Names, n \in Due, Opened' = Opened \cup {n}, Due' = Due \ {n},
             UNCHANGED <<pathConfs, Reloading, May, ctxDone>>
      PROVE  Registry!Open(n)
  BY <1>7 DEF Registry!Open
<1>8. ASSUME NEW n \in Names, Reloading = "closing", n \in Opened \ pathConfs,
             Opened' = Opened \ {n}, UNCHANGED <<pathConfs, Reloading, Due, May, ctxDone>>
      PROVE  Registry!Close(n)
  BY <1>8 DEF Registry!Close
<1>9. ASSUME Reloading = "no", Due = {}, ~ctxDone, Reloading' = "closing",
             UNCHANGED <<pathConfs, Opened, Due, May, ctxDone>>
      PROVE  Registry!BeginReload
  BY <1>9 DEF Registry!BeginReload
<1>10. ASSUME Reloading = "closing", Reloading' = "opening", Due' = pathConfs,
              UNCHANGED <<pathConfs, Opened, May, ctxDone>>
       PROVE  Registry!BeginOpening
  BY <1>10 DEF Registry!BeginOpening
<1>11. ASSUME Reloading = "opening", Due = {}, Reloading' = "no", May' = {},
              UNCHANGED <<pathConfs, Opened, Due, ctxDone>>
       PROVE  Registry!EndReload
  BY <1>11 DEF Registry!EndReload
<1>12. ASSUME ~ctxDone, ctxDone' = TRUE, UNCHANGED <<pathConfs, Opened, Reloading, Due, May>>
       PROVE  Registry!GoDown
  BY <1>12 DEF Registry!GoDown
<1> HIDE DEF Opened, Reloading, Due, May, Found
<1> QED
  BY <1>1, <1>2, <1>3, <1>4, <1>5, <1>6, <1>7, <1>8, <1>9, <1>10, <1>11, <1>12

\* A step that the registry does not see.
LEMMA RegistryKept ==
  ASSUME UNCHANGED <<mgr, todo, late, picked, ctxDone, paths, pathConfs>>,
         mgr = "request" => UNCHANGED Found
  PROVE  UNCHANGED registry
BY DEF registry, Opened, Reloading, May, Due

\* A request is admitted for what is configured, and opens it, whatever became of the
\* configuration since.
LEMMA RequestRefines ==
  ASSUME IInv, NEW c \in Callers, TakeRequest(c) \/ AnswerRequest(c)
  PROVE  Registry!Next \/ UNCHANGED registry
<1> USE NoneIsNobody DEF IInv, Typed
<1>1. CASE TakeRequest(c)
  <2>1. /\ mgr = "select" /\ ~ctxDone /\ call[c] = "manager"
        /\ UNCHANGED <<todo, late, picked, ctxDone, paths, pathConfs>>
    BY <1>1 DEF TakeRequest, loopVars
  <2>2. CASE /\ asked[c] \in pathConfs /\ mgr' = "request"
             /\ call' = [call EXCEPT ![c] = "found"] /\ UNCHANGED asked
    <3>1. PICK n \in Names : n = asked[c]
      BY <2>2
    <3>2. \A d \in Callers : call'[d] = "found" <=> d = c
      BY <2>1, <2>2 DEF LoopInv
    <3>3. Found' = {n}
      BY <2>2, <3>1, <3>2 DEF Found
    <3>4. Reloading = "no" /\ Due = {} /\ Due' = {n}
      BY <2>1, <2>2, <3>3 DEF Reloading, Due
    <3>5. UNCHANGED <<pathConfs, Opened, Reloading, May, ctxDone>>
      BY <2>1, <2>2 DEF Opened, Reloading, May
    <3> QED
      BY <2>1, <2>2, <3>1, <3>4, <3>5, RegistrySteps
  <2>3. CASE UNCHANGED mgr
    BY <2>1, <2>3, RegistryKept
  <2> QED
    BY <1>1, <2>2, <2>3 DEF TakeRequest, A!Admitted, A!FindPathConf
<1>2. CASE AnswerRequest(c)
  <2>1. PICK n \in Names : n = asked[c]
    BY <1>2 DEF AnswerRequest, LoopInv
  <2>2. /\ mgr = "request" /\ mgr' = "select" /\ call[c] = "found"
        /\ UNCHANGED <<ctxDone, pathConfs>>
    BY <1>2 DEF AnswerRequest
  <2>3. Due = {n} /\ Due' = {}
    BY <2>1, <2>2 DEF LoopInv, Due, Found
  <2>4. Opened' = Opened \cup {n}
    <3>1. CASE paths[n] # None /\ UNCHANGED paths
      BY <3>1 DEF Opened
    <3>2. ASSUME NEW p \in Unused, createPath(n, p) PROVE Opened' = Opened \cup {n}
      <4>1. p # None /\ paths' = [paths EXCEPT ![n] = p]
        BY <3>2, UnusedIsFree DEF createPath
      <4> QED
        BY <4>1 DEF Opened
    <3> QED
      BY <1>2, <2>1, <3>1, <3>2 DEF AnswerRequest
  <2>5. UNCHANGED <<Reloading, May>>
    BY <2>2 DEF Reloading, May
  <2> QED
    BY <2>2, <2>3, <2>4, <2>5, RegistrySteps
<1> QED
  BY <1>1, <1>2

\* A reload closes what is not configured, then opens what was configured when it began
\* to, as far as that was not removed before its turn.
LEMMA ReloadRefines ==
  ASSUME IInv, ReloadStep \/ \E h \in Handlers : TakeReload(h)
  PROVE  Registry!Next \/ UNCHANGED registry
<1> USE NoneIsNobody DEF IInv, Typed
<1>1. ASSUME NEW h \in Handlers, TakeReload(h) PROVE Registry!Next
  <2>1. Reloading = "no" /\ Due = {} /\ Reloading' = "closing"
    BY <1>1 DEF TakeReload, Reloading, Due
  <2>2. UNCHANGED <<pathConfs, Opened, Due, May, ctxDone>> /\ ~ctxDone
    BY <1>1 DEF TakeReload, Opened, Due, May
  <2> QED
    BY <2>1, <2>2, RegistrySteps
<1>2. ASSUME NEW n \in Names, PickConf(n) PROVE Registry!Next \/ UNCHANGED registry
  <2>1. /\ picked = None /\ picked' = n /\ todo' = todo \ {n} /\ late' = late \ {n}
        /\ UNCHANGED <<mgr, ctxDone, paths, pathConfs>>
        /\ mgr \in {"check", "create"} /\ n \in todo \cup late
    BY <1>2 DEF PickConf
  <2>2. UNCHANGED <<pathConfs, Opened, Reloading, ctxDone>>
    BY <2>1 DEF Opened, Reloading
  <2>3. CASE mgr = "create" /\ n \in late
    <3>1. n \in May /\ May' = May \ {n} /\ Due' = Due \cup {n}
      BY <2>1, <2>3 DEF LoopInv, May, Due
    <3> QED
      BY <2>2, <3>1, RegistrySteps
  <2>4. CASE mgr = "create" /\ n \in todo
    <3>1. UNCHANGED <<May, Due>>
      BY <2>1, <2>4 DEF LoopInv, May, Due
    <3> QED
      BY <2>2, <3>1 DEF registry
  <2>5. CASE mgr = "check"
    BY <2>1, <2>2, <2>5 DEF registry, May, Due
  <2> QED
    BY <2>1, <2>3, <2>4, <2>5
<1>3. CASE KeepPath \/ PathAwaited
  BY <1>3 DEF KeepPath, PathAwaited, registry, Opened, Reloading, May, Due
<1>4. CASE DropPath
  <2>1. PICK n \in Names : n = picked
    BY <1>4 DEF DropPath
  <2>2. n \in Opened \ pathConfs /\ Opened' = Opened \ {n}
    BY <1>4, <2>1 DEF DropPath, Deleted, Opened
  <2>3. Reloading = "closing" /\ UNCHANGED <<pathConfs, Reloading, Due, May, ctxDone>>
    BY <1>4 DEF DropPath, Reloading, Due, May
  <2> QED
    BY <2>2, <2>3, RegistrySteps
<1>5. CASE CheckEnds
  <2>1. Reloading = "closing" /\ Reloading' = "opening" /\ Due' = pathConfs
    BY <1>5 DEF CheckEnds, Reloading, Due
  <2>2. UNCHANGED <<pathConfs, Opened, May, ctxDone>>
    BY <1>5 DEF CheckEnds, Opened, May
  <2> QED
    BY <2>1, <2>2, RegistrySteps
<1>6. CASE ReloadCreates
  <2>1. PICK n \in Names : n = picked
    BY <1>6 DEF ReloadCreates
  <2>2. /\ mgr = "create" /\ picked' = None
        /\ UNCHANGED <<mgr, todo, late, ctxDone, pathConfs>>
    BY <1>6 DEF ReloadCreates
  <2>3. n \in Due /\ Due' = Due \ {n}
    BY <2>1, <2>2 DEF LoopInv, Due
  <2>4. Opened' = Opened \cup {n}
    <3>1. CASE paths[n] # None /\ UNCHANGED paths
      BY <3>1 DEF Opened
    <3>2. ASSUME NEW p \in Unused, createPath(n, p) PROVE Opened' = Opened \cup {n}
      <4>1. p # None /\ paths' = [paths EXCEPT ![n] = p]
        BY <3>2, UnusedIsFree DEF createPath
      <4> QED
        BY <4>1 DEF Opened
    <3> QED
      BY <1>6, <2>1, <3>1, <3>2 DEF ReloadCreates
  <2>5. UNCHANGED <<Reloading, May>>
    BY <2>2 DEF Reloading, May
  <2> QED
    BY <2>2, <2>3, <2>4, <2>5, RegistrySteps
<1>7. CASE ReloadEnds
  <2>1. Reloading = "opening" /\ Due = {} /\ Reloading' = "no" /\ May' = {}
    BY <1>7 DEF ReloadEnds, Reloading, Due, May
  <2>2. UNCHANGED <<pathConfs, Opened, Due, ctxDone>>
    BY <1>7, <2>1 DEF ReloadEnds, Opened, Due
  <2> QED
    BY <2>1, <2>2, RegistrySteps
<1> QED
  BY <1>1, <1>2, <1>3, <1>4, <1>5, <1>6, <1>7 DEF ReloadStep

\* Every step of the manager is one of the registry, or none.
LEMMA ManagerRefines == ASSUME IInv, ManagerStep PROVE Registry!Next \/ UNCHANGED registry
<1> USE NoneIsNobody DEF IInv, Typed
<1>1. ASSUME NEW p \in Paths, TakeNotify(p) PROVE UNCHANGED registry
  <2>1. mgr = "select" /\ UNCHANGED mgrVars
    BY <1>1 DEF TakeNotify
  <2> QED
    BY <2>1, RegistryKept DEF mgrVars
<1>2. CASE ManagerExits
  BY <1>2 DEF ManagerExits, loopVars, registry, Opened, Reloading, May, Due
<1> QED
  BY <1>1, <1>2, RequestRefines, ReloadRefines DEF ManagerStep

\* The handlers configure and forget.
LEMMA HandlersRefine ==
  ASSUME IInv, NEW h \in Handlers, HandlerStep(h)
  PROVE  Registry!Next \/ UNCHANGED registry
<1> USE NoneIsNobody DEF IInv, Typed
<1>1. UNCHANGED <<mgr, picked, ctxDone, paths, Opened, Reloading, Found>>
  BY DEF HandlerStep, AddPath, RemovePath, ReloadTerminated, mgrVars, callVars, Opened,
         Reloading, Found
<1>2. ASSUME NEW n \in Names, AddPath(h, n) PROVE Registry!Next
  <2>1. n \notin pathConfs /\ pathConfs' = pathConfs \cup {n} /\ UNCHANGED todo
    BY <1>2 DEF AddPath
  <2>2. May' = (IF Reloading = "opening" THEN May \cup {n} ELSE May)
    BY <1>1, <1>2 DEF AddPath, May, Reloading
  <2>3. UNCHANGED Due
    BY <1>1, <2>1 DEF Due
  <2> QED
    BY <1>1, <2>1, <2>2, <2>3, RegistrySteps
<1>3. ASSUME NEW n \in Names, RemovePath(h, n) PROVE Registry!Next
  <2>1. /\ n \in pathConfs /\ pathConfs' = pathConfs \ {n}
        /\ todo' = todo \ {n} /\ late' = late \ {n}
    BY <1>3 DEF RemovePath
  <2>2. May' = May \ {n}
    BY <1>1, <2>1 DEF May
  <2>3. Due' \in (IF Reloading = "opening" THEN {Due, Due \ {n}} ELSE {Due})
    <3>1. CASE mgr = "create"
      <4>1. Due' = (IF n = picked THEN Due ELSE Due \ {n})
        BY <1>1, <2>1, <3>1 DEF Due
      <4> QED
        BY <3>1, <4>1 DEF Reloading
    <3>2. CASE mgr # "create"
      BY <1>1, <3>2 DEF Due, Reloading
    <3> QED
      BY <3>1, <3>2
  <2> QED
    BY <1>1, <2>1, <2>2, <2>3, RegistrySteps
<1>4. ASSUME ReloadTerminated(h) PROVE UNCHANGED registry
  BY <1>1, <1>4, RegistryKept DEF ReloadTerminated, mgrVars
<1> QED
  BY <1>2, <1>3, <1>4 DEF HandlerStep

\* The callers and the paths are not seen; of the close the end of the manager's
\* context is.
LEMMA OthersRefine ==
  ASSUME IInv, WaitInv,
         \/ \E c \in Callers : CallerStep(c)
         \/ \E p \in Paths : PathStep(p)
         \/ CloserStep
  PROVE  Registry!Next \/ UNCHANGED registry
<1> USE NoneIsNobody DEF IInv, Typed
<1>1. ASSUME NEW c \in Callers, CallerStep(c) PROVE UNCHANGED registry
  <2>1. UNCHANGED mgrVars
    BY <1>1 DEF CallerStep, Ask, RequestTerminated, CallPath, Release, PathTakes,
                PathCallTerminated
  <2>2. \A d \in Callers : /\ call'[d] = "found" <=> call[d] = "found"
                           /\ call[d] = "found" => asked'[d] = asked[d]
    BY <1>1 DEF CallerStep, Ask, RequestTerminated, CallPath, Release, PathTakes,
                PathCallTerminated
  <2>3. UNCHANGED Found
    BY <2>2 DEF Found
  <2> QED
    BY <2>1, <2>3, RegistryKept DEF mgrVars
<1>2. ASSUME NEW p \in Paths, PathStep(p) PROVE UNCHANGED registry
  <2>1. UNCHANGED <<mgr, todo, late, picked, ctxDone, paths, pathConfs, asked>>
    BY <1>2 DEF PathStep, NotifyGivesUp, PathEnds, PathDone, mgrVars, loopVars, callVars
  <2>2. \A d \in Callers : call'[d] = "found" <=> call[d] = "found"
    BY <1>2 DEF PathStep, NotifyGivesUp, PathEnds, PathDone, callVars, WaitInv, ServingInv
  <2>3. UNCHANGED Found
    BY <2>1, <2>2 DEF Found
  <2> QED
    BY <2>1, <2>3, RegistryKept
<1>3. CASE Close
  <2>1. UNCHANGED <<mgr, todo, late, picked, paths, pathConfs, call, asked>> /\ ctxDone' = TRUE
    BY <1>3 DEF Close, loopVars, callVars
  <2>2. UNCHANGED <<pathConfs, Opened, Reloading, Due, May>>
    BY <2>1 DEF Opened, Reloading, Due, May, Found
  <2>3. CASE ctxDone
    BY <2>1, <2>2, <2>3 DEF registry
  <2>4. CASE ~ctxDone
    BY <2>1, <2>2, <2>4, RegistrySteps
  <2> QED
    BY <2>3, <2>4
<1>4. CASE CloserStep /\ ~Close
  <2>1. UNCHANGED <<mgrVars, callVars>>
    BY <1>4 DEF CloserStep, CloseWaits, CloseReturns, CancelPath
  <2>2. UNCHANGED Found
    BY <2>1 DEF Found, callVars
  <2> QED
    BY <2>1, <2>2, RegistryKept DEF mgrVars
<1> QED
  BY <1>1, <1>2, <1>3, <1>4

\* The path manager implements the registry: whatever meets a reload, it ends with every
\* path open that was configured when it began to open them and has not been removed
\* before its turn; a path opens only for a name that a request or a reload has found
\* configured, and a reload alone takes one away, while its name is not configured
\* (doReloadConf, createPath, doDescribe, doAddReader, doAddPublisher).
THEOREM ManagerImplementsRegistry == Spec => ImplementsRegistry
<1>1. Init => Registry!Init
  BY DEF Init, Registry!Init
<1>2. IInv /\ WaitInv /\ [Next]_vars => Registry!Next \/ UNCHANGED registry
  <2> SUFFICES ASSUME IInv, WaitInv, [Next]_vars PROVE Registry!Next \/ UNCHANGED registry
    OBVIOUS
  <2>1. CASE UNCHANGED vars
    BY <2>1 DEF vars, registry, Opened, Reloading, Due, May, Found
  <2> QED
    BY <2>1, ManagerRefines, HandlersRefine, OthersRefine DEF Next
<1>3. Registry!Next \/ UNCHANGED registry => [Registry!Next]_(Registry!registryVars)
  BY DEF registry, Opened, Reloading, Due, May, Found, Registry!registryVars
<1> QED
  BY <1>1, <1>2, <1>3, Invariant, Waits, PTL DEF Spec, ImplementsRegistry, Registry!Spec
=============================================================================
