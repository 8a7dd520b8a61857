----------------------------- MODULE PathProofs -----------------------------
(***************************************************************************)
(* Theorems about Path.tla, for any set of sessions and either value of    *)
(* OverridePublisher.  The inductive invariant is IInv; Inductive shows    *)
(* that every step preserves it, and the theorems follow from it.          *)
(***************************************************************************)
EXTENDS Path, TLAPS

(***************************************************************************)
(* The inductive invariant.  What the safety properties of Path.tla leave  *)
(* out is what a session inside a request knows about itself.              *)
(***************************************************************************)

\* gortsplib lets a request in only in the states it allows it in, and keeps the
\* state until the request is answered; onClose runs only in a session that closes.
PcMatchesState ==
  \A s \in Sessions :
    /\ pc[s] \in {"AnnounceManager", "AnnouncePath", "AnnounceReply"} => rstate[s] = "initial"
    /\ pc[s] \in {"RecordPath", "RecordReply"} => rstate[s] = "preRecord"
    /\ pc[s] \in {"PausePath", "PauseReply"} => rstate[s] = "record"
    /\ pc[s] \in {"SetupManager", "SetupPath", "SetupReply"} => rstate[s] \in {"initial", "prePlay"}
    /\ pc[s] = "CloseReader" => rstate[s] \in {"prePlay", "play"}
    /\ pc[s] = "ClosePublisher" => rstate[s] \in {"preRecord", "record"}
    /\ pc[s] \in {"CloseReader", "ClosePublisher", "CloseReply"} => closing[s]

\* A stream's publisher has recorded and has not paused or closed since.
StreamHasRecorder ==
  ~ctxDone /\ ready =>
    \/ pc[source] = "RecordReply"
    \/ rstate[source] = "record" /\ pc[source] \in {"Idle", "PausePath", "ClosePublisher"}

\* RecordingOwnsStream, one step earlier: the answer to RECORD is on its way.
RecordReplyOwnsStream ==
  \A s \in Sessions :
    ~ctxDone /\ pc[s] = "RecordReply" => (source = s /\ ready /\ held[s] = "live") \/ closing[s]

\* ReaderServedOrClosing, one step earlier: the answer to SETUP is on its way.
SetupReplyIsServed ==
  \A s \in Sessions :
    pc[s] = "SetupReply" => (s \in readers /\ held[s] = "live") \/ closing[s]

\* A session that took the slot is no reader: it could not have taken it while
\* there was a stream to read, and the end of a stream drops its readers.
PublishersDoNotRead ==
  \A s \in readers : pc[s] # "AnnounceReply" /\ rstate[s] \in {"initial", "prePlay", "play"}

\* ReaderLeaksOnlyFailedSetup, one step earlier.
ClosedReadersGone ==
  \A s \in readers : ~ctxDone /\ pc[s] \in {"CloseReply", "Closed"} => rstate[s] = "initial"

SlotInv   == SlotNotLeaked /\ StreamBacked /\ StreamHasRecorder
OwnerInv  == RecordingOwnsStream /\ RecordReplyOwnsStream
ReaderInv == ReaderServedOrClosing /\ SetupReplyIsServed /\ PublishersDoNotRead /\ ClosedReadersGone

IInv == TypeOK /\ PcMatchesState /\ SlotInv /\ OwnerInv /\ ReaderInv

-----------------------------------------------------------------------------
(***************************************************************************)
(* The two helpers of the path's handlers.                                 *)
(***************************************************************************)

\* What a handler that ends the stream, if there is one, and closes the sessions
\* `others' leaves behind.
StreamGone(others) ==
  /\ ready' = FALSE
  /\ readers' = {}
  /\ closing' \in [Sessions -> BOOLEAN]
  /\ held' \in [Sessions -> {"nil", "live", "closed"}]
  /\ \A t \in Sessions : closing[t] \/ t \in readers \cup others => closing'[t]
  /\ ready \/ held' = held

\* After setNotReadyIfReady there is neither stream nor reader, whichever of its
\* branches was taken (path.go setNotReady).
LEMMA StreamEnds ==
  ASSUME TypeOK, StreamBacked, NEW others \in SUBSET Sessions, setNotReadyIfReady(others)
  PROVE  StreamGone(others)
<1>1. CASE ready
  BY <1>1 DEF StreamGone, setNotReadyIfReady, setNotReady, TypeOK
<1>2. CASE ~ready
  BY <1>2 DEF StreamGone, setNotReadyIfReady, keepReady, TypeOK, StreamBacked
<1> QED
  BY <1>1, <1>2

\* A handler that closes nobody and leaves the stream alone changes nothing there.
LEMMA NothingEnds ==
  ASSUME TypeOK, keepReady({})
  PROVE  UNCHANGED <<ready, readers, closing, held>>
BY DEF keepReady, TypeOK

-----------------------------------------------------------------------------
(***************************************************************************)
(* The invariant holds at first and is preserved.                          *)
(***************************************************************************)

\* The path that initialize has just started satisfies the invariant.
LEMMA Initially == Init => IInv
BY NoneIsNoSession
DEF Init, IInv, TypeOK, Steps, RStates, PcMatchesState,
    SlotInv, SlotNotLeaked, StreamBacked, StreamHasRecorder,
    OwnerInv, RecordingOwnsStream, RecordReplyOwnsStream,
    ReaderInv, ReaderServedOrClosing, SetupReplyIsServed, PublishersDoNotRead, ClosedReadersGone

\* Every step of a session, of the path or of the program preserves it.  The
\* handlers that may end a stream go through StreamEnds.
LEMMA Inductive == IInv /\ [Next]_vars => IInv'
<1> SUFFICES ASSUME IInv, [Next]_vars PROVE IInv'
  OBVIOUS
<1> USE NoneIsNoSession
    DEF IInv, TypeOK, Steps, RStates, Goto, pathVars, sessionVars, PathServes, PathTerminated,
        PcMatchesState, SlotInv, SlotNotLeaked, HoldsSlot, StreamBacked, StreamHasRecorder,
        OwnerInv, RecordingOwnsStream, RecordReplyOwnsStream,
        ReaderInv, ReaderServedOrClosing, SetupReplyIsServed, PublishersDoNotRead, ClosedReadersGone
<1>1. ASSUME NEW s \in Sessions, Announce(s) PROVE IInv'
  BY <1>1 DEF Announce
<1>2. ASSUME NEW s \in Sessions, AddPublisher(s) PROVE IInv'
  BY <1>2 DEF AddPublisher
<1>3. ASSUME NEW s \in Sessions, AnnounceDone(s) PROVE IInv'
  BY <1>3 DEF AnnounceDone
<1>4. ASSUME NEW s \in Sessions, Record(s) PROVE IInv'
  BY <1>4 DEF Record
<1>5. ASSUME NEW s \in Sessions, RecordDone(s) PROVE IInv'
  BY <1>5 DEF RecordDone
<1>6. ASSUME NEW s \in Sessions, PauseReader(s) PROVE IInv'
  BY <1>6 DEF PauseReader
<1>7. ASSUME NEW s \in Sessions, PausePublisher(s) PROVE IInv'
  BY <1>7 DEF PausePublisher
<1>8. ASSUME NEW s \in Sessions, PauseDone(s) PROVE IInv'
  BY <1>8 DEF PauseDone
<1>9. ASSUME NEW s \in Sessions, Setup(s) PROVE IInv'
  BY <1>9 DEF Setup
<1>10. ASSUME NEW s \in Sessions, AddReader(s) PROVE IInv'
  BY <1>10 DEF AddReader
<1>11. ASSUME NEW s \in Sessions, SetupDone(s) PROVE IInv'
  BY <1>11 DEF SetupDone
<1>12. ASSUME NEW s \in Sessions, Play(s) PROVE IInv'
  BY <1>12 DEF Play
<1>13. ASSUME NEW s \in Sessions, OpenSession(s) PROVE IInv'
  BY <1>13 DEF OpenSession
<1>14. ASSUME NEW s \in Sessions, ClientLeaves(s) PROVE IInv'
  BY <1>14 DEF ClientLeaves
<1>15. ASSUME NEW s \in Sessions, CallTerminated(s) PROVE IInv'
  BY <1>15 DEF CallTerminated
<1>16. ASSUME NEW s \in Sessions, onClose(s) PROVE IInv'
  BY <1>16 DEF onClose
<1>17. ASSUME NEW s \in Sessions, CloseDone(s) PROVE IInv'
  BY <1>17 DEF CloseDone
<1>18. ASSUME NEW s \in Sessions, doAddReader(s) PROVE IInv'
  BY <1>18 DEF doAddReader
<1>19. ASSUME NEW s \in Sessions, doRemoveReader(s) PROVE IInv'
  BY <1>19 DEF doRemoveReader
<1>20. ASSUME NEW s \in Sessions, doAddPublisher(s) PROVE IInv'
  <2>1. CASE source = None
    BY <1>20, <2>1 DEF doAddPublisher
  <2>2. CASE source # None /\ ~OverridePublisher
    BY <1>20, <2>2 DEF doAddPublisher
  <2>3. CASE source # None /\ OverridePublisher
    <3>1. /\ setNotReadyIfReady({source})
          /\ source' = s
          /\ pc[s] = "AnnouncePath"
          /\ pc' = [pc EXCEPT ![s] = "AnnounceReply"]
          /\ UNCHANGED <<phase, ctxDone, managerDone, configured, rstate, serverUp>>
      BY <1>20, <2>3 DEF doAddPublisher
    <3>2. StreamGone({source})
      BY <2>3, <3>1, StreamEnds
    <3>3. TypeOK'
      BY <2>3, <3>1, <3>2 DEF StreamGone
    <3>4. PcMatchesState'
      BY <2>3, <3>1, <3>2 DEF StreamGone
    <3>5. SlotInv'
      BY <2>3, <3>1, <3>2 DEF StreamGone
    <3>6. OwnerInv'
      BY <2>3, <3>1, <3>2 DEF StreamGone
    <3>7. ReaderInv'
      BY <2>3, <3>1, <3>2 DEF StreamGone
    <3> QED
      BY <3>3, <3>4, <3>5, <3>6, <3>7
  <2> QED
    BY <2>1, <2>2, <2>3
<1>21. ASSUME NEW s \in Sessions, doStartPublisher(s) PROVE IInv'
  <2>1. CASE source = s /\ ready'
    BY <1>21, <2>1 DEF doStartPublisher
  <2>2. CASE source = s /\ ~ready'
    <3>1. ~ready
      BY <1>21, <2>2 DEF doStartPublisher
    <3>2. UNCHANGED ready
      BY <1>21, <2>2, <3>1 DEF doStartPublisher
    <3> QED
      BY <1>21, <2>2, <3>2 DEF doStartPublisher
  <2>3. CASE source # s
    BY <1>21, <2>3 DEF doStartPublisher
  <2> QED
    BY <2>1, <2>2, <2>3
<1>22. ASSUME NEW s \in Sessions, doStopPublisher(s) PROVE IInv'
  <2>1. CASE source = s
    <3>1. /\ setNotReadyIfReady({})
          /\ source' = source
          /\ pc[s] = "PausePath"
          /\ pc' = [pc EXCEPT ![s] = "PauseReply"]
          /\ UNCHANGED <<phase, ctxDone, managerDone, configured, rstate, serverUp>>
      BY <1>22, <2>1 DEF doStopPublisher
    <3>2. StreamGone({})
      BY <3>1, StreamEnds
    <3>3. TypeOK'
      BY <2>1, <3>1, <3>2 DEF StreamGone
    <3>4. PcMatchesState'
      BY <2>1, <3>1, <3>2 DEF StreamGone
    <3>5. SlotInv'
      BY <2>1, <3>1, <3>2 DEF StreamGone
    <3>6. OwnerInv'
      BY <2>1, <3>1, <3>2 DEF StreamGone
    <3>7. ReaderInv'
      BY <2>1, <3>1, <3>2 DEF StreamGone
    <3> QED
      BY <3>3, <3>4, <3>5, <3>6, <3>7
  <2>2. CASE source # s
    <3>1. UNCHANGED <<ready, readers, closing, held>>
      BY <1>22, <2>2, NothingEnds DEF doStopPublisher
    <3> QED
      BY <1>22, <2>2, <3>1 DEF doStopPublisher
  <2> QED
    BY <2>1, <2>2
<1>23. ASSUME NEW s \in Sessions, doRemovePublisher(s) PROVE IInv'
  <2>1. CASE source = s
    <3>1. /\ setNotReadyIfReady({})
          /\ source' = None
          /\ pc[s] = "ClosePublisher"
          /\ pc' = [pc EXCEPT ![s] = "CloseReply"]
          /\ UNCHANGED <<phase, ctxDone, managerDone, configured, rstate, serverUp>>
      BY <1>23, <2>1 DEF doRemovePublisher
    <3>2. StreamGone({})
      BY <3>1, StreamEnds
    <3>3. TypeOK'
      BY <2>1, <3>1, <3>2 DEF StreamGone
    <3>4. PcMatchesState'
      BY <2>1, <3>1, <3>2 DEF StreamGone
    <3>5. SlotInv'
      BY <2>1, <3>1, <3>2 DEF StreamGone
    <3>6. OwnerInv'
      BY <2>1, <3>1, <3>2 DEF StreamGone
    <3>7. ReaderInv'
      BY <2>1, <3>1, <3>2 DEF StreamGone
    <3> QED
      BY <3>3, <3>4, <3>5, <3>6, <3>7
  <2>2. CASE source # s
    <3>1. UNCHANGED <<ready, readers, closing, held>>
      BY <1>23, <2>2, NothingEnds DEF doRemovePublisher
    <3> QED
      BY <1>23, <2>2, <3>1 DEF doRemovePublisher
  <2> QED
    BY <2>1, <2>2
<1>24. CASE AddPath
  BY <1>24 DEF AddPath
<1>25. CASE RemovePath
  BY <1>25 DEF RemovePath
<1>26. CASE CloseManager
  BY <1>26 DEF CloseManager
<1>27. CASE Terminate
  BY <1>27 DEF Terminate
<1>28. CASE CloseServer
  BY <1>28 DEF CloseServer
<1>29. CASE Destroy
  <2> DEFINE others == IF source = None THEN {} ELSE {source}
  <2>1. /\ phase' = "destroyed"
        /\ setNotReadyIfReady(others)
        /\ UNCHANGED <<ctxDone, managerDone, configured, source, pc, rstate, serverUp>>
    BY <1>29 DEF Destroy
  <2>2. others \in SUBSET Sessions
    OBVIOUS
  <2>3. source # None => source \in others
    OBVIOUS
  <2> HIDE DEF others
  <2>4. StreamGone(others)
    BY <2>1, <2>2, StreamEnds
  <2>5. TypeOK'
    BY <2>1, <2>3, <2>4 DEF StreamGone
  <2>6. PcMatchesState'
    BY <2>1, <2>3, <2>4 DEF StreamGone
  <2>7. SlotInv'
    BY <2>1, <2>3, <2>4 DEF StreamGone
  <2>8. OwnerInv'
    BY <2>1, <2>3, <2>4 DEF StreamGone
  <2>9. ReaderInv'
    BY <2>1, <2>3, <2>4 DEF StreamGone
  <2> QED
    BY <2>5, <2>6, <2>7, <2>8, <2>9
<1>30. CASE UNCHANGED vars
  BY <1>30 DEF vars
<1>31. CASE ReloadRemoves
  BY <1>31 DEF ReloadRemoves
<1> QED
  BY <1>1, <1>2, <1>3, <1>4, <1>5, <1>6, <1>7, <1>8, <1>9, <1>10, <1>11, <1>12, <1>13, <1>14, <1>15,
     <1>16, <1>17, <1>18, <1>19, <1>20, <1>21, <1>22, <1>23, <1>24, <1>25, <1>26, <1>27, <1>28, <1>29, <1>30, <1>31
  DEF Next, SessionStep, PathStep

\* The invariant holds in every reachable state.
THEOREM Invariance == Spec => []IInv
<1>1. Init => IInv
  BY Initially
<1>2. IInv /\ [Next]_vars => IInv'
  BY Inductive
<1> QED
  BY <1>1, <1>2, PTL DEF Spec

-----------------------------------------------------------------------------
(***************************************************************************)
(* The safety properties.                                                  *)
(***************************************************************************)

\* The variables keep their types, for any set of sessions.
THEOREM TypeCorrect == Spec => []TypeOK
<1>1. IInv => TypeOK
  BY DEF IInv
<1> QED
  BY <1>1, Invariance, PTL

\* Whoever holds the publisher slot has yet to give it back: no order of ANNOUNCE,
\* RECORD, PAUSE, TEARDOWN and take-over leaks the slot (session.go onClose).
THEOREM SlotIsNeverLeaked == Spec => []SlotNotLeaked
<1>1. IInv => SlotNotLeaked
  BY DEF IInv, SlotInv
<1> QED
  BY <1>1, Invariance, PTL

\* A stream has a publisher, and only a stream has readers (path.go setNotReady).
THEOREM StreamIsBacked == Spec => []StreamBacked
<1>1. IInv => StreamBacked
  BY DEF IInv, SlotInv
<1> QED
  BY <1>1, Invariance, PTL

\* A session that records owns the path's stream, or is being closed
\* (path.go doStartPublisher).
THEOREM RecorderOwnsStream == Spec => []RecordingOwnsStream
<1>1. IInv => RecordingOwnsStream
  BY DEF IInv, OwnerInv
<1> QED
  BY <1>1, Invariance, PTL

\* A stream is never started over another one: the holder of the slot that asks
\* for a stream cannot have one (path.go doStartPublisher).
THEOREM StreamNeverOverwritten == Spec => []NoStreamOverwritten
<1>1. IInv => NoStreamOverwritten
  BY DEF IInv, PcMatchesState, SlotInv, StreamHasRecorder, NoStreamOverwritten
<1> QED
  BY <1>1, Invariance, PTL

\* A reader is registered and has the present stream, or is being closed
\* (path.go setNotReady, session.go onSetup).
THEOREM ReadersAreServed == Spec => []ReaderServedOrClosing
<1>1. IInv => ReaderServedOrClosing
  BY DEF IInv, ReaderInv
<1> QED
  BY <1>1, Invariance, PTL

\* Only a SETUP that gortsplib failed leaves a reader behind (session.go onClose).
THEOREM ReadersLeakByFailedSetup == Spec => []ReaderLeaksOnlyFailedSetup
<1>1. IInv => ReaderLeaksOnlyFailedSetup
  BY DEF IInv, ReaderInv, ClosedReadersGone, ReaderLeaksOnlyFailedSetup
<1> QED
  BY <1>1, Invariance, PTL

-----------------------------------------------------------------------------
(***************************************************************************)
(* What a step may not do, and the refinement of PublisherSlot.            *)
(***************************************************************************)
slot == <<source, ready, readers>>

\* A session's own steps, between its calls of the path, leave the path alone.
LEMMA SessionsLeaveSlot ==
  ASSUME NEW s \in Sessions, SessionStep(s)
  PROVE  UNCHANGED slot
BY DEF slot, SessionStep, pathVars, Announce, AddPublisher, AnnounceDone, Record, RecordDone,
       PauseReader, PausePublisher, PauseDone, Setup, AddReader, SetupDone, Play,
       OpenSession, ClientLeaves, CallTerminated, onClose, CloseDone

\* So do the program's steps before the path ends.
LEMMA ProgramLeavesSlot ==
  ASSUME AddPath \/ RemovePath \/ ReloadRemoves \/ CloseManager \/ Terminate \/ CloseServer
  PROVE  UNCHANGED slot
BY DEF slot, pathVars, AddPath, RemovePath, ReloadRemoves, CloseManager, Terminate, CloseServer

\* A session that was replaced, or that paused, never ends another session's stream:
\* a stream ends by its own publisher's request, by a take-over or with the path.
StreamEndedByItsPublisher ==
  [][ready /\ ~ready' =>
       \/ pc[source] \in {"PausePath", "ClosePublisher"} /\ pc'[source] # pc[source]
       \/ OverridePublisher /\ source' \notin {source, None}
       \/ phase' = "destroyed"]_vars

\* A stream ends by a request of its own publisher, by a take-over or with the
\* path (path.go doStopPublisher, executeRemovePublisher, run).
THEOREM StreamIsEndedByItsPublisher == Spec => StreamEndedByItsPublisher
<1> DEFINE A == ready /\ ~ready' =>
                  \/ pc[source] \in {"PausePath", "ClosePublisher"} /\ pc'[source] # pc[source]
                  \/ OverridePublisher /\ source' \notin {source, None}
                  \/ phase' = "destroyed"
<1>1. ASSUME IInv, Next PROVE A
  <2> USE DEF IInv, TypeOK, SlotInv, Goto, PathServes
  <2>1. ASSUME NEW s \in Sessions, SessionStep(s) PROVE A
    BY <2>1, SessionsLeaveSlot DEF slot
  <2>2. ASSUME NEW s \in Sessions, doAddPublisher(s) PROVE A
    BY <2>2, <1>1, NoneIsNoSession DEF doAddPublisher, StreamHasRecorder
  <2>3. ASSUME NEW s \in Sessions, doStartPublisher(s) PROVE A
    BY <2>3, <1>1 DEF doStartPublisher, StreamHasRecorder
  <2>4. ASSUME NEW s \in Sessions, doStopPublisher(s) PROVE A
    <3>1. CASE source = s
      BY <2>4, <3>1, <1>1 DEF doStopPublisher
    <3>2. CASE source # s
      BY <2>4, <3>2, <1>1, NothingEnds DEF doStopPublisher
    <3> QED
      BY <3>1, <3>2
  <2>5. ASSUME NEW s \in Sessions, doRemovePublisher(s) PROVE A
    <3>1. CASE source = s
      BY <2>5, <3>1, <1>1 DEF doRemovePublisher
    <3>2. CASE source # s
      BY <2>5, <3>2, <1>1, NothingEnds DEF doRemovePublisher
    <3> QED
      BY <3>1, <3>2
  <2>6. ASSUME NEW s \in Sessions, doAddReader(s) \/ doRemoveReader(s) PROVE A
    BY <2>6 DEF doAddReader, doRemoveReader
  <2>7. CASE AddPath \/ RemovePath \/ ReloadRemoves \/ CloseManager \/ Terminate \/ CloseServer
    BY <2>7, ProgramLeavesSlot DEF slot
  <2>8. CASE Destroy
    BY <2>8 DEF Destroy
  <2> QED
    BY <1>1, <2>1, <2>2, <2>3, <2>4, <2>5, <2>6, <2>7, <2>8 DEF Next, PathStep
<1>2. IInv /\ [Next]_vars => [A]_vars
  BY <1>1
<1> QED
  BY <1>2, Invariance, PTL DEF Spec, StreamEndedByItsPublisher

\* No reader is dropped silently: it asked to go, or the step closes it
\* (path.go setNotReady, executeRemoveReader).
THEOREM DroppedReadersAreClosed == Spec => DroppedReaderIsClosed
<1>1. ASSUME IInv, Next PROVE DropsOnlyClosed
  <2> USE DEF DropsOnlyClosed, IInv, TypeOK, SlotInv, Goto, PathServes
  <2>1. ASSUME NEW s \in Sessions, SessionStep(s) PROVE DropsOnlyClosed
    BY <2>1, SessionsLeaveSlot DEF slot
  <2>2. ASSUME NEW s \in Sessions, doAddPublisher(s) PROVE DropsOnlyClosed
    <3>1. CASE setNotReadyIfReady({source}) /\ source # None
      BY <1>1, <3>1, StreamEnds DEF StreamGone
    <3>2. CASE UNCHANGED readers
      BY <3>2
    <3> QED
      BY <2>2, <3>1, <3>2 DEF doAddPublisher
  <2>3. ASSUME NEW s \in Sessions, doStartPublisher(s) \/ doAddReader(s) PROVE DropsOnlyClosed
    BY <2>3 DEF doStartPublisher, doAddReader
  <2>4. ASSUME NEW s \in Sessions, doStopPublisher(s) \/ doRemovePublisher(s) PROVE DropsOnlyClosed
    <3>1. CASE setNotReadyIfReady({})
      BY <1>1, <3>1, StreamEnds DEF StreamGone
    <3>2. CASE keepReady({})
      BY <1>1, <3>2, NothingEnds
    <3> QED
      BY <2>4, <3>1, <3>2 DEF doStopPublisher, doRemovePublisher
  <2>5. ASSUME NEW s \in Sessions, doRemoveReader(s) PROVE DropsOnlyClosed
    BY <2>5, <1>1 DEF doRemoveReader, PcMatchesState
  <2>6. CASE AddPath \/ RemovePath \/ ReloadRemoves \/ CloseManager \/ Terminate \/ CloseServer
    BY <2>6, ProgramLeavesSlot DEF slot
  <2>7. CASE Destroy
    <3> DEFINE others == IF source = None THEN {} ELSE {source}
    <3>1. setNotReadyIfReady(others)
      BY <2>7 DEF Destroy
    <3>2. others \in SUBSET Sessions
      BY <1>1
    <3> HIDE DEF others
    <3> QED
      BY <1>1, <3>1, <3>2, StreamEnds DEF StreamGone
  <2> QED
    BY <1>1, <2>1, <2>2, <2>3, <2>4, <2>5, <2>6, <2>7 DEF Next, PathStep
<1>2. IInv /\ [Next]_vars => [DropsOnlyClosed]_vars
  BY <1>1
<1> QED
  BY <1>2, Invariance, PTL DEF Spec, DroppedReaderIsClosed

\* Every handler of the path is one step of the abstract slot, or none: the slot
\* is claimed, taken over or released, the stream starts or ends, a reader joins
\* or leaves.
LEMMA HandlerRefines ==
  ASSUME IInv, NEW s \in Sessions, PathStep(s)
  PROVE  [Slot!Next]_slot
<1> USE DEF slot, Goto, PathServes
<1>1. CASE doAddPublisher(s)
  <2>1. CASE source = None
    <3>1. Slot!Claim(s)
      BY <1>1, <2>1 DEF doAddPublisher, Slot!Claim
    <3> QED
      BY <3>1 DEF Slot!Next
  <2>2. CASE source # None /\ ~OverridePublisher
    BY <1>1, <2>2 DEF doAddPublisher
  <2>3. CASE source # None /\ OverridePublisher
    <3>1. setNotReadyIfReady({source}) /\ source' = s
      BY <1>1, <2>3 DEF doAddPublisher
    <3>2. StreamGone({source})
      BY <2>3, <3>1, StreamEnds DEF IInv, SlotInv, TypeOK
    <3>3. Slot!TakeOver(s)
      BY <2>3, <3>1, <3>2 DEF StreamGone, Slot!TakeOver
    <3> QED
      BY <3>3 DEF Slot!Next
  <2> QED
    BY <2>1, <2>2, <2>3
<1>2. CASE doStartPublisher(s)
  <2>1. CASE source = s
    <3>1. ~ready /\ source # None
      BY <1>2, <2>1, NoneIsNoSession
      DEF doStartPublisher, IInv, PcMatchesState, SlotInv, StreamHasRecorder
    <3>2. Slot!Start \/ UNCHANGED slot
      BY <1>2, <2>1, <3>1 DEF doStartPublisher, Slot!Start, IInv, TypeOK
    <3> QED
      BY <3>2 DEF Slot!Next
  <2>2. CASE source # s
    BY <1>2, <2>2 DEF doStartPublisher
  <2> QED
    BY <2>1, <2>2
<1>3. CASE doStopPublisher(s)
  <2>1. CASE source = s
    <3>1. StreamGone({}) /\ source' = source
      BY <1>3, <2>1, StreamEnds DEF doStopPublisher, IInv, SlotInv
    <3>2. Slot!End \/ UNCHANGED slot
      BY <3>1 DEF StreamGone, Slot!End, IInv, TypeOK, SlotInv, StreamBacked
    <3> QED
      BY <3>2 DEF Slot!Next
  <2>2. CASE source # s
    BY <1>3, <2>2, NothingEnds DEF doStopPublisher, IInv
  <2> QED
    BY <2>1, <2>2
<1>4. CASE doAddReader(s)
  <2>1. CASE ready
    <3>1. s # source
      BY <1>4, <2>1 DEF doAddReader, IInv, SlotInv, StreamHasRecorder
    <3>2. Slot!Join(s)
      BY <1>4, <2>1, <3>1 DEF doAddReader, Slot!Join
    <3> QED
      BY <3>2 DEF Slot!Next
  <2>2. CASE ~ready
    BY <1>4, <2>2 DEF doAddReader
  <2> QED
    BY <2>1, <2>2
<1>5. CASE doRemoveReader(s)
  <2>1. Slot!Leave(s) \/ UNCHANGED slot
    BY <1>5 DEF doRemoveReader, Slot!Leave, IInv, TypeOK
  <2> QED
    BY <2>1 DEF Slot!Next
<1>6. CASE doRemovePublisher(s)
  <2>1. CASE source = s
    <3>1. StreamGone({}) /\ source' = None /\ source # None
      BY <1>6, <2>1, StreamEnds, NoneIsNoSession DEF doRemovePublisher, IInv, SlotInv
    <3>2. Slot!Release
      BY <3>1 DEF StreamGone, Slot!Release
    <3> QED
      BY <3>2 DEF Slot!Next
  <2>2. CASE source # s
    BY <1>6, <2>2, NothingEnds DEF doRemovePublisher, IInv
  <2> QED
    BY <2>1, <2>2
<1> QED
  BY <1>1, <1>2, <1>3, <1>4, <1>5, <1>6 DEF PathStep

\* The end of the path ends the stream, which is a step of the slot too.
LEMMA DestroyRefines ==
  ASSUME IInv, Destroy
  PROVE  [Slot!Next]_slot
<1> DEFINE others == IF source = None THEN {} ELSE {source}
<1>1. setNotReadyIfReady(others) /\ source' = source
  BY DEF Destroy
<1>2. others \in SUBSET Sessions
  BY DEF IInv, TypeOK
<1> HIDE DEF others
<1>3. StreamGone(others)
  BY <1>1, <1>2, StreamEnds DEF IInv, SlotInv
<1>4. Slot!End \/ UNCHANGED slot
  BY <1>1, <1>3 DEF StreamGone, Slot!End, slot, IInv, TypeOK, SlotInv, StreamBacked
<1> QED
  BY <1>4 DEF Slot!Next

\* The path implements the publisher slot: seen from its sessions, path.go is
\* PublisherSlot, whatever the sessions do and whenever they go away.
THEOREM PathImplementsSlot == Spec => ImplementsSlot
<1>1. Init => Slot!Init
  BY DEF Init, Slot!Init
<1>2. IInv /\ [Next]_vars => [Slot!Next]_slot
  <2> SUFFICES ASSUME IInv, [Next]_vars PROVE [Slot!Next]_slot
    OBVIOUS
  <2>1. ASSUME NEW s \in Sessions, SessionStep(s) PROVE [Slot!Next]_slot
    BY <2>1, SessionsLeaveSlot
  <2>2. ASSUME NEW s \in Sessions, PathStep(s) PROVE [Slot!Next]_slot
    BY <2>2, HandlerRefines
  <2>3. CASE AddPath \/ RemovePath \/ ReloadRemoves \/ CloseManager \/ Terminate \/ CloseServer
    BY <2>3, ProgramLeavesSlot
  <2>4. CASE Destroy
    BY <2>4, DestroyRefines
  <2>5. CASE UNCHANGED vars
    BY <2>5 DEF vars, slot
  <2> QED
    BY <2>1, <2>2, <2>3, <2>4, <2>5 DEF Next
<1>3. [Slot!Next]_slot => [Slot!Next]_(Slot!slotVars)
  BY DEF slot, Slot!slotVars
<1> QED
  BY <1>1, <1>2, <1>3, Invariance, PTL DEF Spec, ImplementsSlot, Slot!Spec
=============================================================================
