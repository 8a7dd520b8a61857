--------------------------- MODULE TranscoderProofs ---------------------------
(***************************************************************************)
(* The safety of a transcoder for any number of calls of Stop.             *)
(***************************************************************************)
EXTENDS Transcoder, TLAPS

\* The context is set before the waiter, the watcher and Stop can begin.
OrderInv ==
  /\ ctx = "nil" <=> starter \in {"idle", "run", "context", "failed"}
  /\ starter \in {"idle", "run", "context", "failed", "waiter"} => waiter = "none"
  /\ starter # "returned" => ~released /\ \A c \in Stoppers : stop[c] = "idle"
  /\ starter \in {"idle", "failed"} => proc = "none" /\ runner = "none"

\* A Stop that is past its store has ended running for good.
StoppedInv ==
  /\ \A c \in Stoppers : stop[c] \in {"cancel", "release", "kill"} => ~running
  /\ released => ~running

\* Wait has returned, or run has given up, only a process that was collected or let
\* go.
GivenUpInv ==
  /\ waiter \in {"record", "cancel", "done"} => released \/ proc = "reaped"
  /\ runner = "cancel" => ~Reachable
  /\ proc = "reaped" => waiter \in {"record", "cancel", "done"}

IInv == TypeOK /\ OrderInv /\ StoppedInv /\ GivenUpInv /\ CancelledForAReason

\* A transcoder that was not started.
LEMMA Initially == Init => IInv
BY DEF Init, IInv, TypeOK, OrderInv, StoppedInv, GivenUpInv, CancelledForAReason, Reachable

\* Every step of Start keeps the invariant.
LEMMA StartSteps == ASSUME IInv, StartStep PROVE IInv'
<1> USE DEF IInv, TypeOK, OrderInv, StoppedInv, GivenUpInv, CancelledForAReason, Reachable
<1>1. CASE StartFFmpeg
  BY <1>1 DEF StartFFmpeg
<1>2. CASE SpawnRun
  BY <1>2 DEF SpawnRun
<1>3. CASE SetContext
  BY <1>3 DEF SetContext
<1>4. CASE SpawnWaiter
  BY <1>4 DEF SpawnWaiter
<1>5. CASE SpawnWatcher
  BY <1>5 DEF SpawnWatcher
<1> QED
  BY <1>1, <1>2, <1>3, <1>4, <1>5 DEF StartStep

\* Every step of run keeps the invariant.
LEMMA RunSteps == ASSUME IInv, RunStep PROVE IInv'
<1> USE DEF IInv, TypeOK, OrderInv, StoppedInv, GivenUpInv, CancelledForAReason, Reachable
<1>1. CASE RunBegins
  BY <1>1 DEF RunBegins
<1>2. CASE RunLoop
  BY <1>2 DEF RunLoop
<1>3. CASE RunReadsEnd
  BY <1>3 DEF RunReadsEnd
<1>4. CASE RunProbes
  BY <1>4 DEF RunProbes
<1>5. CASE RunCancels
  BY <1>5 DEF RunCancels
<1> QED
  BY <1>1, <1>2, <1>3, <1>4, <1>5 DEF RunStep

\* Every step of the waiter keeps the invariant.
LEMMA WaitSteps == ASSUME IInv, WaitStep PROVE IInv'
<1> USE DEF IInv, TypeOK, OrderInv, StoppedInv, GivenUpInv, CancelledForAReason, Reachable
<1>1. CASE WaitBegins
  BY <1>1 DEF WaitBegins
<1>2. CASE WaitReturns
  BY <1>2 DEF WaitReturns
<1>3. CASE WaitRecords
  BY <1>3 DEF WaitRecords
<1>4. CASE WaitCancels
  BY <1>4 DEF WaitCancels
<1> QED
  BY <1>1, <1>2, <1>3, <1>4 DEF WaitStep

\* Every step of a Stop that was called keeps the invariant.
LEMMA StopSteps == ASSUME IInv, NEW c \in Stoppers, StopStep(c) PROVE IInv'
<1> USE DEF IInv, TypeOK, OrderInv, StoppedInv, GivenUpInv, CancelledForAReason, Reachable
<1>1. CASE StopLoads(c)
  BY <1>1 DEF StopLoads
<1>2. CASE StopStores(c)
  <2>1. ~running' /\ UNCHANGED <<starter, status, ctx, parent, proc, released, runner, waiter>>
    BY <1>2 DEF StopStores
  <2>2. stop' = [stop EXCEPT ![c] = "cancel"] /\ starter = "returned" /\ running' \in BOOLEAN
    BY <1>2 DEF StopStores
  <2>3. TypeOK'
    BY <2>1, <2>2
  <2>4. (OrderInv /\ StoppedInv)'
    BY <2>1, <2>2
  <2>5. (GivenUpInv /\ CancelledForAReason)'
    BY <2>1
  <2> QED
    BY <2>3, <2>4, <2>5
<1>3. CASE StopCancels(c)
  BY <1>3 DEF StopCancels
<1>4. CASE StopReleases(c)
  BY <1>4 DEF StopReleases
<1>5. CASE StopKills(c)
  BY <1>5 DEF StopKills
<1> QED
  BY <1>1, <1>2, <1>3, <1>4, <1>5 DEF StopStep

\* The inductive invariant of the transcoder's goroutines.
THEOREM Invariant == Spec => []IInv
<1>1. IInv /\ [Next]_vars => IInv'
  <2> SUFFICES ASSUME IInv, [Next]_vars PROVE IInv'
    OBVIOUS
  <2> USE DEF IInv, TypeOK, OrderInv, StoppedInv, GivenUpInv, CancelledForAReason, Reachable
  <2>1. CASE FFmpegEnds
    BY <2>1 DEF FFmpegEnds
  <2>2. CASE ParentCancels
    BY <2>2 DEF ParentCancels
  <2>3. CASE RunReadsLine
    BY <2>3 DEF RunReadsLine
  <2>4. CASE \E c \in Stoppers : StopCalled(c)
    BY <2>4 DEF StopCalled
  <2>5. CASE UNCHANGED vars
    BY <2>5 DEF vars
  <2> QED
    BY <2>1, <2>2, <2>3, <2>4, <2>5, StartSteps, RunSteps, WaitSteps, StopSteps DEF Next
<1> QED
  BY <1>1, Initially, PTL DEF Spec

\* Type correctness.
THEOREM TypeCorrect == Spec => []TypeOK
<1>1. IInv => TypeOK
  BY DEF IInv
<1> QED
  BY <1>1, Invariant, PTL

\* Nobody cancels a context that is not set.
THEOREM ContextIsSetInTime == Spec => []CancelAfterContext
<1>1. IInv => CancelAfterContext
  BY DEF IInv, TypeOK, OrderInv, GivenUpInv, CancelAfterContext, Reachable
<1> QED
  BY <1>1, Invariant, PTL

\* A transcoder gives its ffmpeg up only when it was told to or has collected it.
THEOREM LivingProcessIsKept == Spec => []CancelledForAReason
<1>1. IInv => CancelledForAReason
  BY DEF IInv
<1> QED
  BY <1>1, Invariant, PTL
=============================================================================
