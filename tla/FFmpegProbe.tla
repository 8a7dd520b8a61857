----------------------------- MODULE FFmpegProbe -----------------------------
(***************************************************************************)
(* testRunFFMpeg (cmd/main.go): the start of the program runs              *)
(* "ffmpeg -version" and waits for it, meaning to give up after five       *)
(* seconds.  Three goroutines share a channel with room for one result:    *)
(* the function itself, which receives its answer from it; the waiter,     *)
(* which sends what cmd.Wait returned; and the guard, whose select         *)
(* evaluates the operand <-startRes of its send before it waits for        *)
(* anything.                                                               *)
(***************************************************************************)
EXTENDS Sequences

CONSTANTS None   \* no result

VARIABLES
  child,      \* the process: "running", "exited"
  startRes,   \* the channel's buffer, of "ok", "failed" and "timeout"
  timer,      \* "set", "fired", "taken", "stopped"
  waiter,     \* "wait", "send", "done"
  guard,      \* "operand", "select", "timeout", "done"
  taken,      \* the result the guard has in hand
  answer      \* what testRunFFMpeg returned

vars == <<child, startRes, timer, waiter, guard, taken, answer>>

Init ==
  /\ child = "running"
  /\ startRes = <<>>
  /\ timer = "set"
  /\ waiter = "wait"
  /\ guard = "operand"
  /\ taken = None
  /\ answer = None

ChildExits ==
  /\ child = "running"
  /\ child' = "exited"
  /\ UNCHANGED <<startRes, timer, waiter, guard, taken, answer>>

TimerFires ==
  /\ timer = "set"
  /\ timer' = "fired"
  /\ UNCHANGED <<child, startRes, waiter, guard, taken, answer>>

\* cmd.Wait returns, and its result goes into the channel.
WaitReturns ==
  /\ waiter = "wait"
  /\ child = "exited"
  /\ waiter' = "send"
  /\ UNCHANGED <<child, startRes, timer, guard, taken, answer>>

WaitSends ==
  /\ waiter = "send"
  /\ startRes = <<>>
  /\ \E r \in {"ok", "failed"} : startRes' = <<r>>
  /\ waiter' = "done"
  /\ UNCHANGED <<child, timer, guard, taken, answer>>

\* The guard receives the operand of its send ...
GuardOperand ==
  /\ guard = "operand"
  /\ startRes # <<>>
  /\ taken' = Head(startRes)
  /\ startRes' = <<>>
  /\ guard' = "select"
  /\ UNCHANGED <<child, timer, waiter, answer>>

\* ... and only then selects between sending it back, which stops the timer, and the timer.
GuardSendsBack ==
  /\ guard = "select"
  /\ startRes = <<>>
  /\ startRes' = <<taken>>
  /\ timer' = IF timer = "set" THEN "stopped" ELSE timer
  /\ guard' = "done"
  /\ UNCHANGED <<child, waiter, taken, answer>>

GuardTimesOut ==
  /\ guard = "select"
  /\ timer = "fired"
  /\ timer' = "taken"
  /\ guard' = "timeout"
  /\ UNCHANGED <<child, startRes, waiter, taken, answer>>

\* The timeout is sent, and the process killed.
GuardSendsTimeout ==
  /\ guard = "timeout"
  /\ startRes = <<>>
  /\ startRes' = <<"timeout">>
  /\ child' = "exited"
  /\ guard' = "done"
  /\ UNCHANGED <<timer, waiter, taken, answer>>

Return ==
  /\ answer = None
  /\ startRes # <<>>
  /\ answer' = Head(startRes)
  /\ startRes' = <<>>
  /\ UNCHANGED <<child, timer, waiter, guard, taken>>

Guard == GuardOperand \/ GuardSendsBack \/ GuardTimesOut \/ GuardSendsTimeout

Next == ChildExits \/ TimerFires \/ WaitReturns \/ WaitSends \/ Guard \/ Return

(***************************************************************************)
(* Fairness: the goroutines move and the timer fires.  A child may hang.   *)
(***************************************************************************)
Spec ==
  /\ Init /\ [][Next]_vars
  /\ WF_vars(TimerFires) /\ WF_vars(WaitReturns) /\ WF_vars(WaitSends)
  /\ WF_vars(Guard) /\ WF_vars(Return)

\* The program's start does not hang on an ffmpeg that hangs: after the timeout
\* testRunFFMpeg returns.
ProbeReturns == timer = "fired" ~> answer # None
=============================================================================
