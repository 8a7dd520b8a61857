----------------------------- MODULE Transcoder -----------------------------
(***************************************************************************)
(* One Transcoder (transcoder.go) from Start to the end of its ffmpeg: the *)
(* goroutine that calls Start, the three goroutines it leaves behind (run, *)
(* which reads stderr; the waiter, in cmd.Wait; the watcher, which waits   *)
(* for the context) and the calls of Stop that Instance makes.             *)
(*                                                                         *)
(* os/exec is not part of the repository.  What is modelled of it: Wait    *)
(* blocks until the process ends and reaps it, or fails at once on a       *)
(* process that was released; Signal and Kill fail on a process that was   *)
(* released or reaped and reach one that is a zombie; stderr ends when the *)
(* process does or Wait has closed it.                                     *)
(***************************************************************************)
CONSTANTS
  Callers,   \* calls of Stop by AddUnit, RemoveUnit and Instance.Stop
  Watcher    \* the goroutine that calls Stop when the context is done

ASSUME WatcherIsNoCaller == Watcher \notin Callers

VARIABLES
  starter,   \* where Start is
  running,   \* Transcoder.running
  status,    \* Transcoder.status
  ctx,       \* Transcoder.ctx: "nil" until Start sets it, then "live", "done"
  parent,    \* the instance's context is done
  proc,      \* ffmpeg: "none", "alive", "zombie", "reaped"
  released,  \* Process.Release was called
  runner,    \* where the goroutine run is
  waiter,    \* where the goroutine in cmd.Wait is
  stop       \* where each call of Stop is

vars == <<starter, running, status, ctx, parent, proc, released, runner, waiter, stop>>

Stoppers == Callers \cup {Watcher}

TypeOK ==
  /\ starter \in {"idle", "run", "context", "waiter", "watcher", "returned", "failed"}
  /\ running \in BOOLEAN
  /\ status \in {"stopped", "ok", "error"}
  /\ ctx \in {"nil", "live", "done"}
  /\ parent \in BOOLEAN
  /\ proc \in {"none", "alive", "zombie", "reaped"}
  /\ released \in BOOLEAN
  /\ runner \in {"none", "due", "loop", "read", "probe", "cancel", "done"}
  /\ waiter \in {"none", "due", "waiting", "record", "cancel", "done"}
  /\ stop \in [Stoppers -> {"idle", "load", "store", "cancel", "release", "kill", "done"}]

Init ==
  /\ starter = "idle"
  /\ running = FALSE
  /\ status = "stopped"
  /\ ctx = "nil"
  /\ parent = FALSE
  /\ proc = "none"
  /\ released = FALSE
  /\ runner = "none"
  /\ waiter = "none"
  /\ stop = [c \in Stoppers |-> "idle"]

-----------------------------------------------------------------------------
(***************************************************************************)
(* Start.                                                                  *)
(***************************************************************************)
StartFFmpeg ==
  /\ starter = "idle"
  /\ \/ proc' = "alive" /\ running' = TRUE /\ starter' = "run" /\ UNCHANGED status
     \/ status' = "error" /\ starter' = "failed" /\ UNCHANGED <<proc, running>>
  /\ UNCHANGED <<ctx, parent, released, runner, waiter, stop>>

\* Start that spawns the waiter before the context is there.
SpawnRunAndWaiter ==
  /\ starter = "run"
  /\ starter' = "context"
  /\ runner' = "due"
  /\ waiter' = "due"
  /\ UNCHANGED <<running, status, ctx, parent, proc, released, stop>>

\* go t.run(), one line before the context that run may have to cancel exists.
SpawnRun ==
  /\ starter = "run"
  /\ starter' = "context"
  /\ runner' = "due"
  /\ UNCHANGED <<running, status, ctx, parent, proc, released, waiter, stop>>

SetContext ==
  /\ starter = "context"
  /\ starter' = "waiter"
  /\ ctx' = IF parent THEN "done" ELSE "live"
  /\ UNCHANGED <<running, status, parent, proc, released, runner, waiter, stop>>

SpawnWaiter ==
  /\ starter = "waiter"
  /\ starter' = "watcher"
  /\ waiter' = "due"
  /\ UNCHANGED <<running, status, ctx, parent, proc, released, runner, stop>>

SpawnWatcher ==
  /\ starter = "watcher"
  /\ starter' = "returned"
  /\ UNCHANGED <<running, status, ctx, parent, proc, released, runner, waiter, stop>>

-----------------------------------------------------------------------------
(***************************************************************************)
(* ffmpeg and the contexts.                                                *)
(***************************************************************************)
FFmpegEnds ==
  /\ proc = "alive"
  /\ proc' = "zombie"
  /\ UNCHANGED <<starter, running, status, ctx, parent, released, runner, waiter, stop>>

\* A context that is not derived from the instance's.
ParentCancelsNobody ==
  /\ ~parent
  /\ parent' = TRUE
  /\ UNCHANGED <<starter, running, status, ctx, proc, released, runner, waiter, stop>>

ParentCancels ==
  /\ ~parent
  /\ parent' = TRUE
  /\ ctx' = IF ctx = "live" THEN "done" ELSE ctx
  /\ UNCHANGED <<starter, running, status, proc, released, runner, waiter, stop>>

-----------------------------------------------------------------------------
(***************************************************************************)
(* run.                                                                    *)
(***************************************************************************)
RunBegins ==
  /\ runner = "due"
  /\ status' = "ok"
  /\ runner' = "loop"
  /\ UNCHANGED <<starter, running, ctx, parent, proc, released, waiter, stop>>

RunLoop ==
  /\ runner = "loop"
  /\ runner' = IF running THEN "read" ELSE "done"
  /\ UNCHANGED <<starter, running, status, ctx, parent, proc, released, waiter, stop>>

\* cmd.Wait closes stderr before it returns.
StderrEnded == proc # "alive" \/ waiter \in {"record", "cancel", "done"}

\* ReadLine returns a line of ffmpeg's, if it writes one, or the end of stderr.
RunReadsLine ==
  /\ runner = "read"
  /\ ~StderrEnded
  /\ runner' = "loop"
  /\ UNCHANGED <<starter, running, status, ctx, parent, proc, released, waiter, stop>>

RunReadsEnd ==
  /\ runner = "read"
  /\ StderrEnded
  /\ runner' = "probe"
  /\ UNCHANGED <<starter, running, status, ctx, parent, proc, released, waiter, stop>>

\* Can a signal still be sent to the process?
Reachable == ~released /\ proc # "reaped"

\* run that gives the transcoder up at the end of stderr, without the probe.
RunProbesNothing ==
  /\ runner = "probe"
  /\ runner' = "cancel"
  /\ UNCHANGED <<starter, running, status, ctx, parent, proc, released, waiter, stop>>

\* Signal(0).
RunProbes ==
  /\ runner = "probe"
  /\ runner' = IF Reachable THEN "loop" ELSE "cancel"
  /\ UNCHANGED <<starter, running, status, ctx, parent, proc, released, waiter, stop>>

RunCancels ==
  /\ runner = "cancel"
  /\ ctx' = "done"
  /\ runner' = "done"
  /\ UNCHANGED <<starter, running, status, parent, proc, released, waiter, stop>>

-----------------------------------------------------------------------------
(***************************************************************************)
(* The goroutine in cmd.Wait.                                              *)
(***************************************************************************)
WaitBegins ==
  /\ waiter = "due"
  /\ waiter' = IF released THEN "record" ELSE "waiting"
  /\ UNCHANGED <<starter, running, status, ctx, parent, proc, released, runner, stop>>

WaitReturns ==
  /\ waiter = "waiting"
  /\ proc = "zombie"
  /\ proc' = "reaped"
  /\ waiter' = "record"
  /\ UNCHANGED <<starter, running, status, ctx, parent, released, runner, stop>>

WaitRecords ==
  /\ waiter = "record"
  /\ status' \in {"stopped", "error"}
  /\ waiter' = "cancel"
  /\ UNCHANGED <<starter, running, ctx, parent, proc, released, runner, stop>>

WaitCancels ==
  /\ waiter = "cancel"
  /\ ctx' = "done"
  /\ waiter' = "done"
  /\ UNCHANGED <<starter, running, status, parent, proc, released, runner, stop>>

-----------------------------------------------------------------------------
(***************************************************************************)
(* Stop, by the watcher and by the instance, which has the transcoder once *)
(* Start has returned.  running is loaded and stored in two steps.         *)
(***************************************************************************)
\* The watcher that waits for the context Start was given.
StopCalledByParent(c) ==
  /\ stop[c] = "idle"
  /\ starter = "returned"
  /\ c = Watcher => parent
  /\ stop' = [stop EXCEPT ![c] = "load"]
  /\ UNCHANGED <<starter, running, status, ctx, parent, proc, released, runner, waiter>>

StopCalled(c) ==
  /\ stop[c] = "idle"
  /\ starter = "returned"
  /\ c = Watcher => ctx = "done"
  /\ stop' = [stop EXCEPT ![c] = "load"]
  /\ UNCHANGED <<starter, running, status, ctx, parent, proc, released, runner, waiter>>

StopLoads(c) ==
  /\ stop[c] = "load"
  /\ stop' = [stop EXCEPT ![c] = IF running THEN "store" ELSE "done"]
  /\ UNCHANGED <<starter, running, status, ctx, parent, proc, released, runner, waiter>>

StopStores(c) ==
  /\ stop[c] = "store"
  /\ running' = FALSE
  /\ stop' = [stop EXCEPT ![c] = "cancel"]
  /\ UNCHANGED <<starter, status, ctx, parent, proc, released, runner, waiter>>

StopCancels(c) ==
  /\ stop[c] = "cancel"
  /\ ctx' = "done"
  /\ stop' = [stop EXCEPT ![c] = "release"]
  /\ UNCHANGED <<starter, running, status, parent, proc, released, runner, waiter>>

StopReleases(c) ==
  /\ stop[c] = "release"
  /\ released' = TRUE
  /\ stop' = [stop EXCEPT ![c] = "kill"]
  /\ UNCHANGED <<starter, running, status, ctx, parent, proc, runner, waiter>>

StopKills(c) ==
  /\ stop[c] = "kill"
  /\ proc' = IF Reachable /\ proc = "alive" THEN "zombie" ELSE proc
  /\ stop' = [stop EXCEPT ![c] = "done"]
  /\ UNCHANGED <<starter, running, status, ctx, parent, released, runner, waiter>>

-----------------------------------------------------------------------------
StartStep == StartFFmpeg \/ SpawnRun \/ SetContext \/ SpawnWaiter \/ SpawnWatcher

\* run, except that nothing makes ffmpeg write a line.
RunStep == RunBegins \/ RunLoop \/ RunReadsEnd \/ RunProbes \/ RunCancels

WaitStep == WaitBegins \/ WaitReturns \/ WaitRecords \/ WaitCancels

StopStep(c) ==
  StopLoads(c) \/ StopStores(c) \/ StopCancels(c) \/ StopReleases(c) \/ StopKills(c)

Next ==
  \/ StartStep
  \/ FFmpegEnds \/ ParentCancels
  \/ RunStep \/ RunReadsLine
  \/ WaitStep
  \/ \E c \in Stoppers : StopCalled(c) \/ StopStep(c)

Spec == Init /\ [][Next]_vars

(***************************************************************************)
(* Fairness: goroutines that can move do.  ffmpeg need not write, nor end. *)
(***************************************************************************)
Fairness ==
  /\ WF_vars(StartStep)
  /\ WF_vars(RunStep)
  /\ WF_vars(WaitStep)
  /\ WF_vars(StopCalled(Watcher))
  /\ \A c \in Stoppers : WF_vars(StopStep(c))

FairSpec == Spec /\ Fairness

-----------------------------------------------------------------------------
\* No goroutine calls the cancel function before Start has set it, although run
\* is started first: it has a reason to cancel only when the process was reaped
\* or released, and nobody does either before the context is there
\* (transcoder.go Start, run).
CancelAfterContext ==
  ctx = "nil" =>
    /\ runner # "cancel"
    /\ waiter # "cancel"
    /\ \A c \in Stoppers : stop[c] # "cancel"

\* A transcoder does not give up an ffmpeg that lives, or whose exit has not been
\* collected yet: until then its context is cancelled only by Stop or by the
\* instance, however run finds the end of stderr (transcoder.go run).
CancelledForAReason ==
  ctx = "done" /\ proc \in {"alive", "zombie"} => parent \/ ~running

\* When ffmpeg ends, whatever the transcoder is doing, it is stopped and its
\* goroutines are gone.
ExitCollected ==
  proc = "zombie" ~> /\ ~running
                     /\ starter = "returned"
                     /\ runner = "done" /\ waiter = "done" /\ stop[Watcher] = "done"

\* When the instance's context is done, a transcoder that was started stops,
\* even if the instance is cancelled while Start is under way.
ParentCancelStops == parent /\ proc # "none" ~> ~running /\ ctx = "done"

\* A transcoder that was stopped does not leave its ffmpeg behind.
StopEndsProcess == \A c \in Callers : stop[c] = "kill" ~> proc # "alive"
=============================================================================
