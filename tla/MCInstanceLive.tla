--------------------------- MODULE MCInstanceLive ---------------------------
(***************************************************************************)
(* Instance.tla for TLC's run about requests and shutdown.                 *)
(***************************************************************************)
EXTENDS Instance

\* A reload that has begun is held up only by edits of the map that change what it has yet
\* to come to, ffmpeg ends only between operations, Transcoder.run is scheduled at once, and
\* the HTTP server does not panic, since its failure ends the instance in the same way with
\* requests under way.
SteadyNext ==
  /\ Next
  /\ TickerIsSlow
  /\ reload # "no" => reload' # reload \/ walk' # walk
  /\ \A p \in Procs : alive[p] => alive'[p] \/ \A a \in Actors : pc[a] = "idle"
  /\ (\E p \in Procs : runDue[p] /\ ~Unused(p)) => \E p \in Procs : runDue[p] /\ ~runDue'[p]
  /\ http' = "done" => http = "done" \/ stage' = "stopping"

SteadySpec == Init /\ [][SteadyNext]_vars /\ Fairness
=============================================================================
