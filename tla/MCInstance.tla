----------------------------- MODULE MCInstance -----------------------------
(***************************************************************************)
(* Instance.tla and InstanceClients.tla for TLC, under restrictions of the *)
(* environment that README.md explains.                                    *)
(***************************************************************************)
EXTENDS InstanceClients

\* An ffmpeg that has just started lives until its transcoder is stored and its
\* goroutine run is scheduled.
StartedLives ==
  \A p \in Procs :
    alive[p] /\ (runDue[p] \/ \E a \in Actors : made[a] = p) => alive'[p]

\* A reload that has begun is held up by edits of the map it walks over alone.
ReloadGoesOn == reload # "no" => <<reload, walk, pathConfs>>' # <<reload, walk, pathConfs>>

\* Nothing is claimed once the instance stops.
UpNext ==
  /\ ClientNext
  /\ ~ctxDone /\ http = "up"
  /\ TickerIsSlow /\ StartedLives /\ ReloadGoesOn

UpSpec == ClientInit /\ [][UpNext]_clientVars /\ Fairness
=============================================================================
