--------------------------- MODULE InstanceClients ---------------------------
(***************************************************************************)
(* The control plane (Instance.tla) as its clients see it: what the        *)
(* answers of the API have promised, next to what the instance does.       *)
(*                                                                         *)
(* Nothing serializes the operations, and two of them on one unit can      *)
(* leave it in pieces.  The history variables tell where that may have     *)
(* happened, so that the rest can be held to its promise however the       *)
(* operations overlap.                                                     *)
(***************************************************************************)
EXTENDS Instance

VARIABLES
  wanted,      \* units created and not stopped, by the answers so far, but for those of
               \* which the log says that their restart failed to start ffmpeg
  startedFor,  \* the unit each transcoder was started for
  contested    \* units that two actors worked on at once, until nothing is left of them

clientVars == <<vars, wanted, startedFor, contested>>

Granted(step) == {arg[c] : c \in {k \in Clients : pc[k] = step /\ pc'[k] = "idle"}}

GivenUp == {i \in Ids : /\ pc[Watchdog] = "addStart" /\ pc'[Watchdog] = "scan"
                        /\ arg[Watchdog] = i}

\* POST /create adds the unit it answers for; POST /{id}/stop takes it away.
Promise == wanted' = (wanted \cup Granted("addStore")) \ (Granted("remDelete") \cup GivenUp)

Starters(p) == {a \in Actors : made[a] = None /\ made'[a] = p}

Note ==
  startedFor' = [p \in Procs |-> IF Starters(p) = {} THEN startedFor[p]
                                 ELSE arg[CHOOSE a \in Starters(p) : TRUE]]

\* An actor that has found its unit as it should be, and changes it now.  The watchdog
\* goes on whatever RemoveUnit finds.
Engaged(a, i) ==
  /\ arg[a] = i
  /\ pc[a] \notin {"idle", "exited", "scan"}
  /\ a \in Clients => pc[a] \notin {"addCheck", "addPath", "remCheck"}

Clash(i) == \E a, b \in Actors : a # b /\ Engaged(a, i) /\ Engaged(b, i)

\* Nothing is left of a unit.
Clean(i) ==
  /\ i \notin units \cup pathConfs \cup wanted
  /\ \A a \in Actors : ~Engaged(a, i)
  /\ \A p \in Procs : running[p] => startedFor[p] # i

Contest == contested' = {i \in Ids : Clash(i)' \/ (i \in contested /\ ~Clean(i)')}

ClientInit ==
  /\ Init
  /\ wanted = {}
  /\ startedFor = [p \in Procs |-> None]
  /\ contested = {}

ClientNext == Next /\ Promise /\ Note /\ Contest

ClientSpec == ClientInit /\ [][ClientNext]_clientVars

-----------------------------------------------------------------------------
\* GET /status shows no unit that the API was not asked for: one that was removed
\* stays removed (instance.go RemoveUnit against the watchdog's RestartUnit).
NoGhostUnit == Quiet => OnStatusAll # None /\ DOMAIN OnStatusAll \subseteq wanted

\* It shows one only after an overlap on that very unit: GET /status never fails, and a
\* restart brings back what it has removed itself, never what a client has.
GhostsOnlyByOverlap ==
  Quiet => OnStatusAll # None /\ DOMAIN OnStatusAll \subseteq wanted \cup contested

\* No unit is lost that the API was asked for, unless two actors worked on it at once or
\* its ffmpeg did not start again: a restart ends with the unit there, whatever else is
\* created, removed or restarted meanwhile (instance.go RestartUnit).
NoLostUnit == Quiet => \A i \in wanted \ contested : OnStatus(i) # None

\* A unit has its path configured, and created once the manager is through with its
\* reloads, however many of them edits of the map in use by other operations have met
\* (instance.go AddUnit; mediamtx/core/handler.go AddPath, path_manager.go doReloadConf).
UnitConfigured ==
  Quiet => /\ units \ contested \subseteq pathConfs
           /\ reload = "no" => units \ contested \subseteq paths

\* A transcoder that runs is the one of its unit, so that it can be stopped, unless two
\* actors worked on that unit at once (instance.go AddUnit, RemoveUnit).
NoOrphanTranscoder ==
  Quiet => \A p \in Procs :
             running[p] => \/ startedFor[p] \in contested
                           \/ startedFor[p] \in units /\ transcoders[startedFor[p]] = p

\* A unit the API was asked for whose ffmpeg is gone gets a new one that runs,
\* unless it is removed or given up, two actors work on it at once, or the instance
\* stops (instance.go run).
UnitHealed ==
  \A i \in Ids :
    i \in wanted ~> \/ i \notin wanted \/ i \in contested
                    \/ ctxDone \/ http # "up"
                    \/ i \in units /\ alive[transcoders[i]] /\ status[transcoders[i]] = "ok"
=============================================================================
