-------------------------------- MODULE Stream --------------------------------
(***************************************************************************)
(* The streams of a path (mediamtx/stream/stream.go) as those who share    *)
(* them see them: the path makes and closes them, sessions and connections *)
(* ask them for the gortsplib server stream that readers are attached to   *)
(* and packets are written to.  The first who asks makes it, under the     *)
(* lock of the stream.  Close does not take that lock.                     *)
(*                                                                         *)
(* A server stream is told from another of the same stream by who made it. *)
(***************************************************************************)
CONSTANTS
  Streams,    \* Stream objects; a bound on how often a publisher records
  Askers,     \* sessions and connections
  None

VARIABLES
  life,         \* "none" (not made yet), "open", "closed"
  rtspStream,   \* Stream.rtspStream, by its maker
  locked,       \* who holds Stream.mutex for writing
  shut          \* the server streams that were closed

streamVars == <<life, rtspStream, locked, shut>>

ServerStreams == Streams \X Askers

StreamTypeOK ==
  /\ life \in [Streams -> {"none", "open", "closed"}]
  /\ rtspStream \in [Streams -> Askers \cup {None}]
  /\ locked \in [Streams -> Askers \cup {None}]
  /\ shut \subseteq ServerStreams

StreamInit ==
  /\ life = [k \in Streams |-> "none"]
  /\ rtspStream = [k \in Streams |-> None]
  /\ locked = [k \in Streams |-> None]
  /\ shut = {}

\* stream.New
New(k) ==
  /\ life[k] = "none"
  /\ life' = [life EXCEPT ![k] = "open"]
  /\ UNCHANGED <<rtspStream, locked, shut>>

\* Stream.Close: it closes the server stream it reads, without the lock.
Close(k) ==
  /\ life' = [life EXCEPT ![k] = "closed"]
  /\ shut' = IF rtspStream[k] = None THEN shut ELSE shut \cup {<<k, rtspStream[k]>>}
  /\ UNCHANGED <<rtspStream, locked>>

\* RTSPStream whose lock does not keep others out.
FindUnlocked(k, x) == UNCHANGED <<life, rtspStream, locked, shut>> /\ rtspStream[k] = None

\* RTSPStream finds no server stream, and keeps the lock.
Find(k, x) ==
  /\ locked[k] = None
  /\ rtspStream[k] = None
  /\ locked' = [locked EXCEPT ![k] = x]
  /\ UNCHANGED <<life, rtspStream, shut>>

\* It makes one.
Make(k, x) ==
  /\ rtspStream' = [rtspStream EXCEPT ![k] = x]
  /\ locked' = [locked EXCEPT ![k] = None]
  /\ UNCHANGED <<life, shut>>

\* It finds one.
Return(k) ==
  /\ locked[k] = None
  /\ rtspStream[k] # None
  /\ UNCHANGED streamVars
=============================================================================
