------------------------------ MODULE RtspServer ------------------------------
(***************************************************************************)
(* The RTSP server (mediamtx/rtsp/server.go), its connections (conn.go)    *)
(* and the reading side of its sessions (session.go), with one path and    *)
(* its streams (core/path.go, stream.go) and the end of it all             *)
(* (RtspHandler.Stop).                                                     *)
(*                                                                         *)
(* Each connection and each session is a goroutine of gortsplib that calls *)
(* back for one request at a time.  What is modelled of gortsplib: a       *)
(* session that is told to close, or whose server has terminated, closes   *)
(* between two requests; a reader cannot be attached to a server stream    *)
(* that was closed; Server.Wait returns when the listener and every        *)
(* connection and session have ended.                                      *)
(*                                                                         *)
(* A publisher is seen here by the streams it starts and stops (Path.tla   *)
(* has the rest of it).                                                    *)
(***************************************************************************)
EXTENDS FiniteSets

CONSTANTS
  Sessions,   \* of gortsplib; an identity is used again
  Conns,      \* connections
  Streams,    \* Stream objects; a bound on how often a publisher records
  None        \* nil

Askers == Sessions \cup Conns

ASSUME SessionsAreNoConns == Sessions \cap Conns = {}
ASSUME NoneIsNothing == None \notin Streams \cup Askers \cup (Streams \X Askers)

VARIABLES
  \* ---- the server
  listener,   \* gortsplib's: "up", "failed", "closed"
  ctxDone,    \* Server.ctx is done
  run,        \* Server.run: "select", "closing" (srv.Close is called), "ended"
  wait,       \* its goroutine in srv.Wait: "waiting", "sending", "ended"
  closer,     \* Server.Close: "none", "waiting", "returned"
  conns,      \* Server.conns
  sessions,   \* Server.sessions
  \* ---- connections and sessions
  pc,         \* "closed", "idle", "path" (it waits for the path), "find" and
              \* "make" (it is in RTSPStream), "attach" (gortsplib attaches it),
              \* "leave" (in OnSessionClose)
  has,        \* the Stream in the answer of the path
  offer,      \* the server stream that RTSPStream has returned
  attached,   \* the server stream a session reads from
  told,       \* it was told to close, or its client is gone
  \* ---- the path and its streams
  stream,     \* path.stream
  dropping,   \* the path is in setNotReady, between readers and stream
  readers,    \* path.readers
  pathDone,   \* its context is done
  life, rtspStream, locked, shut

serverVars == <<listener, ctxDone, run, wait, closer, conns, sessions>>
askerVars == <<pc, has, offer, attached, told>>
pathVars == <<stream, dropping, readers, pathDone>>

S == INSTANCE Stream

streamVars == <<life, rtspStream, locked, shut>>
vars == <<serverVars, askerVars, pathVars, streamVars>>

TypeOK ==
  /\ listener \in {"up", "failed", "closed"}
  /\ ctxDone \in BOOLEAN
  /\ run \in {"select", "closing", "ended"}
  /\ wait \in {"waiting", "sending", "ended"}
  /\ closer \in {"none", "waiting", "returned"}
  /\ conns \subseteq Conns
  /\ sessions \subseteq Sessions
  /\ pc \in [Askers -> {"closed", "idle", "path", "find", "make", "attach", "leave"}]
  /\ has \in [Askers -> Streams \cup {None}]
  /\ offer \in [Askers -> S!ServerStreams \cup {None}]
  /\ attached \in [Sessions -> S!ServerStreams \cup {None}]
  /\ told \in [Askers -> BOOLEAN]
  /\ stream \in Streams \cup {None}
  /\ dropping \in BOOLEAN
  /\ readers \subseteq Sessions
  /\ pathDone \in BOOLEAN
  /\ S!StreamTypeOK

\* Server.Initialize: the listener is open and run waits.
Init ==
  /\ listener = "up"
  /\ ctxDone = FALSE
  /\ run = "select"
  /\ wait = "waiting"
  /\ closer = "none"
  /\ conns = {} /\ sessions = {}
  /\ pc = [x \in Askers |-> "closed"]
  /\ has = [x \in Askers |-> None]
  /\ offer = [x \in Askers |-> None]
  /\ attached = [s \in Sessions |-> None]
  /\ told = [x \in Askers |-> FALSE]
  /\ stream = None
  /\ dropping = FALSE
  /\ readers = {}
  /\ pathDone = FALSE
  /\ S!StreamInit

Goto(x, step) == pc' = [pc EXCEPT ![x] = step]

-----------------------------------------------------------------------------
(***************************************************************************)
(* The path.                                                               *)
(***************************************************************************)

\* doStartPublisher and setReady: a publisher records.
StartPublisher(k) ==
  /\ ~pathDone /\ ~dropping
  /\ stream = None
  /\ S!New(k)
  /\ stream' = k
  /\ UNCHANGED <<serverVars, askerVars, dropping, readers, pathDone>>

\* setNotReady that forgets to close the sessions of its readers.
DropReadersSilently ==
  /\ stream # None /\ ~dropping
  /\ dropping' = TRUE
  /\ readers' = {}
  /\ UNCHANGED <<serverVars, askerVars, stream, pathDone, streamVars>>

\* setNotReady, for whatever reason the stream ends: every reader is told to
\* close and forgotten.
DropReaders ==
  /\ stream # None /\ ~dropping
  /\ dropping' = TRUE
  /\ told' = [x \in Askers |-> told[x] \/ x \in readers]
  /\ readers' = {}
  /\ UNCHANGED <<serverVars, pc, has, offer, attached, stream, pathDone, streamVars>>

\* Then the stream is closed.
CloseStream ==
  /\ dropping
  /\ S!Close(stream)
  /\ stream' = None
  /\ dropping' = FALSE
  /\ UNCHANGED <<serverVars, askerVars, readers, pathDone>>

\* RtspHandler.Stop closes the path manager, and with it the path.
ClosePath ==
  /\ ~pathDone
  /\ pathDone' = TRUE
  /\ UNCHANGED <<serverVars, askerVars, stream, dropping, readers, streamVars>>

\* The path's answer to DESCRIBE (doDescribe) and SETUP (doAddReader): its stream,
\* nobody publishes, or the path is terminated.
PathAnswers(x) ==
  /\ pc[x] = "path"
  /\ \/ /\ ~pathDone /\ ~dropping
        /\ stream # None
        /\ has' = [has EXCEPT ![x] = stream]
        /\ readers' = readers \cup ({x} \cap Sessions)
        /\ Goto(x, "find")
     \/ /\ pathDone \/ (~dropping /\ stream = None)
        /\ Goto(x, "idle")
        /\ UNCHANGED <<has, readers>>
  /\ UNCHANGED <<serverVars, offer, attached, told, stream, dropping, pathDone, streamVars>>

-----------------------------------------------------------------------------
(***************************************************************************)
(* Connections and sessions.                                               *)
(***************************************************************************)
Terminated == listener # "up"

\* OnConnOpen and conn.initialize
OpenConn(c) ==
  /\ ~Terminated
  /\ pc[c] = "closed"
  /\ Goto(c, "idle")
  /\ conns' = conns \cup {c}
  /\ UNCHANGED <<listener, ctxDone, run, wait, closer, sessions, has, offer, attached,
                 told, pathVars, streamVars>>

\* OnSessionOpen, for the first SETUP of a connection.  A session that the path has
\* not forgotten is another one.
OpenSession(s, c) ==
  /\ ~Terminated
  /\ pc[c] = "idle"
  /\ pc[s] = "closed" /\ s \notin readers
  /\ Goto(s, "idle")
  /\ sessions' = sessions \cup {s}
  /\ UNCHANGED <<listener, ctxDone, run, wait, closer, conns, has, offer, attached,
                 told, pathVars, streamVars>>

\* onDescribe and onSetup ask the path manager, and it the path.
Ask(x) ==
  /\ pc[x] = "idle"
  /\ Goto(x, "path")
  /\ UNCHANGED <<serverVars, has, offer, attached, told, pathVars, streamVars>>

\* They have the stream and call its RTSPStream: it finds none,
FindNone(x) ==
  /\ pc[x] = "find"
  /\ S!Find(has[x], x)
  /\ Goto(x, "make")
  /\ UNCHANGED <<serverVars, has, offer, attached, told, pathVars>>

\* A description needs no attaching: onDescribe is done.
Offered(x, server) ==
  /\ has' = [has EXCEPT ![x] = None]
  /\ IF x \in Sessions
     THEN offer' = [offer EXCEPT ![x] = server] /\ Goto(x, "attach")
     ELSE UNCHANGED offer /\ Goto(x, "idle")
  /\ UNCHANGED <<serverVars, attached, told, pathVars>>

\* and makes one,
MakesOne(x) ==
  /\ pc[x] = "make"
  /\ S!Make(has[x], x)
  /\ Offered(x, <<has[x], x>>)

\* or it finds one.
FindsOne(x) ==
  /\ pc[x] = "find"
  /\ S!Return(has[x])
  /\ Offered(x, <<has[x], rtspStream[has[x]]>>)

\* gortsplib attaches the session to the server stream it was given, or fails the
\* request; it always fails when that stream was closed.
Attach(s) ==
  /\ pc[s] = "attach"
  /\ \/ offer[s] \notin shut /\ attached' = [attached EXCEPT ![s] = offer[s]]
     \/ UNCHANGED attached
  /\ offer' = [offer EXCEPT ![s] = None]
  /\ Goto(s, "idle")
  /\ UNCHANGED <<serverVars, has, told, pathVars, streamVars>>

\* The client goes away, or asks for the end.
ClientLeaves(x) ==
  /\ pc[x] # "closed" /\ ~told[x]
  /\ told' = [told EXCEPT ![x] = TRUE]
  /\ UNCHANGED <<serverVars, pc, has, offer, attached, pathVars, streamVars>>

Forget(x) ==
  /\ Goto(x, "closed")
  /\ told' = [told EXCEPT ![x] = FALSE]
  /\ UNCHANGED <<has, offer>>

\* OnConnClose and conn.onClose
CloseConn(c) ==
  /\ pc[c] = "idle"
  /\ told[c] \/ Terminated
  /\ conns' = conns \ {c}
  /\ Forget(c)
  /\ UNCHANGED <<listener, ctxDone, run, wait, closer, sessions, attached,
                 pathVars, streamVars>>

\* OnSessionClose
CloseSession(s) ==
  /\ pc[s] = "idle"
  /\ told[s] \/ Terminated
  /\ sessions' = sessions \ {s}
  /\ Goto(s, "leave")
  /\ UNCHANGED <<listener, ctxDone, run, wait, closer, conns, has, offer, attached,
                 told, pathVars, streamVars>>

\* session.onClose: a reader is removed from the path, if the path still serves.
onClose(s) ==
  /\ pc[s] = "leave"
  /\ \/ attached[s] = None /\ UNCHANGED readers
     \/ attached[s] # None /\ ~pathDone /\ ~dropping /\ readers' = readers \ {s}
     \/ attached[s] # None /\ pathDone /\ UNCHANGED readers
  /\ Forget(s)
  /\ attached' = [attached EXCEPT ![s] = None]
  /\ UNCHANGED <<serverVars, stream, dropping, pathDone, streamVars>>

-----------------------------------------------------------------------------
(***************************************************************************)
(* The server.                                                             *)
(***************************************************************************)
ListenerFails ==
  /\ listener = "up"
  /\ listener' = "failed"
  /\ UNCHANGED <<ctxDone, run, wait, closer, conns, sessions, askerVars, pathVars, streamVars>>

\* srv.Wait returns, and its goroutine sends the error.
WaitReturns ==
  /\ wait = "waiting"
  /\ Terminated
  /\ \A x \in Askers : pc[x] = "closed"
  /\ wait' = "sending"
  /\ UNCHANGED <<listener, ctxDone, run, closer, conns, sessions, askerVars, pathVars, streamVars>>

\* run takes the error of a server that has ended by itself, and cancels nothing.
RunTakesErrorOnly ==
  /\ run = "select"
  /\ wait = "sending"
  /\ wait' = "ended"
  /\ run' = "ended"
  /\ UNCHANGED <<listener, ctxDone, closer, conns, sessions, askerVars, pathVars, streamVars>>

\* run takes the error of a server that has ended by itself.
RunTakesError ==
  /\ run = "select"
  /\ wait = "sending"
  /\ wait' = "ended"
  /\ run' = "ended"
  /\ ctxDone' = TRUE
  /\ UNCHANGED <<listener, closer, conns, sessions, askerVars, pathVars, streamVars>>

\* run that does not wait for the error of the server it closes.
RunClosesAtOnce ==
  /\ run = "select"
  /\ ctxDone
  /\ listener' = IF listener = "up" THEN "closed" ELSE listener
  /\ run' = "ended"
  /\ UNCHANGED <<ctxDone, wait, closer, conns, sessions, askerVars, pathVars, streamVars>>

\* run closes the server, when asked to,
RunCloses ==
  /\ run = "select"
  /\ ctxDone
  /\ listener' = IF listener = "up" THEN "closed" ELSE listener
  /\ run' = "closing"
  /\ UNCHANGED <<ctxDone, wait, closer, conns, sessions, askerVars, pathVars, streamVars>>

\* and waits until it has ended.
RunEnds ==
  /\ run = "closing"
  /\ wait = "sending"
  /\ wait' = "ended"
  /\ run' = "ended"
  /\ UNCHANGED <<listener, ctxDone, closer, conns, sessions, askerVars, pathVars, streamVars>>

\* Server.Close, which RtspHandler.Stop calls once the paths have ended.
Close ==
  /\ closer = "none"
  /\ pathDone /\ stream = None
  /\ closer' = "waiting"
  /\ ctxDone' = TRUE
  /\ UNCHANGED <<listener, run, wait, conns, sessions, askerVars, pathVars, streamVars>>

CloseReturns ==
  /\ closer = "waiting"
  /\ run = "ended"
  /\ closer' = "returned"
  /\ UNCHANGED <<listener, ctxDone, run, wait, conns, sessions, askerVars, pathVars, streamVars>>

\* What is listed of a server, which has ended or not.
APIConnsList == [terminated |-> ctxDone, items |-> IF ctxDone THEN {} ELSE conns]
APISessionsList == [terminated |-> ctxDone, items |-> IF ctxDone THEN {} ELSE sessions]

-----------------------------------------------------------------------------
PathStep == (\E k \in Streams : StartPublisher(k)) \/ DropReaders \/ CloseStream \/ ClosePath

AskerStep(x) == PathAnswers(x) \/ Ask(x) \/ FindNone(x) \/ MakesOne(x) \/ FindsOne(x) \/ ClientLeaves(x)

SessionStep(s) == (\E c \in Conns : OpenSession(s, c)) \/ Attach(s) \/ CloseSession(s) \/ onClose(s)

ConnStep(c) == OpenConn(c) \/ CloseConn(c)

ServerStep ==
  \/ ListenerFails \/ WaitReturns \/ RunTakesError \/ RunCloses \/ RunEnds
  \/ Close \/ CloseReturns

Next ==
  \/ PathStep
  \/ \E x \in Askers : AskerStep(x)
  \/ \E s \in Sessions : SessionStep(s)
  \/ \E c \in Conns : ConnStep(c)
  \/ ServerStep

Spec == Init /\ [][Next]_vars

\* A goroutine that has been called goes on.  One that waits in a select with requests
\* and its end sees the end at last, though requests keep coming: strong fairness
\* of the closes.  Nobody has to connect, to record or to close.
Fairness ==
  /\ \A x \in Askers : WF_vars(PathAnswers(x) \/ FindNone(x) \/ MakesOne(x) \/ FindsOne(x))
  /\ \A s \in Sessions : WF_vars(Attach(s)) /\ SF_vars(CloseSession(s)) /\ WF_vars(onClose(s))
  /\ \A c \in Conns : SF_vars(CloseConn(c))
  /\ WF_vars(CloseStream) /\ WF_vars(pathDone /\ DropReaders)
  /\ WF_vars(WaitReturns) /\ WF_vars(RunTakesError \/ RunCloses) /\ WF_vars(RunEnds)
  /\ WF_vars(CloseReturns)

FairSpec == Spec /\ Fairness

-----------------------------------------------------------------------------
(***************************************************************************)
(* Properties.                                                             *)
(***************************************************************************)

\* A reader that is attached is one the path will tell to close when the stream ends,
\* or was told; also when it asked for the stream before its end and was attached
\* after it, to a server stream that nobody will ever close.
AttachedIsKnown ==
  \A s \in Sessions :
    attached[s] # None => \/ told[s]
                          \/ s \in readers /\ stream = attached[s][1]

\* Every reader of a stream is attached to the server stream that packets are written
\* to, also when several ask for it at a time and the path closes it meanwhile.
OneServerStream ==
  \A s \in Sessions :
    attached[s] # None => rtspStream[attached[s][1]] = attached[s][2]

\* Once Close has returned, no connection or session is left, nor the goroutine that
\* waits for the server, also when the listener has failed before or meanwhile.
CloseIsFinal ==
  closer = "returned" =>
    /\ conns = {} /\ sessions = {}
    /\ \A x \in Askers : pc[x] = "closed"
    /\ wait = "ended"

\* A reader of a stream that was closed leaves.
DeadReadersLeave ==
  \A s \in Sessions :
    (attached[s] # None /\ life[attached[s][1]] = "closed") ~> (attached[s] = None)

\* A server whose listener has failed sends its clients away and reports its end, and
\* Close returns of any server.
ServerEnds ==
  /\ (listener = "failed") ~> [](/\ conns = {} /\ sessions = {}
                                  /\ APIConnsList.terminated /\ APISessionsList.terminated)
  /\ (closer = "waiting") ~> (closer = "returned")
=============================================================================
