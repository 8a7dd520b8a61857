--------------------------- MODULE RtspServerProofs ---------------------------
(***************************************************************************)
(* The safety of the RTSP server for any number of sessions, connections   *)
(* and streams.                                                            *)
(***************************************************************************)
EXTENDS RtspServer, TLAPS

\* A session that is being served knows a stream, and the path knows the session.
Known(s, k) == told[s] \/ (s \in readers /\ stream = k)

\* While the path ends a stream it has no readers.
DroppingInv == dropping => readers = {} /\ stream # None

\* Who has found no server stream has the lock, so nobody else makes one.
LockInv ==
  \A x \in Askers :
    /\ pc[x] \in {"find", "make"} => has[x] \in Streams
    /\ pc[x] = "make" => locked[has[x]] = x /\ rtspStream[has[x]] = None

\* What a session was offered is the stream's server stream.
OfferInv ==
  \A s \in Sessions :
    pc[s] = "attach" => /\ offer[s] \in S!ServerStreams
                        /\ rtspStream[offer[s][1]] = offer[s][2]
                        /\ Known(s, offer[s][1])

\* A session on its way to a stream is known.
ComingInv == \A s \in Sessions : pc[s] \in {"find", "make"} => Known(s, has[s])

\* Only a session that exists is attached.
OpenInv == \A s \in Sessions : pc[s] = "closed" => attached[s] = None

\* The server's goroutines end after each other, and the maps hold who is there.
EndInv ==
  /\ wait # "waiting" => Terminated /\ \A x \in Askers : pc[x] = "closed"
  /\ run = "ended" => wait = "ended"
  /\ closer = "returned" => run = "ended"
  /\ \A c \in conns : pc[c] # "closed"
  /\ \A s \in sessions : pc[s] \notin {"closed", "leave"}

IInv ==
  /\ TypeOK
  /\ DroppingInv /\ LockInv /\ OfferInv /\ ComingInv /\ OpenInv /\ EndInv
  /\ AttachedIsKnown /\ OneServerStream

\* The server starts with nobody.
LEMMA Initially == Init => IInv
BY NoneIsNothing, SessionsAreNoConns
DEF Init, IInv, TypeOK, DroppingInv, LockInv, OfferInv, ComingInv, OpenInv, EndInv,
    AttachedIsKnown, OneServerStream, Askers, S!StreamInit, S!StreamTypeOK, S!ServerStreams

\* Every step of the path keeps the invariant.
LEMMA PathSteps == ASSUME IInv, PathStep PROVE IInv'
<1> USE NoneIsNothing, SessionsAreNoConns
    DEF IInv, TypeOK, DroppingInv, LockInv, OfferInv, ComingInv, OpenInv, EndInv,
        AttachedIsKnown, OneServerStream, Known, Terminated, Askers, Goto,
        S!StreamTypeOK, S!ServerStreams, serverVars, askerVars, pathVars, streamVars,
        S!streamVars
<1>1. ASSUME NEW k \in Streams, StartPublisher(k) PROVE IInv'
  <2>1. TypeOK'
    BY <1>1 DEF StartPublisher, S!New
  <2>2. (DroppingInv /\ LockInv)'
    BY <1>1 DEF StartPublisher, S!New
  <2>3. (OpenInv /\ EndInv)'
    BY <1>1 DEF StartPublisher, S!New
  <2>4. (OfferInv /\ ComingInv)'
    BY <1>1 DEF StartPublisher, S!New
  <2>5. (AttachedIsKnown /\ OneServerStream)'
    BY <1>1 DEF StartPublisher, S!New
  <2> QED
    BY <2>1, <2>2, <2>3, <2>4, <2>5
<1>2. CASE DropReaders
  <2>1. TypeOK'
    BY <1>2 DEF DropReaders
  <2>2. (DroppingInv /\ LockInv)'
    BY <1>2 DEF DropReaders
  <2>3. (OpenInv /\ EndInv)'
    BY <1>2 DEF DropReaders
  <2>4. (OfferInv /\ ComingInv)'
    BY <1>2 DEF DropReaders
  <2>5. (AttachedIsKnown /\ OneServerStream)'
    BY <1>2 DEF DropReaders
  <2> QED
    BY <2>1, <2>2, <2>3, <2>4, <2>5
<1>3. CASE CloseStream
  <2>1. TypeOK'
    <3>1. stream \in Streams
      BY <1>3 DEF CloseStream
    <3>2. shut' \subseteq S!ServerStreams
      BY <1>3, <3>1 DEF CloseStream, S!Close
    <3>3. life' \in [Streams -> {"none", "open", "closed"}]
      BY <1>3, <3>1 DEF CloseStream, S!Close
    <3> QED
      BY <1>3, <3>2, <3>3 DEF CloseStream, S!Close
  <2>2. (DroppingInv /\ LockInv)'
    BY <1>3 DEF CloseStream, S!Close
  <2>3. (OpenInv /\ EndInv)'
    BY <1>3 DEF CloseStream, S!Close
  <2>4. (OfferInv /\ ComingInv)'
    BY <1>3 DEF CloseStream, S!Close
  <2>5. (AttachedIsKnown /\ OneServerStream)'
    BY <1>3 DEF CloseStream, S!Close
  <2> QED
    BY <2>1, <2>2, <2>3, <2>4, <2>5
<1>4. CASE ClosePath
  BY <1>4 DEF ClosePath
<1> QED
  BY <1>1, <1>2, <1>3, <1>4 DEF PathStep

\* Every step that connections and sessions share keeps the invariant.
LEMMA AskerSteps == ASSUME IInv, NEW x \in Askers, AskerStep(x) PROVE IInv'
<1> USE NoneIsNothing, SessionsAreNoConns
    DEF IInv, TypeOK, DroppingInv, LockInv, OfferInv, ComingInv, OpenInv, EndInv,
        AttachedIsKnown, OneServerStream, Known, Terminated, Askers, Goto,
        S!StreamTypeOK, S!ServerStreams, serverVars, askerVars, pathVars, streamVars,
        S!streamVars
<1>1. CASE PathAnswers(x)
  BY <1>1 DEF PathAnswers
<1>2. CASE Ask(x)
  BY <1>2 DEF Ask
<1>3. CASE FindNone(x)
  BY <1>3 DEF FindNone, S!Find
<1>4. CASE MakesOne(x)
  BY <1>4 DEF MakesOne, S!Make, Offered
<1>5. CASE FindsOne(x)
  BY <1>5 DEF FindsOne, S!Return, Offered
<1>6. CASE ClientLeaves(x)
  BY <1>6 DEF ClientLeaves
<1> QED
  BY <1>1, <1>2, <1>3, <1>4, <1>5, <1>6 DEF AskerStep

\* Every step of a session alone keeps the invariant.
LEMMA SessionSteps == ASSUME IInv, NEW s \in Sessions, SessionStep(s) PROVE IInv'
<1> USE NoneIsNothing, SessionsAreNoConns
    DEF IInv, TypeOK, DroppingInv, LockInv, OfferInv, ComingInv, OpenInv, EndInv,
        AttachedIsKnown, OneServerStream, Known, Terminated, Askers, Goto,
        S!StreamTypeOK, S!ServerStreams, serverVars, askerVars, pathVars, streamVars,
        S!streamVars
<1>1. ASSUME NEW c \in Conns, OpenSession(s, c) PROVE IInv'
  BY <1>1 DEF OpenSession
<1>2. CASE Attach(s)
  BY <1>2 DEF Attach
<1>3. CASE CloseSession(s)
  BY <1>3 DEF CloseSession
<1>4. CASE onClose(s)
  BY <1>4 DEF onClose, Forget
<1> QED
  BY <1>1, <1>2, <1>3, <1>4 DEF SessionStep

\* Every step of a connection alone keeps the invariant.
LEMMA ConnSteps == ASSUME IInv, NEW c \in Conns, ConnStep(c) PROVE IInv'
<1> USE NoneIsNothing, SessionsAreNoConns
    DEF IInv, TypeOK, DroppingInv, LockInv, OfferInv, ComingInv, OpenInv, EndInv,
        AttachedIsKnown, OneServerStream, Known, Terminated, Askers, Goto,
        S!StreamTypeOK, S!ServerStreams, serverVars, askerVars, pathVars, streamVars,
        S!streamVars
<1>1. CASE OpenConn(c)
  BY <1>1 DEF OpenConn
<1>2. CASE CloseConn(c)
  BY <1>2 DEF CloseConn, Forget
<1> QED
  BY <1>1, <1>2 DEF ConnStep

\* Every step of the server keeps the invariant.
LEMMA ServerSteps == ASSUME IInv, ServerStep PROVE IInv'
<1> USE NoneIsNothing, SessionsAreNoConns
    DEF IInv, TypeOK, DroppingInv, LockInv, OfferInv, ComingInv, OpenInv, EndInv,
        AttachedIsKnown, OneServerStream, Known, Terminated, Askers, Goto,
        S!StreamTypeOK, S!ServerStreams, serverVars, askerVars, pathVars, streamVars,
        S!streamVars
<1>1. CASE ListenerFails
  BY <1>1 DEF ListenerFails
<1>2. CASE WaitReturns
  BY <1>2 DEF WaitReturns
<1>3. CASE RunTakesError
  BY <1>3 DEF RunTakesError
<1>4. CASE RunCloses
  BY <1>4 DEF RunCloses
<1>5. CASE RunEnds
  BY <1>5 DEF RunEnds
<1>6. CASE Close
  BY <1>6 DEF Close
<1>7. CASE CloseReturns
  BY <1>7 DEF CloseReturns
<1> QED
  BY <1>1, <1>2, <1>3, <1>4, <1>5, <1>6, <1>7 DEF ServerStep

\* The inductive invariant of the server, its clients and the streams of the path.
THEOREM Invariant == Spec => []IInv
<1>1. IInv /\ [Next]_vars => IInv'
  <2> SUFFICES ASSUME IInv, [Next]_vars PROVE IInv'
    OBVIOUS
  <2>1. CASE Next
    BY <2>1, PathSteps, AskerSteps, SessionSteps, ConnSteps, ServerSteps DEF Next
  <2>2. CASE UNCHANGED vars
    BY <2>2
    DEF vars, IInv, TypeOK, DroppingInv, LockInv, OfferInv, ComingInv, OpenInv, EndInv,
        AttachedIsKnown, OneServerStream, Known, Terminated,
        S!StreamTypeOK, serverVars, askerVars, pathVars, streamVars
  <2> QED
    BY <2>1, <2>2
<1> QED
  BY <1>1, Initially, PTL DEF Spec

\* Type correctness.
THEOREM TypeCorrect == Spec => []TypeOK
<1>1. IInv => TypeOK
  BY DEF IInv
<1> QED
  BY <1>1, Invariant, PTL

\* A reader that is attached is known to the path whose stream it reads, or told.
THEOREM ReadersAreKnown == Spec => []AttachedIsKnown
<1>1. IInv => AttachedIsKnown
  BY DEF IInv
<1> QED
  BY <1>1, Invariant, PTL

\* All readers of a stream share one server stream.
THEOREM ServerStreamIsShared == Spec => []OneServerStream
<1>1. IInv => OneServerStream
  BY DEF IInv
<1> QED
  BY <1>1, Invariant, PTL

\* Nobody is left when Close returns.
THEOREM CloseLeavesNobody == Spec => []CloseIsFinal
<1>1. IInv => CloseIsFinal
  BY DEF IInv, EndInv, TypeOK, CloseIsFinal, Askers
<1> QED
  BY <1>1, Invariant, PTL
=============================================================================
