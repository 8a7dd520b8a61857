-------------------------------- MODULE Path --------------------------------
(***************************************************************************)
(* One path of the embedded RTSP server (mediamtx/core/path.go) and the    *)
(* RTSP sessions that publish to it and read from it                       *)
(* (mediamtx/rtsp/session.go).                                             *)
(*                                                                         *)
(* The path is one goroutine: it takes one request at a time from its      *)
(* channels, so a handler is one step.  A session is another goroutine,    *)
(* started by gortsplib, that handles one RTSP request at a time: it asks  *)
(* the path manager for the path, calls the path, waits for the reply and  *)
(* then stores what it got.  pc[s] says where s is; every other session    *)
(* and the path run between two of its steps.                              *)
(*                                                                         *)
(* gortsplib is not part of the repository.  What is modelled of it is     *)
(* what session.go relies on: its session state, which moves only after a  *)
(* handler has answered OK, the states in which each request is allowed,   *)
(* and OnSessionClose as the last callback of a session.                   *)
(***************************************************************************)
EXTENDS FiniteSets

CONSTANTS
  Sessions,            \* identities of RTSP sessions, taken again once free
  None,                \* the nil source
  OverridePublisher    \* conf.Path.OverridePublisher; FALSE in this program

ASSUME NoneIsNoSession == None \notin Sessions
ASSUME OverrideIsBoolean == OverridePublisher \in BOOLEAN

VARIABLES
  \* ---- the path
  phase,        \* its goroutine: "running", "closing" (left its loop), "destroyed"
  ctxDone,      \* its context, a child of the path manager's
  managerDone,  \* the path manager's context
  configured,   \* does pathManager.pathConfs still hold its configuration?
  source,       \* path.source: the session that publishes, or None
  ready,        \* path.stream # nil
  readers,      \* path.readers
  \* ---- the sessions
  pc,           \* the step a session's goroutine is at
  rstate,       \* rsession.State(), gortsplib's state of the session
  closing,      \* rsession.Close() was called, or the client went away
  held,         \* session.stream, or the stream in the reply under way: "nil",
                \* "live" (the path's stream), "closed" (one the path closed)
  serverUp      \* does the RTSP server accept sessions?

pathVars    == <<phase, ctxDone, managerDone, configured, source, ready, readers>>
sessionVars == <<pc, rstate, closing, held, serverUp>>
vars        == <<phase, ctxDone, managerDone, configured, source, ready, readers,
                 pc, rstate, closing, held, serverUp>>

Steps == {"Closed", "Idle",
          "AnnounceManager", "AnnouncePath", "AnnounceReply",
          "SetupManager", "SetupPath", "SetupReply",
          "RecordPath", "RecordReply", "PausePath", "PauseReply",
          "CloseReader", "ClosePublisher", "CloseReply"}

RStates == {"initial", "prePlay", "play", "preRecord", "record"}

TypeOK ==
  /\ phase \in {"running", "closing", "destroyed"}
  /\ ctxDone \in BOOLEAN
  /\ managerDone \in BOOLEAN
  /\ configured \in BOOLEAN
  /\ source \in Sessions \cup {None}
  /\ ready \in BOOLEAN
  /\ readers \subseteq Sessions
  /\ pc \in [Sessions -> Steps]
  /\ rstate \in [Sessions -> RStates]
  /\ closing \in [Sessions -> BOOLEAN]
  /\ held \in [Sessions -> {"nil", "live", "closed"}]
  /\ serverUp \in BOOLEAN

Init ==
  /\ phase = "running"
  /\ ctxDone = FALSE
  /\ managerDone = FALSE
  /\ configured = TRUE
  /\ source = None
  /\ ready = FALSE
  /\ readers = {}
  /\ pc = [s \in Sessions |-> "Closed"]
  /\ rstate = [s \in Sessions |-> "initial"]
  /\ closing = [s \in Sessions |-> FALSE]
  /\ held = [s \in Sessions |-> "nil"]
  /\ serverUp = TRUE

-----------------------------------------------------------------------------
(***************************************************************************)
(* The parts of the path's handlers.                                       *)
(***************************************************************************)

\* setNotReady that forgets to close the readers it drops.
setNotReadySilently(others) ==
  /\ ready' = FALSE
  /\ readers' = {}
  /\ closing' = [s \in Sessions |-> closing[s] \/ s \in others]
  /\ held' = [s \in Sessions |-> IF held[s] = "live" THEN "closed" ELSE held[s]]

\* setNotReady that closes the readers but leaves them registered.
setNotReadyKeepReaders(others) ==
  /\ ready' = FALSE
  /\ closing' = [s \in Sessions |-> closing[s] \/ s \in readers \cup others]
  /\ held' = [s \in Sessions |-> IF held[s] = "live" THEN "closed" ELSE held[s]]
  /\ UNCHANGED readers

\* Every reader is dropped and its session closed, then the stream is closed.
\* others: sessions the same handler closes as well.
setNotReady(others) ==
  /\ ready' = FALSE
  /\ readers' = {}
  /\ closing' = [s \in Sessions |-> closing[s] \/ s \in readers \cup others]
  /\ held' = [s \in Sessions |-> IF held[s] = "live" THEN "closed" ELSE held[s]]

\* The handler closes the sessions `others' and leaves the stream alone.
keepReady(others) ==
  /\ closing' = [s \in Sessions |-> closing[s] \/ s \in others]
  /\ UNCHANGED <<ready, readers, held>>

setNotReadyIfReady(others) ==
  IF ready THEN setNotReady(others) ELSE keepReady(others)

Goto(s, step) == pc' = [pc EXCEPT ![s] = step]

\* Every call of the path waits for the path or for its context, in one select.
\* Once the context is done no call meets the path any more: the cancellation
\* itself has answered the calls that were waiting, and later ones see it first.
PathServes == ~ctxDone
PathTerminated == ctxDone

-----------------------------------------------------------------------------
(***************************************************************************)
(* Publishing: ANNOUNCE, RECORD, PAUSE.                                    *)
(***************************************************************************)

\* gortsplib hands an ANNOUNCE to the session: onAnnounce asks the manager.
Announce(s) ==
  /\ pc[s] = "Idle"
  /\ rstate[s] = "initial"
  /\ Goto(s, "AnnounceManager")
  /\ UNCHANGED <<pathVars, rstate, closing, held, serverUp>>

\* pathManager.AddPublisher: the path is found by its configuration, or the
\* request fails; a manager that is shut down answers "terminated".  If a reload
\* has removed this path, the request fails or is about another one.
AddPublisher(s) ==
  /\ pc[s] = "AnnounceManager"
  /\ \/ ~ctxDone /\ configured /\ Goto(s, "AnnouncePath")
     \/ ~ctxDone /\ ~configured /\ Goto(s, "Idle")
     \/ ctxDone /\ Goto(s, "Idle")
  /\ UNCHANGED <<pathVars, rstate, closing, held, serverUp>>

\* doAddPublisher that does not look at who holds the slot.
doAddPublisherUnchecked(s) ==
  /\ pc[s] = "AnnouncePath"
  /\ PathServes
  /\ source' = s
  /\ Goto(s, "AnnounceReply")
  /\ UNCHANGED <<phase, ctxDone, managerDone, configured, ready, readers, rstate, closing, held, serverUp>>

\* doAddPublisher: the free slot is taken; a slot that is taken is refused, or,
\* with OverridePublisher, its session is closed and removed first.
doAddPublisher(s) ==
  /\ pc[s] = "AnnouncePath"
  /\ PathServes
  /\ \/ /\ source = None
        /\ source' = s
        /\ Goto(s, "AnnounceReply")
        /\ UNCHANGED <<ready, readers, closing, held>>
     \/ /\ source # None
        /\ ~OverridePublisher
        /\ Goto(s, "Idle")
        /\ UNCHANGED <<source, ready, readers, closing, held>>
     \/ /\ source # None
        /\ OverridePublisher
        /\ setNotReadyIfReady({source})
        /\ source' = s
        /\ Goto(s, "AnnounceReply")
  /\ UNCHANGED <<phase, ctxDone, managerDone, configured, rstate, serverUp>>

\* The ANNOUNCE was accepted: onAnnounce stores the path, and gortsplib moves on.
AnnounceDone(s) ==
  /\ pc[s] = "AnnounceReply"
  /\ rstate' = [rstate EXCEPT ![s] = "preRecord"]
  /\ Goto(s, "Idle")
  /\ UNCHANGED <<pathVars, closing, held, serverUp>>

\* RECORD: onRecord calls path.StartPublisher.
Record(s) ==
  /\ pc[s] = "Idle"
  /\ rstate[s] = "preRecord"
  /\ Goto(s, "RecordPath")
  /\ UNCHANGED <<pathVars, rstate, closing, held, serverUp>>

\* doStartPublisher: only the session that holds the slot starts a stream, and
\* stream.New may refuse its description.
doStartPublisher(s) ==
  /\ pc[s] = "RecordPath"
  /\ PathServes
  /\ \/ /\ source = s
        /\ ready' = TRUE
        /\ held' = [held EXCEPT ![s] = "live"]
        /\ Goto(s, "RecordReply")
     \/ /\ source = s
        /\ ready' = FALSE
        /\ Goto(s, "Idle")
        /\ UNCHANGED held
     \/ /\ source # s
        /\ Goto(s, "Idle")
        /\ UNCHANGED <<ready, held>>
  /\ UNCHANGED <<phase, ctxDone, managerDone, configured, source, readers, rstate, closing, serverUp>>

RecordDone(s) ==
  /\ pc[s] = "RecordReply"
  /\ rstate' = [rstate EXCEPT ![s] = "record"]
  /\ Goto(s, "Idle")
  /\ UNCHANGED <<pathVars, closing, held, serverUp>>

\* PAUSE: a reader only changes state; a publisher calls path.StopPublisher.
PauseReader(s) ==
  /\ pc[s] = "Idle"
  /\ rstate[s] = "play"
  /\ rstate' = [rstate EXCEPT ![s] = "prePlay"]
  /\ UNCHANGED <<pathVars, pc, closing, held, serverUp>>

PausePublisher(s) ==
  /\ pc[s] = "Idle"
  /\ rstate[s] = "record"
  /\ Goto(s, "PausePath")
  /\ UNCHANGED <<pathVars, rstate, closing, held, serverUp>>

\* doStopPublisher that answers without ending the stream.
doStopPublisherNoop(s) ==
  /\ pc[s] = "PausePath"
  /\ PathServes
  /\ keepReady({})
  /\ Goto(s, "PauseReply")
  /\ UNCHANGED <<phase, ctxDone, managerDone, configured, source, rstate, serverUp>>

doStopPublisher(s) ==
  /\ pc[s] = "PausePath"
  /\ PathServes
  /\ IF source = s THEN setNotReadyIfReady({}) ELSE keepReady({})
  /\ Goto(s, "PauseReply")
  /\ UNCHANGED <<phase, ctxDone, managerDone, configured, source, rstate, serverUp>>

PauseDone(s) ==
  /\ pc[s] = "PauseReply"
  /\ rstate' = [rstate EXCEPT ![s] = "preRecord"]
  /\ Goto(s, "Idle")
  /\ UNCHANGED <<pathVars, closing, held, serverUp>>

-----------------------------------------------------------------------------
(***************************************************************************)
(* Reading: SETUP, PLAY.                                                   *)
(***************************************************************************)

\* SETUP of a reader (a publisher's SETUP changes nothing): onSetup asks the
\* manager.  A session repeats it for each of its medias.
Setup(s) ==
  /\ pc[s] = "Idle"
  /\ rstate[s] \in {"initial", "prePlay"}
  /\ Goto(s, "SetupManager")
  /\ UNCHANGED <<pathVars, rstate, closing, held, serverUp>>

AddReader(s) ==
  /\ pc[s] = "SetupManager"
  /\ \/ ~ctxDone /\ configured /\ Goto(s, "SetupPath")
     \/ ~ctxDone /\ ~configured /\ Goto(s, "Idle")
     \/ ctxDone /\ Goto(s, "Idle")
  /\ UNCHANGED <<pathVars, rstate, closing, held, serverUp>>

\* doAddReader and addReaderPost; MaxReaders is 0, no limit, in this program.
doAddReader(s) ==
  /\ pc[s] = "SetupPath"
  /\ PathServes
  /\ \/ /\ ready
        /\ readers' = readers \cup {s}
        /\ held' = [held EXCEPT ![s] = "live"]
        /\ Goto(s, "SetupReply")
     \/ /\ ~ready
        /\ Goto(s, "Idle")
        /\ UNCHANGED <<readers, held>>
  /\ UNCHANGED <<phase, ctxDone, managerDone, configured, source, ready, rstate, closing, serverUp>>

\* onSetup stores path and stream and answers OK.  gortsplib then registers the
\* session with the server stream, or fails (no such media, stream closed), and
\* in that case the session stays in the state it was in.
SetupDone(s) ==
  /\ pc[s] = "SetupReply"
  /\ rstate' \in {rstate, [rstate EXCEPT ![s] = "prePlay"]}
  /\ Goto(s, "Idle")
  /\ UNCHANGED <<pathVars, closing, held, serverUp>>

Play(s) ==
  /\ pc[s] = "Idle"
  /\ rstate[s] = "prePlay"
  /\ rstate' = [rstate EXCEPT ![s] = "play"]
  /\ UNCHANGED <<pathVars, pc, closing, held, serverUp>>

-----------------------------------------------------------------------------
(***************************************************************************)
(* The life of a session.                                                  *)
(***************************************************************************)

\* A client connects.  An identity is taken again only when the path has
\* forgotten the session that had it before.
OpenSession(s) ==
  /\ serverUp
  /\ pc[s] = "Closed"
  /\ source # s
  /\ s \notin readers
  /\ rstate' = [rstate EXCEPT ![s] = "initial"]
  /\ closing' = [closing EXCEPT ![s] = FALSE]
  /\ Goto(s, "Idle")
  /\ UNCHANGED <<pathVars, held, serverUp>>

\* TEARDOWN, a lost connection or a timeout: gortsplib ends the session.
ClientLeaves(s) ==
  /\ pc[s] # "Closed"
  /\ ~closing[s]
  /\ closing' = [closing EXCEPT ![s] = TRUE]
  /\ UNCHANGED <<pathVars, pc, rstate, held, serverUp>>

\* RemoveReader and RemovePublisher that wait for the path alone.
CallTerminatedNotClosing(s) ==
  /\ PathTerminated
  /\ \/ pc[s] \in {"AnnouncePath", "SetupPath", "RecordPath"} /\ Goto(s, "Idle")
     \/ pc[s] = "PausePath" /\ Goto(s, "PauseReply")
  /\ UNCHANGED <<pathVars, rstate, closing, held, serverUp>>

\* A call of the path that finds its context done.  ANNOUNCE, SETUP and RECORD
\* then fail; PAUSE and onClose go on as if the path had answered.
CallTerminated(s) ==
  /\ PathTerminated
  /\ \/ pc[s] \in {"AnnouncePath", "SetupPath", "RecordPath"} /\ Goto(s, "Idle")
     \/ pc[s] = "PausePath" /\ Goto(s, "PauseReply")
     \/ pc[s] \in {"CloseReader", "ClosePublisher"} /\ Goto(s, "CloseReply")
  /\ UNCHANGED <<pathVars, rstate, closing, held, serverUp>>

\* onClose that takes a paused or preparing publisher for an idle session.
onCloseRecordOnly(s) ==
  /\ pc[s] = "Idle"
  /\ closing[s]
  /\ \/ rstate[s] \in {"prePlay", "play"} /\ Goto(s, "CloseReader")
     \/ rstate[s] = "record" /\ Goto(s, "ClosePublisher")
     \/ rstate[s] \in {"initial", "preRecord"} /\ Goto(s, "CloseReply")
  /\ UNCHANGED <<pathVars, rstate, closing, held, serverUp>>

\* onClose that forgets the readers which have not played yet.
onClosePlayOnly(s) ==
  /\ pc[s] = "Idle"
  /\ closing[s]
  /\ \/ rstate[s] = "play" /\ Goto(s, "CloseReader")
     \/ rstate[s] \in {"preRecord", "record"} /\ Goto(s, "ClosePublisher")
     \/ rstate[s] \in {"initial", "prePlay"} /\ Goto(s, "CloseReply")
  /\ UNCHANGED <<pathVars, rstate, closing, held, serverUp>>

\* onClose: what the session has to give back is told by gortsplib's state.
onClose(s) ==
  /\ pc[s] = "Idle"
  /\ closing[s]
  /\ \/ rstate[s] \in {"prePlay", "play"} /\ Goto(s, "CloseReader")
     \/ rstate[s] \in {"preRecord", "record"} /\ Goto(s, "ClosePublisher")
     \/ rstate[s] = "initial" /\ Goto(s, "CloseReply")
  /\ UNCHANGED <<pathVars, rstate, closing, held, serverUp>>

doRemoveReader(s) ==
  /\ pc[s] = "CloseReader"
  /\ PathServes
  /\ readers' = readers \ {s}
  /\ Goto(s, "CloseReply")
  /\ UNCHANGED <<phase, ctxDone, managerDone, configured, source, ready, rstate, closing, held, serverUp>>

\* doRemovePublisher that trusts its caller to hold the slot.
doRemovePublisherAnyAuthor(s) ==
  /\ pc[s] = "ClosePublisher"
  /\ PathServes
  /\ setNotReadyIfReady({})
  /\ source' = None
  /\ Goto(s, "CloseReply")
  /\ UNCHANGED <<phase, ctxDone, managerDone, configured, rstate, serverUp>>

\* doRemovePublisher and executeRemovePublisher: a session that lost the slot
\* to another one leaves it alone.
doRemovePublisher(s) ==
  /\ pc[s] = "ClosePublisher"
  /\ PathServes
  /\ IF source = s
       THEN setNotReadyIfReady({}) /\ source' = None
       ELSE keepReady({}) /\ UNCHANGED source
  /\ Goto(s, "CloseReply")
  /\ UNCHANGED <<phase, ctxDone, managerDone, configured, rstate, serverUp>>

\* onClose drops the session's references, and the session is gone.
CloseDone(s) ==
  /\ pc[s] = "CloseReply"
  /\ held' = [held EXCEPT ![s] = "nil"]
  /\ Goto(s, "Closed")
  /\ UNCHANGED <<pathVars, rstate, closing, serverUp>>

-----------------------------------------------------------------------------
(***************************************************************************)
(* Configuration and shutdown.                                             *)
(***************************************************************************)

\* RtspHandler.AddPath and RemovePath edit the map the manager looks paths up
\* in, whose reload then finds nothing changed, as a rule (see ReloadRemoves).
AddPath ==
  /\ ~configured
  /\ configured' = TRUE
  /\ UNCHANGED <<phase, ctxDone, managerDone, source, ready, readers, sessionVars>>

RemovePath ==
  /\ configured
  /\ configured' = FALSE
  /\ UNCHANGED <<phase, ctxDone, managerDone, source, ready, readers, sessionVars>>

\* A reload that was walking over the configurations as this one was deleted
\* removes the path and cancels its context (see PathManager.tla).
ReloadRemoves ==
  /\ ~ctxDone
  /\ ~configured
  /\ ctxDone' = TRUE
  /\ UNCHANGED <<phase, managerDone, configured, source, ready, readers, sessionVars>>

\* RtspHandler.Stop calls pathManager.close: the contexts of the manager and of
\* its paths are cancelled.
CloseManager ==
  /\ ~managerDone
  /\ managerDone' = TRUE
  /\ ctxDone' = TRUE
  /\ UNCHANGED <<phase, configured, source, ready, readers, sessionVars>>

\* runInner takes its ctx.Done case.
Terminate ==
  /\ phase = "running"
  /\ ctxDone
  /\ phase' = "closing"
  /\ UNCHANGED <<ctxDone, managerDone, configured, source, ready, readers, sessionVars>>

\* The rest of run: the stream ends, and the publisher is closed.
Destroy ==
  /\ phase = "closing"
  /\ setNotReadyIfReady(IF source = None THEN {} ELSE {source})
  /\ phase' = "destroyed"
  /\ UNCHANGED <<ctxDone, managerDone, configured, source, pc, rstate, serverUp>>

\* A server that stops listening and leaves its sessions open.
CloseServerKeepSessions ==
  /\ managerDone /\ phase = "destroyed"
  /\ serverUp
  /\ serverUp' = FALSE
  /\ UNCHANGED <<pathVars, pc, rstate, closing, held>>

\* pathManager.close has waited for the path, and rts.Close ends every session.
CloseServer ==
  /\ managerDone /\ phase = "destroyed"
  /\ serverUp
  /\ serverUp' = FALSE
  /\ closing' = [s \in Sessions |-> TRUE]
  /\ UNCHANGED <<pathVars, pc, rstate, held>>

-----------------------------------------------------------------------------
SessionStep(s) ==
  \/ Announce(s) \/ AddPublisher(s) \/ AnnounceDone(s)
  \/ Record(s) \/ RecordDone(s)
  \/ PauseReader(s) \/ PausePublisher(s) \/ PauseDone(s)
  \/ Setup(s) \/ AddReader(s) \/ SetupDone(s) \/ Play(s)
  \/ OpenSession(s) \/ ClientLeaves(s) \/ CallTerminated(s)
  \/ onClose(s) \/ CloseDone(s)

PathStep(s) ==
  \/ doAddPublisher(s) \/ doStartPublisher(s) \/ doStopPublisher(s)
  \/ doAddReader(s) \/ doRemoveReader(s) \/ doRemovePublisher(s)

Next ==
  \/ \E s \in Sessions : SessionStep(s) \/ PathStep(s)
  \/ AddPath \/ RemovePath
  \/ ReloadRemoves \/ CloseManager \/ Terminate \/ Destroy \/ CloseServer

Spec == Init /\ [][Next]_vars

(***************************************************************************)
(* Fairness.  The path's goroutine and a session inside a request are      *)
(* runnable until they move, and Go runs every runnable goroutine.  A      *)
(* session whose context is done chooses at random, in a select, between   *)
(* the next request and closing: it cannot choose the request for ever.    *)
(* Nothing makes a client send a request or leave, nor the program stop.   *)
(***************************************************************************)
ReplyStep(s) ==
  \/ AddPublisher(s) \/ AnnounceDone(s) \/ RecordDone(s) \/ PauseDone(s)
  \/ AddReader(s) \/ SetupDone(s) \/ CallTerminated(s) \/ CloseDone(s)

Fairness ==
  /\ \A s \in Sessions : WF_vars(PathStep(s)) /\ WF_vars(ReplyStep(s)) /\ SF_vars(onClose(s))
  /\ WF_vars(Terminate)
  /\ WF_vars(Destroy)
  /\ WF_vars(CloseServer)

FairSpec == Spec /\ Fairness

-----------------------------------------------------------------------------
(***************************************************************************)
(* Safety.                                                                 *)
(***************************************************************************)

\* The steps at which a session has taken, and not yet given back, the slot.
HoldsSlot(s) ==
  \/ pc[s] = "AnnounceReply"
  \/ rstate[s] \in {"preRecord", "record"} /\ pc[s] \notin {"CloseReply", "Closed"}

\* The publisher slot is never leaked: while the path lives, whoever holds it is
\* a session that has yet to give it back when it closes, at whatever point of
\* ANNOUNCE, RECORD, PAUSE or TEARDOWN it goes away (session.go onClose).
SlotNotLeaked ==
  ~ctxDone /\ source # None => HoldsSlot(source)

\* A session gortsplib considers recording is the one whose stream the path has,
\* unless it is being closed or is inside its PAUSE (path.go doStartPublisher,
\* doStopPublisher, doAddPublisher).
RecordingOwnsStream ==
  \A s \in Sessions :
    ~ctxDone /\ rstate[s] = "record" /\ pc[s] \in {"Idle", "PausePath"}
      => (source = s /\ ready /\ held[s] = "live") \/ closing[s]

\* A stream has a publisher, and only a stream has readers (path.go setNotReady).
StreamBacked ==
  /\ ready => source # None
  /\ readers # {} => ready

\* A path never starts a stream over one that it has not closed: when the holder
\* of the slot calls StartPublisher, the previous stream is gone.
NoStreamOverwritten ==
  \A s \in Sessions : ~ctxDone /\ pc[s] = "RecordPath" /\ source = s => ~ready

\* A session that reads, and was not told to close, is registered with the path
\* and holds the path's present stream: the publisher that leaves between the
\* path's answer and the moment the session stores it is no exception.
ReaderServedOrClosing ==
  \A s \in Sessions :
    rstate[s] \in {"prePlay", "play"} /\ pc[s] \notin {"CloseReply", "Closed"}
      => (s \in readers /\ held[s] = "live") \/ closing[s]

\* A session that is gone is still registered as a reader only if its SETUP
\* failed in gortsplib after onSetup had registered it: onClose asks for the
\* session state, which is then still Initial.
ReaderLeaksOnlyFailedSetup ==
  \A s \in Sessions :
    ~ctxDone /\ pc[s] = "Closed" /\ s \in readers => rstate[s] = "initial"

\* The path never drops a reader silently: a session leaves the readers because
\* it asked to, in onClose, or it is closed by the same step.
DropsOnlyClosed == \A s \in readers \ readers' : closing'[s]

DroppedReaderIsClosed == [][DropsOnlyClosed]_vars

-----------------------------------------------------------------------------
(***************************************************************************)
(* Liveness.                                                               *)
(***************************************************************************)

\* Every session that is told to close is closed, whatever it waits for; it has given
\* the slot back then (SlotNotLeaked).
ClosingEnds == \A s \in Sessions : closing[s] ~> pc[s] = "Closed"

\* Once RtspHandler.Stop is called, the path ends, the server stops and no session stays.
ShutdownCompletes ==
  managerDone ~> phase = "destroyed" /\ ~serverUp /\ \A s \in Sessions : pc[s] = "Closed"

-----------------------------------------------------------------------------
(***************************************************************************)
(* The path implements the publisher slot.                                 *)
(***************************************************************************)
Slot == INSTANCE PublisherSlot WITH owner <- source, live <- ready, audience <- readers

\* Every step of the path is a step of the publisher slot, or none.
ImplementsSlot == Slot!Spec
=============================================================================
