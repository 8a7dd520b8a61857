# A specification of h265_transcoder

The program is a control plane for transcoding: an HTTP API creates and removes
*units*. For each unit it runs one ffmpeg, which pulls a source, transcodes it and
publishes the result to a path of an RTSP server embedded in the program (a cut-down
mediamtx). RTSP clients read the path. A watchdog restarts units whose ffmpeg is gone.

The program is concurrent all over: one goroutine for each HTTP request, watchdog,
transcoder (three), path manager, path, RTSP session. The specification is about what
those goroutines do to each other.

## Inventory

| component | state | operations | hard behaviour |
|---|---|---|---|
| Transcoder (`transcoder.go`) | running, status, cancel function, process | Start, Stop, goroutines run / waiter / watcher | goroutines started before what they use is set; a process that ends, is reaped, released and killed by different goroutines |
| Instance (`instance.go`) | units, transcoders, context | AddUnit, RemoveUnit, RestartUnit, run (watchdog), Stop | maps changed in several steps by several goroutines, the lock covers two writes; failed starts; shutdown in the middle |
| HTTP control server (`http_control.go`) | listening or not, Done | create, stop, status, panic handler, Start, Stop | one goroutine for each request; Shutdown waits for requests unless the server has stopped before |
| RTSP handler (`core/handler.go`) | running, the two servers below | AddPath, RemovePath, PathExist, Start, Stop | edits the path manager's map in place |
| Path manager (`core/path_manager.go`) | paths, configurations, wait group | lookups, reload, notifications, close | unbuffered rendezvous with callers and paths, each with a way out by context |
| Path (`core/path.go`) | source, stream, readers | add / remove / start / stop publisher, add / remove reader, end | the sessions' idea of slot and stream changes in other steps than the path's |
| RTSP session (`rtsp/session.go`) | gortsplib state, path, stream | onAnnounce, onSetup, onPlay, onRecord, onPause, onClose | a request is split by calls; being closed at any point |
| RTSP server (`rtsp/server.go`) | connections, sessions, listening, context | connection and session open / close, describe, Close, lists, listener failure | a failure that races Close; clients leave in any order |
| RTSP connection (`rtsp/conn.go`) | authentication nonce | onDescribe | the stream it was answered with ends before it is used |
| Stream (`stream/`) | RTSP server stream, format processors | New, Close, RTSPStream, WriteRTPPacket | made by whoever asks first, closed without the lock |
| Format processors (`formatprocessor/`) | parameter sets, encoder, decoder, sequence number | ProcessRTPPacket, remux | an encoder put in place in the middle of a stream, lost packets, oversized packets, parameter sets in packets of every form |
| Asynchronous writer (`asyncwriter/`) | ring buffer, error | Start, Stop, Push | not reached: this program adds no such reader |
| Authentication (`auth/`) | users | Authenticate | the program configures one user, `any` |
| Configuration (`conf/`) | path configurations | path lookup; files and environment are never read by this program | a name that looks like an expression |
| Start of the program (`cmd/main.go`) | | testRunFFMpeg, run | a timeout in a select; nobody waits for the end |
| Logger, definitions | | | no behaviour of interest |

What makes each correct:

* transcoder: an exit is always collected; nobody uses the cancel function before it is
  set; a cancelled parent stops it; a stop ends the process;
* instance: what the API answered is what is there; no transcoder runs unseen; an ended
  ffmpeg is replaced; every request is answered; shutdown completes and stops everything;
* path manager: one path for each name, nobody waits for ever, close is final;
* path and sessions: the publisher slot is never leaked, streams are ended by
  their owners, readers are served or closed;
* server and streams: readers of one stream share one server stream and leave when it ends;
  a server that failed or was closed ends and leaves nobody behind;
* format processors: readers get packets of a bounded size with consecutive numbers, in order,
  with the parameter sets that belong to them.

## Modules

| module | models | composes |
|---|---|---|
| `PublisherSlot` | abstract: what a path promises (one owner, its stream, an audience that exists only with the stream) | |
| `Path` | path.go and session.go: one path and the sessions on it | implements `PublisherSlot` |
| `MCPath` | TLC: symmetry of sessions | extends `Path` |
| `PathProofs` | theorems about `Path` | extends `Path`, `TLAPS` |
| `PathRegistry` | abstract: what a path manager promises to those who configure paths | |
| `PathManager` | path_manager.go, the paths' goroutines as the manager meets them, callers, handlers, close | implements `PathRegistry` |
| `MCPathManager` | TLC: which names are removed, and when | extends `PathManager` |
| `PathManagerProofs` | theorems about `PathManager` | extends `PathManager`, `TLAPS` |
| `Access` | FindPathConf of conf/path.go, Authenticate of auth/manager.go | used by `PathManager` |
| `Transcoder` | transcoder.go, with os/exec as far as it relies on it | |
| `TranscoderProofs` | theorems about `Transcoder` | extends `Transcoder`, `TLAPS` |
| `Instance` | instance.go, http_control.go, the configuration calls of handler.go, the reload | transcoders, HTTP, RTSP handler, each as the instance sees it |
| `InstanceClients` | `Instance` with history variables: what the API's answers have promised, and which units two actors have worked on at once | extends `Instance` |
| `MCInstance`, `MCInstanceLive` | TLC: restrictions named below | extends `InstanceClients`; extends `Instance` |
| `InstanceProofs` | theorems about `Instance` and `InstanceClients` | extends `InstanceClients`, `TLAPS` |
| `FFmpegProbe` | testRunFFMpeg of main.go | |
| `Stream` | stream.go: New, Close, RTSPStream | used by `RtspServer` |
| `RtspServer` | server.go, conn.go, the ends of a session, the stream of a path | composes `Stream` with the path and the clients |
| `RtspServerProofs` | theorems about `RtspServer` | extends `RtspServer`, `TLAPS` |
| `NALUs` | what an RTP packet carries, as far as the processors look into it | |
| `H265`, `H264` | parameter sets and remuxing of h265.go and h264.go | use `NALUs` |
| `PacketRelay` | abstract: the numbers that readers get | |
| `FormatProcessor` | ProcessRTPPacket of the three processors, with a publisher that may lose packets | composes `H265`, `H264`; implements `PacketRelay` |
| `MCFormatProcessor` | TLC: a tidy publisher | extends `FormatProcessor` |
| `FormatProcessorProofs` | theorems about `FormatProcessor`: numbers and sizes | extends `FormatProcessor`, `TLAPS` |
| `NALUsProofs` | lemmas about `OfTypes` and `LastOf`, for access units of any length | extends `NALUs`, `TLAPS` |
| `AccessUnitProofs` | theorems about `FormatProcessor`: types, parameter sets and video | extends `FormatProcessorProofs`, `NALUsProofs` |

### Path

The path's goroutine takes one request at a time, so a handler is one action (`doAddPublisher`,
`doStartPublisher`, ...), and what it does to other sessions (`Close` of readers) is part of it:
`setNotReady`. A session's request is several actions: the call of gortsplib (`Announce`), the
lookup in the path manager (`AddPublisher`), the path's handler, the answer (`AnnounceDone`).
`pc[s]` says between which of them the session is; everything else may happen in between.
`rstate[s]` is gortsplib's state of the session, which moves only with the answer and which
onClose asks. `held[s]` is the stream a session has, so that a stream that was closed under it
shows. `PathServes` and `PathTerminated` translate the select that every call of a path is: once
the context is done, it has answered those who wait, and later callers find it done and nobody
receiving, so no call meets the path any more.

A path of this program is never on demand and has no regular expression, so `shouldClose` is
false: it ends with its context. That is done at the shutdown, or when a reload removes the path
(`ReloadRemoves`, which the path manager allows a reload to do at any time; when it does is in `PathManager`).
`OverridePublisher` is FALSE in this program (handler.go:166), and so it is in the runs;
the model and the theorems hold both values, since doAddPublisher is written for both.

### PathManager

The same rendezvous argument applies to the manager: `ctxDone` ends every meeting with it.
That is why doClosePath is not an action: a path ends only after its context was cancelled. At the
shutdown the manager's was cancelled before; in a reload the manager waits in path.wait for the path it has
removed, and closePath must give up (`PathAwaited`). The cancellation of the manager's
context and of each path's are separate steps (`Close`, `CancelPath`).

The handlers edit the very map the manager works with (`AddPath`, `RemovePath`), and no lock
protects it. So each look of the manager into that map is a step of its own:

* a request finds its configuration (`TakeRequest`) and gets its path later (`AnswerRequest`),
  possibly under a name that is no longer configured;
* doReloadConf ranges over the map (`PickConf`), looks the name up again, and keeps the path
  (`KeepPath`) or, when it has gone since, removes and closes it (`DropPath`) and waits for its
  goroutine (`PathAwaited`);
* its second range creates what is missing (`PickConf`, `ReloadCreates`), by then perhaps
  not configured any more.

A Go range does not come to what is deleted before its turn, and comes to what is added meanwhile or
does not (`todo`, `late`). The old configuration and the new one are the same map, so a reload finds
a name deleted only if it went in the middle of its own turn. Whether a request is served is asked
of `Access`: the configuration is looked up first and the user is checked then, in the order of
doDescribe, doAddReader and doAddPublisher. AddPath takes any name; one that isValidPathName refuses
has a path, made by the reload, for which no request is served.

`PathRegistry` leaves the goroutines out and promises what is left of "the paths are those that are
configured": a path opens for a name that a request or a reload has found configured, is taken away
by a reload alone and only while its name is not configured, and a reload ends when all it came to is
open. No names are "all" or "all_others", which the lookup treats apart (see the hazards); concurrent
access to a Go map is taken to be atomic.

### Transcoder

`starter` is the place in Start, and each goroutine has its own place. `proc` is ffmpeg:
alive, a zombie, reaped. `Reachable` is what Signal and Kill ask of os.Process. Stop may be called
by several callers at once and by the watcher; its steps interleave, and `Release` comes before
`Kill` as it does in the code.

### Instance

Each access of AddUnit and RemoveUnit to shared state is a step (`AddCheck`, `AddPathCheck`, ...,
`RemoveDelete`); requests and the watchdog are `Actors` at such a step. RestartUnit is RemoveUnit
followed by AddUnit (`AfterRemove`). A transcoder is reduced to its flag, its status and whether
its process lives (`FFmpegEnds` is the waiter's collecting it). doReloadConf walks over the map in
use here as well (`BeginReload` to `ReloadEnds`): it removes a path only when the configuration goes
in the middle of its turn.

Instance.Stop counts the units for its wait group (`StopCounts`), ranges over them (`StopRanges`, `StopSpawns`,
`StopRanged`) and waits (`StopDrained`), each an access of its own to a map that the watchdog may be
changing: the HTTP server has been shut down before, but nothing waits for the watchdog's round, nor
for a request that outlives a server that has failed. When a unit goes between the count and its turn, Wait
never returns and Stop never gets to the RTSP handler; when one more is there, the counter goes below
zero and the program panics (`StopPanics`). `disturbed` records that the units have changed in that window, and
`ShutdownCompletes` promises Stop's return only where they have not. What it promises in every case is that
the RTSP side goes down: the RTSP handler stops by itself (`RtspStopsItself`), as the transcoders do
(`ContextStops`), since their contexts are children of the instance's.

A Transcoder object is used again when nobody refers to it and it has stopped (`Unused`); its
ffmpeg may then still be there (see the findings), out of the instance's sight.
`OnStatus` and `OnStatusAll` are what the status requests answer; they change nothing, and the
promises of the API are stated with them (`InstanceClients`: what a client has been told is what
a later status request finds).

net/http serializes nothing and the watchdog runs beside it, and the code breaks those promises when two
operations overlap on one unit (`instance_ghost`). The history says where that may be:
`contested` is the set of units on which two actors were changing something at once (`Clash`), each
until nothing is left of it (`Clean`). The safety properties of `InstanceClients` are about all other units,
and are checked and proved with operations that overlap freely, with restarts that fail
(`GivenUp`: a unit is not promised any more once its restart has failed) and with the shutdown.
An access to a Go map is taken to be atomic: that the runtime may abort the program
when two goroutines meet in one is a hazard without a property.

### RtspServer and Stream

The other side of `Path`: there, a session that is answered has its stream; here, what lies
between the answer and gortsplib attaching the session. `pc[x]` is the place of a session or
connection: asking the path (`PathAnswers`), in RTSPStream before and after it has looked for a
server stream (`FindNone`, `MakesOne`, `FindsOne`), and, for a session, between onSetup's return
and gortsplib's attaching it (`Attach`). The path tells the readers to close (`DropReaders`)
before it closes the stream (`CloseStream`), and Stream.Close reads the server stream without
the lock that its maker holds; so a server stream can be made after the stream was closed.
A server stream is named by the stream and who made it, so that two would be told apart.

`run`, `wait` and `closer` are the goroutine `run`, the one that sends what srv.Wait returns,
and the caller of Close. `ListenerFails` is the end of gortsplib's server for any reason of its
own. gortsplib is taken to do what its interface says: Wait returns when every connection and
session was closed, and a closed ServerStream takes no reader. DESCRIBE asks for the
stream as SETUP does, but is no reader. RECORD, PAUSE and the replies to publishers are in `Path`.

### FormatProcessor

One format of a stream, one packet at a time: ProcessRTPPacket runs in the goroutine that reads
the publisher's packets and under the stream's lock, so a packet is one action (`WritePacket`).
A NALU is its type and an identity; a payload is its form (single, aggregated, start and end of
a fragment, malformed) and its NALUs; parameter sets are kept as the last ones seen, as in
updateTrackParametersFromRTPPacket. Sizes are numbers, since the limit is about them.
`processH265`, `processH264` and `processGeneric` translate the three functions; the first two
differ in parameter sets and remuxing alone (`H265`, `H264`) and share `routeOrReencode`.
gortsplib's decoder and encoder are `decode` and `encode`: NALUs are collected up to the marker,
and an access unit becomes one or more packets of up to the maximum payload. The publisher
numbers its packets and video NALUs, and `LosePacket` is a packet that never arrives; the
history variables (`expected`, `missing`, `shown`, `torn`, `decoded`) say what readers
have seen; video may skip a number only while `torn`, when a packet was lost or refused since the
readers had all that was sent. `PacketRelay` is what the numbers promise: the publisher's own, and from
some packet on the server's, that go on from there.

## Runs

Bounds are sizes of sets and moduli of numbers that wrap in the code or in the model's tags; the
two in guards are `MaxNALUs`, gortsplib's limit on an access unit, and `MaxPackets`, the packets made of one.

| run | module, bounds | shows |
|---|---|---|
| `path` | `MCPath`, 3 sessions, symmetric; no take-overs | the slot, the streams and the readers agree; the path implements the slot. Three sessions are a publisher, one that wants to be, and a reader, or a publisher with two readers |
| `path_live` | `MCPath`, 2 sessions, fair | closing ends (and gives the slot back, by `SlotNotLeaked`), the RTSP side shuts down, also when a reload removes the path |
| `path_manager` | `MCPathManager`, 2 names of which one is invalid, 3 path objects, 1 caller, 1 handler, fair | one path for each name, close is final, nobody waits for one who has left, everybody returns; implements `PathRegistry`. A handler that edits the map meets the reload of its own earlier edit and the caller's request, so that a path is removed, and one is created under a deleted name |
| `transcoder` | `Transcoder`, 2 callers of Stop and the watcher, fair | exits are collected, the cancel function is set before use, giving up has a reason, a cancelled parent stops it |
| `instance_clients` | `MCInstance`, `UpSpec`: 1 unit, 1 client, 2 transcoders, fair | requests and restarts overlap: a unit that is not contested is not lost, resurrected or unconfigured, and no transcoder of it runs unseen; ended ffmpegs are replaced |
| `instance_live` | `MCInstanceLive`, `SteadySpec`: 1 unit, 1 client, 1 transcoder, fair | a request and a round that overlap: answered, and the shutdown completes, Stop's return included unless the units were changed under it |
| `format_processor` | `MCFormatProcessor`, numbers and video NALUs modulo 2, 2 sizes and paddings around the limit of 2000, up to 4 NALUs in an access unit, up to 2 packets for it | sizes, numbers, order and parameter sets, whatever is lost; implements `PacketRelay` |
| `rtsp_server` | `RtspServer`, 1 session, 1 connection, 2 streams, fair | readers are known and share a server stream, dead readers leave, the server ends |
| `transcoder_stop` | violation of `StopEndsProcess` | Stop releases the process before it kills it, so ffmpeg lives on |
| `ffmpeg_probe` | violation of `ProbeReturns` | the guard's timeout is never taken while ffmpeg hangs |
| `instance_path_kept` | violation of `RemovedPathClosed` | the path of a removed unit stays open, with its publisher and readers |
| `instance_ghost` | violation of `NoGhostUnit` | a stop that overlaps a restart answers OK and the unit is back |

Restrictions of a run, and why they are there:

* `UpSpec`: nothing is claimed once the instance stops (the theorems are about `ClientSpec`, which
  has none of these restrictions). `StartedLives`: an ffmpeg that has just started lives until its
  goroutine `run` has run; otherwise run's status ok may overwrite the one of the exit, and the
  watchdog takes a dead unit for a good one (see Findings). `TickerIsSlow`: the manager carries out
  its reload and `run` is scheduled within a period of ten seconds. `ReloadGoesOn`: a reload under
  way is held up only by edits of the map it walks over. With one unit, a client and the watchdog
  already overlap on it in every order; they have at most two transcoders between them.
* `SteadySpec`: ffmpeg ends only between operations, `run` is scheduled at once, a reload is held up
  only by edits that change what it has yet to come to, and the HTTP server does not panic; a server
  that fails to listen ends the instance the way a panic does. Requests, restarts, failed
  starts and shutdown overlap freely. One transcoder object is enough for one to be started while the
  instance stops; an AddUnit that finds none unused may still fail to start, so no request is stuck for
  the bound's sake.
* `SmallSpec`: a name is removed only if it is valid and a path object is left besides those that the missing
  paths will need, so that the manager never runs out of objects. The invalid name is
  added once and stays.
* `MCSpec` of `MCFormatProcessor`: access units have their NALUs in the order of the standards,
  each parameter set once and at most two with video; H265 has both kinds of key frame, IDR and
  CRA. Only the SPS ever changes, and delimiters
  come with H264 only, where they fit an access unit of four next to a key frame. Once there is an
  encoder, the size of a packet no longer matters, so one is enough. Numbers modulo 2 wrap inside
  one access unit, between access units and where the encoder takes over; what a larger modulus
  could show is proved for all of them. Two sizes with two paddings give packets below the limit,
  above it only with padding, and above it without.
* `RtspServer`: one session meets the connection that describes the same stream, so that two
  ask at a time, and the second stream is the one that a publisher starts after the first. With
  two sessions the safety properties hold as well (4.2 million states), and with two connections
  (1.6 million); the run has the size at which liveness is checked in a minute.

`CHECK_DEADLOCK FALSE` is given for the transcoder, the probe, the instance and the RTSP server,
which really stop: after Stop, after the answer, after the shutdown nothing is left to do. It is
given for the format processor because a tidy publisher may have nothing left to add to an access unit.

The type invariants, `StreamBacked` and `StreamEndedByItsPublisher` are proved and not run.

### Fairness

* `Path`: a path and a session inside a request are runnable until they move, and Go runs every
  runnable goroutine (WF). A session whose context is done chooses in a select between the next
  request and closing; a select chooses at random, so not the request for ever (SF on `onClose`).
* `PathManager`: senders on an unbuffered channel are served in their order and a select chooses
  at random among ready cases: whoever waits for a receiver that comes back again and again is
  taken (SF). A range passes the entries of a map once, so it ends although names keep being added (SF
  on `RangeGoesOn`). Everything else WF. Nobody has to ask, edit or close.
* `Transcoder`: goroutines that can move do (WF). ffmpeg need neither write nor end.
* `Instance`: operations SF, since a reload waits for its turn in the manager's channel; the
  watchdog's exit SF, since its select chooses at random between ticker and context; else WF.
  No client has to call, no ffmpeg has to end, nobody has to cancel.
* `RtspServer`: a request under way and the server's goroutines go on (WF); a client that was told
  to close, or whose server has ended, sees that in its select, although requests keep coming
  (SF on `CloseConn` and `CloseSession`). A path that has ended drops its readers. No publisher
  has to record or stop, no listener has to fail and nobody has to close.

### Findings

Each violation run is one finding of `PROJECT.json`, with the line it contradicts. Some more
were met that contradict no document, so no run states them; each can be seen with a change of a run.

* AddUnit that fails at Start has already configured the path (instance.go:224, handler.go:181),
  so a second create is refused with "path already exist" and a stop with "unit does not exist".
* RestartUnit that cannot start the new ffmpeg has removed the unit and nobody adds it again
  (instance.go:281); only the log says so. `GivenUp` takes such a unit out of what `NoLostUnit` promises.
* run writes the status ok without looking (transcoder.go:131), possibly after the waiter has
  recorded the exit: without `StartedLives`, `instance_clients` violates `UnitHealed`.
* A reload compares a map with itself, so it never comes to what was deleted before it; a name that goes
  between range and look-up does lose its path (path_manager.go:148-171). What a removed unit leaves
  behind thus depends on timing.
* A path can be created under a name that is not configured any more, by a request or by a reload
  (path_manager.go:177-180, 223-288), and stays.
* Instance.Stop hangs or panics when a restart changes the units between its count and its range
  (instance.go:187-199): `instance_live` without `disturbed` in `ShutdownCompletes` is violated.
* A session can be attached to a server stream that is made after its stream was closed, and that
  nobody closes. It is harmless because the path has told the session to close before
  (`AttachedIsKnown`, `DeadReadersLeave`).

## Theorems

Each module of proofs has an inductive invariant and what follows from it; `NALUsProofs` has lemmas
only. Constants are arbitrary but for the named assumptions of the modules.

### Path

`PathProofs.tla` proves, for every set of sessions and both values of `OverridePublisher`, from
the assumptions `NoneIsNoSession` and `OverrideIsBoolean` alone:

* `Spec => []IInv` (`Invariance`), and from it type correctness, `SlotNotLeaked`, `StreamBacked`,
  `RecordingOwnsStream`, `NoStreamOverwritten`, `ReaderServedOrClosing`,
  `ReaderLeaksOnlyFailedSetup`;
* the action properties `DroppedReaderIsClosed` and, about the take-overs that this program does not
  enable, `StreamEndedByItsPublisher`;
* `Spec => ImplementsSlot`: every step of the path is one of the publisher slot, or none.

The properties are not inductive by themselves. Each is about a session at rest, and fails to say
what a session in the middle of a request relies on. `IInv` adds that: `PcMatchesState`
(which gortsplib states a request can be in), `StreamHasRecorder` (the owner of a stream has
recorded and not paused), `RecordReplyOwnsStream` and `SetupReplyIsServed` (the same as the
properties, one step earlier, while the answer is on its way), `PublishersDoNotRead`
(a session that took the slot is no reader, since nobody can take it while there is a stream),
`ClosedReadersGone`. `IInv` splits into the groups `SlotInv`, `OwnerInv`, `ReaderInv`. The lemma
`StreamEnds` says once what a handler that ends the stream leaves behind, for the six actions
that may end it. `Inductive` has one step for each action.

### PathManager

`PathManagerProofs.tla`: `TypeOK`, `OnePathPerName`, `MissingIsComing`, `CloseIsFinal`, `NobodyStranded`
and `Spec => ImplementsRegistry`, for any finite set of path objects and any names, callers and handlers.
`NamesInv` says that whoever runs is registered under its name, but for a path that a reload has removed and
waits for, whose name has no other path meanwhile: that the manager waits is what keeps two paths of one
name apart. `LoopInv` says that what the manager has in hand belongs to one request or one reload.
`CloseIsFinal` is about goroutines, of
which close knows a number only: `CountInv` says that the wait group is the number of paths whose goroutine
has not ended, and one more for the manager, so that it is zero only when all have ended. That a set of
path objects has a size is the one use of `PathsAreFinite`.

`NobodyStranded` is what `RequestsReturn` and `CloseCompletes` rest on and TLC cannot show for any number
of callers: whoever waits has somebody who will take him, or a context that is done. Its invariant
`WaitInv` has three parts. `ContextInv`: goroutines leave only when their context is done, the path that the
manager waits for has it done, and so has every path while close waits, because a path that a late
reload creates gets a context that is done from the start. `TargetInv`: a caller that
has a path has one that was started. `ServingInv`: a path that waits for the manager and the caller that waits
for that path's reply belong to each other, so that an answer reaches who asked and no path answers somebody else.

`ManagerImplementsRegistry` holds with every window between the manager's looks at the map open: paths do
get created under names that were deleted meanwhile and taken away in the middle of a reload, and the
registry says so. What it rules out is a path that was never found configured, one removed while it is
configured, and a reload that leaves out what it came to.

### Transcoder

`TranscoderProofs.tla`: `TypeOK`, `CancelAfterContext` and `CancelledForAReason`, for any number of
callers of Stop. `OrderInv` says what Start has done when each goroutine is at its place, `StoppedInv`
that running is false for good once a Stop has stored it, and `GivenUpInv` that Wait has
returned, or run gives up, only a process that was collected or released: a zombie
still answers the signal of run, so run does not cancel before the waiter has reaped.

### Instance

`InstanceProofs.tla`, for any number of requests, units and transcoders, every interleaving of them, failed
starts and the shutdown included. `Base` always holds: `TypeOK`; `units` and
`transcoders` have the same keys (`EntryInv`); an operation has a unit, and AddUnit a transcoder from its
start to its storing (`OperationInv`); nothing stops before the context is done (`RtspInv`).

`ClientsInv` says for as long as the context is not done what `GhostsOnlyByOverlap`, `NoLostUnit`,
`UnitConfigured` and `NoOrphanTranscoder` need: `Objects` (a transcoder has one unit that it was started
for), `Clashes` (of a unit that is not contested, at most one actor is changing anything), and
`Tidy` of each such unit. `Tidy` is what an operation in the middle relies on: the transcoder about to be
overwritten or forgotten was stopped (`Stopped`), one that runs is stored or about to be (`Owned`), the path
of a unit that is or will be there is there or comes with a reload, wherever that is in its two walks
(`Prepared`, `Served`), what is there was asked for (`AskedFor`), and what was asked for is there or on its way
back with nothing in the way, since the watchdog has deleted the
configuration that AddPath would otherwise refuse to write again (`Kept`). The argument for a step has three
cases: an operation on the unit in question (`OwnUnit`), which is then alone on it; an operation on
another unit (`OtherUnits`); and everybody else's step (`OtherSteps`). A contested unit becomes tidy again only when
it is clean, and a clean unit is tidy (`CleanIsTidy`). Nothing in this assumes that operations do not overlap.

### RtspServer

`RtspServerProofs.tla`: `TypeOK`, `AttachedIsKnown`, `OneServerStream` and `CloseIsFinal`, for any
sets of sessions, connections and streams. `AttachedIsKnown` holds because a session is known to
the path, or told to close, from the path's answer on: `ComingInv` says so of a session in
RTSPStream, `OfferInv` of one that gortsplib is about to attach. `OneServerStream` needs
`LockInv`: whoever has found no server stream holds the lock, so that nobody else makes one.
`EndInv` orders the ends of the server's goroutines.

### FormatProcessor

`FormatProcessorProofs.tla`: `SizeBound`, `NoGap` and `ImplementsRelay`, for any wrap of the numbers,
sizes, paddings and limits. `Numbered` says what the next number of a reader is: the publisher's
next one while packets are routed, the encoder's once there is one; `Shaped` says what a unit may
hold.

`AccessUnitProofs.tla`: `TypeOK`, `OwnParameters` and `OrderKept`, for the publisher of `Spec`, where the run
has a tidy one: it sends NALUs of any type in any order, alone, behind a parameter set in an
aggregate, in two fragments or malformed, sets the marker as it likes and loses any packet. A packet
brings at most one video NALU, its payload being one of `Payloads`. The inductive invariant is `ContentsInv`:

* `Typed`, in which a NALU of an access unit under way is of a type and identity that a packet can
  bring, and what is there of a NALU in fragments is the beginning of one of video;
* `OwnFrame`: a parameter set in the access unit under way is the last one seen of its type. This
  is what `OwnParameters` needs of the packets before: remuxing strips the parameter sets and
  puts the known ones in front of a key frame, which would be those of another access unit if
  the decoder kept an older one than the processor;
* `InOrder`: the video that the readers have still to get (`Pending`: the NALU that the publisher has
  half sent while packets are routed, what the decoder holds once there is one) has consecutive tags, from
  what was shown last to what the publisher sends next, unless a packet was lost or refused in between.

A packet has one of three effects, whatever the format (`Advance`): it is routed, dropped, or decoded. `Ways*`
say so of each format and `Flows*` what each effect does to the pending video. `Outcome` is what gortsplib's
decoder promises: on the marker the whole access unit, otherwise nothing.

What remuxing does is recursive over the NALUs of an access unit. The library's induction theorems
cannot be instantiated, so `NALUsProofs.tla` has its own, over sets instead of predicates: a set of numbers
with 0 that is closed under successor has all of them (`NumbersInduction`), and the same for sequences
and appending. With these it proves what `OfTypes` and `LastOf` make of a concatenation, of a sequence without the
types asked for, and of what `OfTypes` itself returns. `RemuxH265` and `RemuxH264` follow: the video
is the same before and after, and a key frame comes after the known parameter sets.

### Only model-checked

* liveness everywhere, which is out of the prover's reach;
* `FFmpegProbe`, whose one property is violated.

## Not modelled

* The asynchronous writer, Stream.AddReader and WriteUnit, ProcessUnit, RTSPS, HTTP and JWT
  authentication, handleAuthError, the retries of a password, the loading of configurations and
  of the environment, on-demand paths, expressions, kicks, setHLSServer and the API lists of the path
  manager: this program never reaches them. It has RTSP readers only, one user without
  a password, paths made by AddPath alone.
* What gortsplib does inside: sockets, transports, timeouts of a session that is silent. A session
  may end at any time in the models, which includes its timeouts.
* A packet between 1472 and 2000 bytes over UDP: the limit the handler sets is above the one that
  conf.go checks for, and the outcome is gortsplib's.
* Data: the bytes of a NALU, the description of a stream, JSON, status codes, logging, the command line of
  ffmpeg, timestamps.
* NewSource's `log.Fatal` (instance.go:218): AddUnit with an id or source that is no URL ends the program
  on the spot. In the model every URL parses.
* Errors of CreateDecoder, createEncoder and Encode in the format processors (formatprocessor/h264.go, h265.go):
  they end one packet with an error in the log. Whether they can occur is gortsplib's affair; the model's
  decoder and encoder always succeed.
* The end of main: it waits for nobody, so each state of the instance may be its last.
* Names `all` and `all_others`: the program ends with a nil dereference.

## Plan

1. `PublisherSlot`, `Path`, `PathProofs`; `Transcoder`; `Instance`, `InstanceClients`; `FFmpegProbe`;
   `PathManager`. Done.
2. `FormatProcessor` and its parts, `PacketRelay`; `Stream`, `RtspServer`; `Access`. Done.
3. Proofs about `PathManager`, `Transcoder`, `RtspServer`, `FormatProcessor`, `Instance`. Done; every
   safety property that a passing run checks is proved.
4. What the liveness properties rest on, as invariants: that a path or a server that is ending always
   has somebody whose step brings it further (`ClosingEnds` and `ShutdownCompletes` of `Path`, `DeadReadersLeave`
   and `ServerEnds` of `RtspServer`). Then that `Transcoder` keeps what `Instance` assumes of it.

A separate module for the end of the program is not planned: main waits for nobody, so there is nothing it could promise.
