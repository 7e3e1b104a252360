# EdgeVision: specification and verification

EdgeVision reconstructs a room from an RGB-D camera and streams views of it to a
browser. One process captures frames (Azure Kinect), fuses them into a voxel scene
(InfiniTAM), renders the scene from a requested pose, and sends the picture over
WebRTC. Each stage is a thread, and the stages meet in four stores. This directory
models those threads and stores in TLA+, checks them with TLC, and proves the
central results with TLAPS.

Paths below are relative to the repository; `model/`, `builder/` and so on are the
directories under `src/`.

## Inventory

| component | state | operations | talks to |
|---|---|---|---|
| **SharedScene** (`model/src/scene`) | the voxel scene, version, reader and writer counts, one priority flag, a mutex and a condition variable | `read()`, `write()`, `publish()`, lease destructor | builder writes, viewer reads |
| **SceneVersionStore** | bounded history of version records | `add`, getters | builder adds, seeder reads |
| **FrameStore** (`model/src/frame`) | history and index, lock-free queue with two id sets, lifecycle per id, counters; two mutexes | `submitFrame`, `dequeue`, `markFrameConsumed/Failed` | ingestor submits, builder consumes |
| **ViewerPoseStore** (`model/src/viewer`) | latest pose, relative baseline, next generation, mutex and condition variable | `update`, `applyRelativePose`, `resetRelativeBaseline`, `waitForNewer` | seeder and WebRTC write, viewer waits |
| **RenderOutputStore** | bounded history of pictures | `publish`, `latest`, `recent` | viewer publishes, WebRTC pump and frame dumper read |
| **SceneBuilder** (`builder`) | InfiniTAM pipeline layout and tracking state; runner flags and status | the loop, `buildFrame`, `start`, `requestStop`, `join` | takes frames, writes the scene |
| **SceneViewer** (`viewer`) | last pose generation, runner flags, output counters | the loop under Event or HotLoop, `renderPose`, `start`, `requestStop`, `join` | waits for poses, reads the scene |
| **Capture** (`capture`) | camera handle and started flag (no lock), next frame id, last timestamp | `open/start/stop/close`, `capture`, `captureAndSubmit`, frame building | feeds the FrameStore |
| **WebRtcServer** (`streaming/webrtc`) | session, handles, pending ICE, watchdog under one mutex; push flag (atomic); active client on the listener's thread | connect, disconnect, answer, ICE, GStreamer callbacks, pump, `stop` | pose store, output store, browser |
| **App** (`main.cpp`, `app`) | which runners run; the dumper's last output and count, the debug session's last counters | parse, start in order, seed a first pose, dump and log or wait for a signal, cleanup | all of them |
| **RenderServer** (`streaming/src/streaming`) | a listening socket, the connection of one client, a picture buffer | accept, parse a request, render, write the reply, close | a render callback; not started by `main` |
| **Config** (`config`, `K4aConfig.cpp`) | the next argument, the configuration so far | parse one option | read by `main` |

### What is hard here

* *Blocking and wakeups.* SharedScene's admission depends on counters kept by hand
  and a flag; acquisitions change what sleeping threads wait for and notify nobody.
  The pose store notifies after it has unlocked.
* *Two mutexes and a lock-free pop.* The builder pops a frame that `submitFrame` may
  not have recorded yet, and between the pop and the registration the frame is in
  no set.
* *Data behind.* A frame can be evicted, a scene version named and recorded, or a
  pose replaced while another thread still uses what it read before.
* *Late callbacks.* GStreamer answers promises on its own threads, after the session
  they belong to may have been replaced; the connection-state notification looks at
  the session and then acts without the mutex; the watchdog decides under the mutex
  and acts after it; a pose message is compared with the active channel and applied
  later, to the baseline of that moment.
* *Partial failure.* Tracking fails under the write lease; any step of the start
  fails into one cleanup; a negotiation step fails half way.
* *Overlapping snapshots.* The dumper polls a bounded store: it sees an output twice or
  not at all, and samples counters that the viewer updates after it has published.
* *Stopping.* Every loop may be blocked, or hold a frame or a lease, when it is asked
  to stop.

`PROJECT.json` lists each hazard at its line, with the properties that cover it or
the reason why none does.

### What makes each component correct

SharedScene: exclusive writes, no lost wakeup, no state that refuses everybody, a
version that stays put under a lease, and what the two read policies promise.
FrameStore: frames out in order and once, none evicted while pending, lifecycle
states that agree with the sets, a history within its bound, every accepted frame completed.
SceneBuilder: readers see committed states only, records agree with what was fused,
a frame is consumed if and only if it was published, stopping leaves nothing in hand.
SceneViewer and its stores: no update missed, none rendered twice under Event,
outputs never go back. WebRtcServer: nothing crosses from one session to another,
negotiation ends, video follows the connection, `stop` returns. The sources of poses:
the seed overrides no client, and a client's messages move the pose that client found.
The debug session: what is dumped are the changes of picture. RenderServer: each client
gets its own replies. App and Capture: the configuration is what the options ask for, the
camera is used only between start and stop, frames are newer and have images that
every later stage accepts, cleanup ends with nothing running.

## Modules

| module | models | relation |
|---|---|---|
| `SceneLock` | what SharedScene promises: a readers-writer lock over a versioned scene | abstract specification |
| `SharedScene` | `SharedScene`, `SceneAccessLease`, `SharedSceneState` | implements `SceneLock` |
| `SharedSceneProofs` | theorems about `SharedScene` | extends it |
| `FrameHandOff` | what FrameStore promises: a bounded FIFO hand-off | abstract specification |
| `FrameStore` | `FrameStore`, `ReadyFrameQueue`, `FrameHistory`, `FrameLifecycleTracker`, `FrameValidator` | implements `FrameHandOff` |
| `FrameHistory` | the ordered part of `FrameHistory`: what removal leaves | extended by `FrameStore` and `PoseSources` |
| `SortedQueues` | nothing: lemmas on sequences, on queues whose ids increase, on what removal keeps of them, and the least element of a set of numbers | used by all but two modules of proofs |
| `FrameStoreProofs` | theorems about `FrameStore` | extends it |
| `SceneBuilder` | the builder thread, its pipeline and runner, `SceneVersionStore` | composes `FrameHandOff` and `SceneLock` |
| `SceneBuilderProofs` | theorems about `SceneBuilder` | extends it |
| `ViewerPoseStore` | the pose store's operations | extended by `SceneViewer` and `PoseSources` |
| `SceneViewer` | the viewer thread and its runner, `RenderOutputStore` | composes `ViewerPoseStore` and `SceneLock` |
| `SceneViewerProofs` | theorems about `SceneViewer` | extends it |
| `PoseSources` | the seeder, the listener's baseline resets and the data channels' callbacks, with the stores the seeder reads | composes `ViewerPoseStore` with its callers |
| `PoseSourcesProofs` | theorems about `PoseSources` | extends it |
| `ViewerDump` | `ViewerFrameDumper`, `ViewerDebugSession`, `RenderOutputStore::recent` | composes them with the publishing viewer |
| `RenderServer` | the TCP render server, its clients | on its own |
| `Signalling` | the WebSocket listener: connections, the active client, posted tasks | extended by `WebRtcSession` |
| `WebRtcSession` | sessions, negotiation, watchdog, push flag, `stop` | composes it with GStreamer and clients |
| `WebRtcSessionProofs` | theorems about `WebRtcSession` and `RenderServer`, the two servers | extends both |
| `FrameLayout` | a frame's images, and the three places that check them | extended by `AppLifecycle` |
| `CommandLine` | `parseCommandLine`, and what the options ask for | extended by `AppLifecycle` |
| `AppLifecycle` | `main`, the camera, the capture thread | composes the threads' lifecycles |
| `AppLifecycleProofs` | theorems about `AppLifecycle` and `ViewerDump`, which `main` waits for | extends both |
| `MCSharedScene`, `MCAppLifecycle` | symmetry; the sample images and command lines | for TLC |

A component that another module uses appears there as its abstract specification
(`INSTANCE SceneLock`, `INSTANCE FrameHandOff`), which is shown to be implemented.
That keeps the compositions small and says which promises they rest on.

### How state and actions correspond to the code

*SharedScene.* One action per critical section of the scene's mutex. A call to
`read()` is `ReadEnter`, either granted at once or asleep in the wait set, then
`ReadRetry` each time it is awake; the destructor is `ReadRelease`, and, after the
unlock, `NotifyAll`. `promised` is a history variable: the readers whose entry raised
`blockedPriorityReadPending`.

*FrameStore.* `submitFrame` holds the store's mutex through `SubmitEnqueue`,
`SubmitMarkReady` and `SubmitRecord`; dequeuing is `DequeuePop`, which takes no mutex,
`DequeueRegister` under the queue's, and `DequeueDispatch` under the store's. The
counters and the last submission's result are state, like the history and the queue.

*SceneBuilder.* `buildFrame` is one action per call into another component or into
the pipeline, so that a reader and the stopping thread interleave with each of them;
`uncommitted` and `integrated` say what the voxel scene really holds.

*SceneViewer.* A pose is a member of a small cyclic group, with composition in place
of matrix multiplication; an update is `Store` and, after the unlock, `Notify`. The
wait for a pose is `WaitForNewer`, `Timeout` and `SpuriousWake`, the runner's owner
`Start`, `RequestStop` and `Join`; an output remembers the start (`run`) it belongs to.

*PoseSources.* `seedOnce` looks for a pose once, reads the newest version, reads that
version's frame, and stores a pose: one action each, with evictions, fusions, clients
and their messages between them. The listener's `ResetBaseline` and `BuildSession` are
two steps, since only the second holds the session's mutex. A message that has passed
the check of the active channel is in `inbox` until it is applied, whichever channel
is active by then. `captured` and `moved` are history variables. Sessions themselves are
`WebRtcSession`'s; here one may be built for the listener's client, or end, at any time.

*ViewerDump.* Positions in `published` stand for render timestamps, which increase. A
poll takes a snapshot (`batch`), then handles one output after another while the viewer
goes on; the store is the newest `OutputCapacity` positions (`Recent`). Outputs without a buffer, or with one that is too short, which the renderer
never makes but the dumper's tests do, are among the inputs; hashes are taken to be
injective.

*RenderServer.* One action per request read, picture rendered, part of a reply
written, and connection closed. What a client is owed is stated of each part written to
it: the trailers before it say which request it answers (`RequestOf`), its place behind
them which part of the reply it must be (`PlaceInReply`). The disposition of SIGPIPE is not the server's to set
and is either of the two (`sigpipe`). Requests have sizes that libjpeg encodes.

*WebRtcSession.* `peer` is what `m_peerConnectionMutex` protects. A promise or signal
handler of GStreamer is a record in `callbacks` with the session it was made for, and
is answered at any later time or never. The listener's handlers and posted tasks run
one at a time and in order, as websocketpp runs them.

*AppLifecycle.* `main` walks a sequence of start steps, leaves it at a failure, and
walks the sequence of cleanup steps. The capture thread's loop is one action per call
into the SDK or the store. `FrameLayout` keeps of an image its format, size, stride
and bytes. Before the start, `ParseOption` takes one option at a time (`CommandLine`);
`Configured` keeps what the start needs of the configuration.

## Runs

| run | bounds | states | shows |
|---|---|---|---|
| `scene_safety` | 2 readers, 2 writers, 2 versions, both policies, symmetric threads | 34 444 | no lost wakeup; never everybody refused; `SceneLock` implemented |
| `scene_one_reader` | 1 reader, 2 writers | 2 510 | a read blocked behind a writer goes first; a Greedy reader always gets in; under Balanced writers do |
| `frame_store` | history 3, queue 2, 4 ids, one content defect, 1 rejection counted | 38 506 | index and bound, pending frames kept, lifecycle against sets, completion for good, `FrameHandOff` implemented; accepted frames are completed |
| `scene_builder` | 4 frames, 2 image sizes, 2 version records, queue 2, 2 starts, 1 reader | 71 752 | committed reads, records, acknowledgements, clean end; frames are built where readers do not starve the write; a stop ends the loop once the readers have left |
| `scene_viewer` | 2 poses, 3 generations, 2 outputs, 1 publication, 2 starts, both loop policies | 505 292 | wakeups, outputs in order, one render per pose and loop, progress |
| `pose_sources` | 2 clients, 3 poses, 3 generations, 2 stored frames, 4 ids | 1 042 544 | the seed is the first pose, the frame it needs is kept, a client's messages move the pose it found |
| `viewer_dump` | 2 pictures, store of 3, 3 frames to dump, 5 outputs | 3 234 924 | what is written are the changes of picture, in order; the summary covers the dump and the log |
| `render_server` | 2 clients, 2 requests each | 1 571 180 | each client gets the replies to its own requests; when one leaves the next is served |
| `webrtc_session` | 2 clients, local candidates for one session | 497 496 | sessions kept apart, watchdog, push flag, negotiation and `stop` end |
| `app_lifecycle` | up to 4 arguments, 4 frames, clock to 4, 7 color and 5 depth images | 216 638 | configuration, camera bracketed, submitted frames fit, cleanup ends |

Two more runs show a disagreement between the code and a text of the repository;
`PROJECT.json` quotes both under "findings".

| run | the code does |
|---|---|
| `webrtc_timeout` | the watchdog's close hits the client active after the unlock, which may be a newer one than the one that timed out |
| `render_black_frame` | what the render callback returns is dropped, and a picture that was filled in part is sent as it is, where the header promises a black frame |

SharedScene promises less than one might read into it, mostly in ways that do not arise
in the program as `main` puts it together. With two readers, the one priority flag is cleared
by whichever is granted, so a blocked one may be passed; under Balanced, a reader that
blocks behind a *waiting* writer raises no flag and may starve; and a write lease that
ends without `publish()` leaves its changes in place for readers. There is one reader,
the default policy is Greedy, and the builder always publishes or leaves the scene
alone, as `scene_one_reader` and `scene_builder` show.

One way does arise. Under Greedy a read ignores waiting writers, and the viewer need not
pause between two reads: its event loop goes on at once when a newer pose has come during
the render, its hot loop when the render took longer than the period. Nothing here says
that such a viewer lets the builder write. `FramesBuilt` therefore has a condition,
`WaitingWriteNotOvertaken`; without it TLC finds the viewer reading again and again while
a frame waits at `write`.

### Why the bounds are enough

SharedScene has two kinds of threads and one condition variable. Two of each kind
give every pair of threads that can meet, with one more left asleep; the proofs remove
the bound. The program runs one reader and one writer.

In FrameStore a history of 3 over a queue of 2 is the smallest in which a frame in the
queue, one in flight and one completed are in the history together; 4 ids fill it and
evict. With as many ready as stored frames, the default, a full queue is never
seen because the history fills first; that is why the ready limit is lower here.

SceneBuilder needs a third frame to see the version history drop a record and a
second image size for the rebuild of the pipeline; a second start uses the runner
again after a join, with whatever the first one left behind. In SceneViewer the third
generation arrives while the second is rendered and the first is in the outputs; a
second start finds the generations and the outputs of the first.

In PoseSources three poses tell a baseline, a relative pose and their composition
apart, two clients supersede each other with a message in flight, and two stored frames
under four ids are evicted while the seeder is between version and frame. In ViewerDump
five outputs over a store of three make snapshots overlap and outputs fall out between
polls, and three frames with two pictures show a picture that comes back. In
RenderServer the second client waits in the queue while the first is served, and two
requests can be answered, cut short or sent ahead. The command lines of AppLifecycle
are all sequences of up to four of ten arguments, so two options with their values or
four flags, right and wrong, in every order.

WebRtcSession's second client supersedes the first at any point; a third would
repeat it. A client answers once and sends one candidate; one that
sends answers that cannot be parsed without end arms the watchdog anew each time
(`WebRtcServer.cpp:462`), and `NegotiationEnds` does not speak of it. Candidates found by the
server are handled alike for every session, and one that outlives its session is the
interesting one, so only the first session has any (`Gathering`).

In AppLifecycle four frames allow one accepted, one refused, one not built and one
more; the images are whole ones with and without padded rows, and each kind of broken
one. The proofs remove both bounds.

## Fairness

A thread that can run does; beyond that:

* *SharedScene*: no thread is obliged to ask for a lease, and nothing relies on
  spurious wakeups.
* *FrameStore*: strong fairness for the consumer's steps that need the store's mutex,
  which the producer takes again and again; a mutex is not held from a waiting thread
  for ever. The producer owes no new frame.
* *SceneBuilder*: weak fairness only; a write is granted if the scene stays free. What
  more is needed stands in the properties. `FramesBuilt` holds of behaviours in which
  reads do not come and go for ever past one waiting write (`WaitingWriteNotOvertaken`):
  `BalancedWritersAdmitted` shows this of the lock under Balanced, and under Greedy it
  is up to the viewer's pace. `StopEndsLoop` holds of behaviours in which there are no
  readers once a stop request stands (`ReadersLeftAtStop`): under either policy `main`
  sees to that, since it joins the viewer before it stops the builder.
* *SceneViewer*: strong fairness of `AcquireRead`, which `GreedyReaderAdmitted` shows
  for the default policy, and of `Timeout`: the deadline of `wait_for` with a predicate
  is absolute, so spurious wakeups do not postpone it. A thread that has stored a pose
  goes on to notify, and a builder that writes ends its write.
* *RenderServer*: the server's thread runs; clients owe nothing and may stay silent.
* *WebRtcSession*: the listener, the pump and `stop` run, and a close that the server
  has begun ends, since websocketpp bounds its closing handshake. Clients and
  GStreamer owe nothing: an answer or a promise may never come.
* *AppLifecycle*: `main` parses, starts and cleans up; while it serves nobody need stop
  it, but a dump has a timeout. The capture call has one too, and a thread asked to stop
  ends. The last is what `StopEndsLoop` shows of the builder, whose condition `StopOrder`
  meets and whose check the viewer's loop repeats between waits with timeouts, and
  `StopReturns` of the WebRTC server unless a client connects just after `stop` looked
  for one.

`CHECK_DEADLOCK FALSE` is set where the system may stop: frames end at a bound, threads
end when asked, clients leave.

## Proofs

Seven modules prove theorems of nine specifications, `SortedQueues` holds lemmas they
share. Each proof has the same plan: an inductive invariant, one lemma per action that
it is preserved, `Invariance` (`Spec => []IInv`), and the properties as consequences.
Where a later property needed more, a second invariant stands beside the first, and uses
it. TLC checked each on the instances above before it was proved. No theorem depends on
the bounds of the runs. Every invariant and action property that a passing run checks is
proved.

| module | obligations | holds for | assumes |
|---|---|---|---|
| `SharedSceneProofs` | 706 | any threads, either policy | finite, disjoint sets of threads |
| `FrameStoreProofs` | 1051 | any history and queue sizes, any defects | limits of at least one |
| `SceneBuilderProofs` | 721 | any readers, image sizes, starts, any version store | a capacity of at least one; "None" is no layout |
| `SceneViewerProofs` | 443 | any producers, poses, starts, any output store, both loop policies | a capacity of at least one; poses are `0..PoseCount-1` |
| `PoseSourcesProofs` | 476 | any clients and poses, any frame store | clients, seeder and listener are distinct |
| `WebRtcSessionProofs` | 2330 | any number of clients, callbacks of any delay | a client there may be |
| &nbsp; on RenderServer | | any set of clients, any number of requests | `NoTcpClient` is none of them |
| `AppLifecycleProofs` | 1908 | any images, any clock, any set of command lines | arguments are strings, and numbers read from them natural; images are typed as the SDK types them |
| &nbsp; on ViewerDump | | any pictures, any capacity, any number of frames | capacity and frames at least one |
| `SortedQueues` | 413 | any sequences | |

*SharedScene.* `CountersExact`, `Exclusion`, `LeaseVersion`, `WakeupsSuffice`,
`NobodyStuck`; `Refinement`, that every step is a step of `SceneLock` or none; and
`BlockedReadPriority`: with one reader, and only then, a blocked read goes before the next
writer. Admission reads counters, so these must be the cardinalities of the sets of
threads (`CountersMatchThreads`). Lost wakeups need in addition that the priority flag is
never up without a reader waiting for it (`PendingHasWaiter`): otherwise a writer could
sleep behind a flag that nobody will clear.

*FrameStore.* `PendingRetained`, `LifecycleMatches`, and `Refinement`, that the store is
the FIFO hand-off `FrameHandOff`. The sets of ids lag behind the lock-free queue, by the
frame between the pop and its registration and by the one being submitted
(`SetsMatchQueue`). That a dispatch cannot overtake its submission needs the order of ids:
everything in the queue is newer than what was taken from it (`QueueOrdered`), and the
frame under submission is the newest (`SubmissionAhead`). `HistoryIsIndexed` and
`CompletionIsFinal` rest on a second invariant, `HInv`: a full history has an evictable
frame from the moment the validator has found one until the new frame is recorded, since
nobody else changes it under the mutex (`RoomToRecord`), and only recorded frames are done
with (`DoneIsRecorded`), so that a frame's entry is written before it can be final.

*SceneBuilder.* `CommittedStateOnly`, `RecordsMatch`, `AcknowledgedAsPublished`,
`CleanEnd`. The invariant says at each place of the thread what it has in its hands: a
frame and the write lease (`HandAndLease`), uncommitted changes (`UncommittedUnderLease`),
and that the scene holds exactly the consumed frames and the one in hand once it is fused
(`FusedFrames`). A version is the position of its frame in the fusion (`FusionNumbered`),
so that the records of the bounded store can be compared with it (`Recorded`).
`NoFrameLost`: an accepted frame waits, is in hand, was consumed or failed, one of these;
no step makes one disappear, or takes back what became of it.

*SceneViewer.* `PoseWakeups`, `OutputsInOrder`, `RenderedOnce`. Outputs are behind the
latest pose, the pose in hand and the committed scene (`OutputsBehind`); under Event the
loop takes only poses newer than what it has shown (`EventWaits`). `LeaseHeld` carries
that the version drawn is the one an output is labelled with.

*PoseSources.* `SeedIsFirst`, `MessagesMoveOwnBaseline`, `SeedFrameStays`. The seeder
looks for a pose once and stores one much later. No client can have set one in between, because a relative pose
needs a baseline and a baseline is a pose that was there (`BaselineWasLatest`). A
superseded client's message in flight is still applied, to the new client's baseline; the
property is about the messages of the client whose channel is active, which do not build
on it, and rests on sessions coming once (`ClientsComeOnce`, `BaselineIsCaptured`).
`SeedFrameStays` is about the frame of the newest version: eviction takes the oldest
frames that are not pending, so it goes only when a history of newer ones is there. It
needs the history sorted and the pending frames in it (`FramesOrdered`), and the newest
version's frame behind everything still to be fused (`VersionBehindPending`).

*WebRtcSession.* `OffersReachClients`, `PlaysAnswered`, `CandidatesKeptForSession`,
`WatchdogGuards`, `VideoFollows`. The argument is one of order. Clients open one after
another, the active one is the last that did (`ConnectionsInOrder`), and each starts up
once, in its turn (`StartupsInOrder`); so sessions have ever newer clients
(`SessionsInOrder`). Callbacks, tasks and messages name a session and its client
(`CallbacksNamed`, `TasksNamed`, `ReceivedNamed`). Hence what the active client has
received is of the session there is (lemma `ReceivedOfSession`), its answer is an answer
to that session's offer (`Negotiated`), and its candidate waits or is applied there
(`CandidatesKept`). Video needs that a notification that is out tells of the link as it
is (`PushFollowsLink`). `StopIsFinal`: once `stop` has returned there is no session,
client or task, and no callback that is still out changes that, since each compares its
session with none.

*RenderServer.* `RepliesMatch`. A client is served once, so nothing was read from or
written to one that is still in the queue (`ServedInTurn`); and the server is one reply
behind what it has read, or none, what is left to write continuing where the parts
written end (`RepliesUnderWay`, `InReply`, `RestOfReply`). Then the next part written has
the place that the property gives it (lemma `NextPlace`).

*AppLifecycle.* `CameraSafe`: the capture thread is not running before its start nor after
its join (`CaptureBracketed`). `SubmittedFit` needs that ids and timestamps taken stay
below the counters (`TicketsOrdered`), and the lemma `AssembledFit` about images: what the
capture side lets through satisfies both later checks and is read inside its buffer.
`ReturnsAtRest`: `main` returns with no thread running and the camera closed, from
whichever step it cleaned up, because what it has joined stays down (`ClearedSoFar`).
`ConfigFollows` has as its invariant that the configuration is what the arguments parsed
so far ask for (`ParsedSoFar`: `OptionsDealtWith`, `FieldsFollow`, `DumpFollows`). Which
arguments are options is defined recursively, from the first on; the proof replaces
that by a closed form, the parity of the run of arguments right before that would take a
value (lemmas `RunStep`, `OptionsAlternate`).

*ViewerDump.* `DumpFollowsChanges`, `SummaryAccounts`. Snapshots overlap and skip, but
each goes on where the one before ended, but for what the store has dropped
(`SnapshotsInOrder`). What was written are therefore, at each moment, the first changes
among the outputs handled so far (`DumpInStep`), and until there are enough the last of
them shows what the last output handled does (`ShowsLast`). For the summary the log has reported what was counted (`OutputsCounted`) and nothing is counted after it
(`Summarised`).

Only model-checked is what holds under fairness, which the prover does not reach:
`FramesBuilt`, `StopEndsLoop`, `LatestPoseShown`, `AcceptedFramesCompleted`,
`GreedyReaderAdmitted`, `BalancedWritersAdmitted`, `NegotiationEnds`, `StopReturns`,
`NextClientServed` and `CleanupEnds`. For some of them a theorem states the safety they
rest on: `NoFrameLost`, `StopIsFinal`, `ReturnsAtRest`, `PoseWakeups`, `NobodyStuck`.

Two choices in the models are there for the proofs. Filters and windows of sequences are
written as functions (`Without`, `Recent`, `Reply`) rather than with the library's
recursive operators, and properties of sequences compare elements rather than whole
sequences. And there is no induction over data: where a proof needs one, it looks at the
least element of a set of counterexamples (lemmas `LeastElement`, `ReachesAll`).

## Not modelled

* Of FrameStore: the lifecycle map keeps an entry for every id for as long as the process
  runs (`FrameLifecycleTracker.cpp:35`); ids are bounded here, so that its growth is not
  seen.
* Of WebRtcServer: the messages that greet a new data channel, the filtering of SDP and
  candidates, bus logging, the buffers pushed. Whether GStreamer's state change waits for
  a callback that waits for the server's mutex is decided outside the repository. A
  client whose negotiation failed is told nothing; no document promises more, and
  `NegotiationEnds` counts the session as gone.
* Of Config: the table of camera resolutions in `K4aConfig.cpp`; that a size may be
  missing from it is a step of AppLifecycle that can fail.
* Of Capture: the SDK's scoped handles, released by destructors on every path, the
  intrinsics' values, and the runner's status counters.
* Of the debug session: file formats, directory names and the rates per second.
* Values: poses as matrices, pixels, depth conversion and tracking results are reduced to
  what the control flow asks of them.
* Exceptions from allocation, 64-bit counters wrapping around.

## Plan

Done, in this order: SharedScene with its abstract lock and proofs; FrameStore with its
hand-off; SceneBuilder over both; ViewerPoseStore and SceneViewer; Signalling and
WebRtcSession; FrameLayout and AppLifecycle with proofs; then the sources of poses, the
debug dump, the render server, the command line, the viewer's runner, and the proofs of
FrameStore, SceneBuilder, SceneViewer, PoseSources and WebRtcSession; then those of the
history, the seeder's frame, the command line, the dump and the render server.

Left, most useful first:

1. *The data channel's own life*: its opening, the greetings sent when it opens, and the
   status of the viewer that they report.
2. *Sessions and poses together*: `WebRtcSession` composed with `PoseSources`, in place of
   the latter's free choice of when sessions are built and go.
3. *Composition*: that the builder's and the viewer's use of `SceneLock` and
   `FrameHandOff` are behaviours of these, as theorems.

## Running

    tlc -config SharedScene_safety.cfg MCSharedScene
    tlc -config SharedScene_one_reader.cfg MCSharedScene
    tlc -config FrameStore.cfg FrameStore
    tlc -config SceneBuilder.cfg SceneBuilder
    tlc -config SceneViewer.cfg SceneViewer
    tlc -config PoseSources.cfg PoseSources
    tlc -config ViewerDump.cfg ViewerDump
    tlc -config RenderServer.cfg RenderServer
    tlc -config RenderServer_black_frame.cfg RenderServer
    tlc -config WebRtcSession.cfg WebRtcSession
    tlc -config WebRtcSession_timeout.cfg WebRtcSession
    tlc -config AppLifecycle.cfg MCAppLifecycle

and `tlapm M.tla` for each module of proofs. `MC` modules and `.cfg` files hold the
bounds.

Definitions introduced by a comment "Mutant" are deliberate faults of the definition
below them, in the way the code could have them. They are used by no specification:
each property has one that, put in place of the real definition, violates it.
