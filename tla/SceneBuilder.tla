----------------------------- MODULE SceneBuilder -----------------------------
(***************************************************************************)
(* The builder thread: it takes frames from the FrameStore, integrates     *)
(* them into the SharedScene and records scene versions (src/builder, and  *)
(* SceneVersionStore of src/model).  The FrameStore and the SharedScene    *)
(* appear as what they are shown to implement, FrameHandOff and SceneLock. *)
(***************************************************************************)
EXTENDS Integers, FiniteSets, SequencesExt

CONSTANTS
  Readers,          \* the threads that read the scene: the viewer
  Layouts,          \* image sizes of a frame; a change rebuilds the pipeline
  VersionCapacity,  \* SceneVersionStore, after the constructor's max(1, .)
  MaxReadyFrames,
  MaxFrameId,       \* bound on the ids, and so on the scene versions
  MaxStarts         \* bound on the calls of start()

ASSUME CapacityAssumption == VersionCapacity \in Nat \ {0}

\* "None" is the pipeline's layout before its first frame.
ASSUME LayoutsAssumption == "None" \notin Layouts

ASSUME BoundsAssumption == MaxFrameId \in Nat

VARIABLES
  waiting, taken, newest,                \* the FrameStore, as FrameHandOff
  consumed, failed,                      \* its frames in these lifecycle states
  reading, writing, committed, visible,  \* the SharedScene, as SceneLock
  uncommitted,     \* the voxel scene holds changes not published
  integrated,      \* the frames fused into the voxel scene, in that order
  versions,        \* SceneVersionHistory::m_history, oldest first
  pipeline,        \* InfiniTamPipeline: its image size, and m_trackingInitialised
  task,            \* the frame that buildFrame works on, and its version
  pc,              \* where the builder thread stands
  joinable,        \* m_thread.joinable()
  running,         \* m_running
  stopRequested,   \* m_stopRequested
  status,          \* m_status
  stopping,        \* requestStop stands between its two steps
  starts

frameVars == <<waiting, taken, newest, consumed, failed>>
sceneVars == <<reading, writing, committed, visible>>
contentVars == <<uncommitted, integrated>>
controlVars == <<joinable, running, stopRequested, status, stopping, starts>>
vars == <<frameVars, sceneVars, contentVars, versions, pipeline, task, pc,
          controlVars>>

Builder == "builder"

Store == INSTANCE FrameHandOff
Scene == INSTANCE SceneLock WITH Writers <- {Builder}, MaxVersion <- MaxFrameId

FrameIds == 1..MaxFrameId

\* copyFrameToView refuses a frame whose layout it cannot convert.
Unconvertible == "Unconvertible"
NoTask == [frameId |-> 0, layout |-> Unconvertible, versionId |-> 0]

Init ==
  /\ Store!Init
  /\ Scene!Init
  /\ consumed = {} /\ failed = {}
  /\ uncommitted = FALSE
  /\ integrated = <<>>
  /\ versions = <<>>
  /\ pipeline = [layout |-> "None", trackingInitialised |-> FALSE]
  /\ task = NoTask
  /\ pc = "none"
  /\ joinable = FALSE
  /\ running = FALSE
  /\ stopRequested = FALSE
  /\ status = [running |-> FALSE, stopRequested |-> FALSE,
               consumed |-> 0, failed |-> 0, lastSceneVersionId |-> 0]
  /\ stopping = FALSE
  /\ starts = 0

-----------------------------------------------------------------------------
(* The ingestor and the readers                                            *)

Accept(id) ==
  /\ Store!Accept(id)
  /\ UNCHANGED <<consumed, failed, sceneVars, contentVars, versions, pipeline,
                 task, pc, controlVars>>

BeginRead(r) ==
  /\ Scene!GrantRead(r)
  /\ UNCHANGED <<frameVars, contentVars, versions, pipeline, task, pc,
                 controlVars>>

EndRead(r) ==
  /\ Scene!DropRead(r)
  /\ UNCHANGED <<frameVars, contentVars, versions, pipeline, task, pc,
                 controlVars>>

-----------------------------------------------------------------------------
(* SceneBuilderRunner::runLoop                                             *)

\* Mutant: the loop never looks at m_stopRequested.
LoopForever == FALSE

LoopEnds == stopRequested

LoopCheck ==
  /\ pc = "loop"
  /\ pc' = IF LoopEnds THEN "stopping" ELSE "dequeue"
  /\ UNCHANGED <<frameVars, sceneVars, contentVars, versions, pipeline, task,
                 controlVars>>

Dequeue ==
  /\ pc = "dequeue"
  /\ Store!Take
  /\ \E layout \in Layouts \cup {Unconvertible} :
       task' = [frameId |-> Head(waiting), layout |-> layout, versionId |-> 0]
  /\ pc' = "view"
  /\ UNCHANGED <<consumed, failed, sceneVars, contentVars, versions, pipeline,
                 controlVars>>

DequeueTimeout ==
  /\ pc = "dequeue"
  /\ waiting = <<>>
  /\ pc' = "loop"
  /\ UNCHANGED <<frameVars, sceneVars, contentVars, versions, pipeline, task,
                 controlVars>>

-----------------------------------------------------------------------------
(* SceneBuilder::buildFrame                                                *)

\* Mutant: a stop request is honoured with a frame in hand.
PrepareUnlessStopped ==
  /\ pc = "view"
  /\ pc' = IF stopRequested THEN "stopping"
           ELSE IF task.layout = Unconvertible THEN "fail" ELSE "write"
  /\ UNCHANGED <<frameVars, sceneVars, contentVars, versions, pipeline, task,
                 controlVars>>

PrepareView ==
  /\ pc = "view"
  /\ pc' = IF task.layout = Unconvertible THEN "fail" ELSE "write"
  /\ UNCHANGED <<frameVars, sceneVars, contentVars, versions, pipeline, task,
                 controlVars>>

AcquireWrite ==
  /\ pc = "write"
  /\ Scene!GrantWrite(Builder)
  /\ pc' = "ensure"
  /\ UNCHANGED <<frameVars, contentVars, versions, pipeline, task, controlVars>>

NeedsPipelineReset == pipeline.layout # task.layout

\* Mutant: every reset of the pipeline clears the scene.
ResetClearsScene == TRUE

ResetClearsNewScene == pipeline.layout = "None"

EnsurePipeline ==
  /\ pc = "ensure"
  /\ IF NeedsPipelineReset
       THEN pipeline' = [layout |-> task.layout, trackingInitialised |-> FALSE]
       ELSE UNCHANGED pipeline
  /\ IF NeedsPipelineReset /\ ResetClearsNewScene
       THEN uncommitted' = TRUE /\ integrated' = <<>>
       ELSE UNCHANGED contentVars
  /\ pc' = "track"
  /\ UNCHANGED <<frameVars, sceneVars, versions, task, controlVars>>

\* Mutant: tracking runs although there is nothing to track against.
TrackRegardless == {"integrate", "lost"}

\* Tracking, when there is something to track against, succeeds or is lost.
TrackingOutcomes ==
  IF pipeline.trackingInitialised THEN {"integrate", "lost"} ELSE {"integrate"}

Track ==
  /\ pc = "track"
  /\ pc' \in TrackingOutcomes
  /\ UNCHANGED <<frameVars, sceneVars, contentVars, versions, pipeline, task,
                 controlVars>>

Integrate ==
  /\ pc = "integrate"
  /\ integrated' = Append(integrated, task.frameId)
  /\ uncommitted' = TRUE
  /\ pipeline' = [pipeline EXCEPT !.trackingInitialised = TRUE]
  /\ pc' = "publish"
  /\ UNCHANGED <<frameVars, sceneVars, versions, task, controlVars>>

Publish ==
  /\ pc = "publish"
  /\ Scene!Publish(Builder)
  /\ uncommitted' = FALSE
  /\ task' = [task EXCEPT !.versionId = committed + 1]
  /\ pc' = "release"
  /\ UNCHANGED <<frameVars, integrated, versions, pipeline, controlVars>>

\* Mutant: a lost frame goes on as if it had been published.
ReleaseAndRecord ==
  /\ pc \in {"release", "lost"}
  /\ Scene!DropWrite(Builder)
  /\ pc' = "record"
  /\ UNCHANGED <<frameVars, contentVars, versions, pipeline, task, controlVars>>

\* The end of the block that owns the write access.
ReleaseWrite ==
  /\ pc \in {"release", "lost"}
  /\ Scene!DropWrite(Builder)
  /\ pc' = IF pc = "lost" THEN "fail" ELSE "record"
  /\ UNCHANGED <<frameVars, contentVars, versions, pipeline, task, controlVars>>

\* SceneVersionStore::add, which drops the oldest versions beyond its capacity.
Newest(s, n) == IF Len(s) <= n THEN s ELSE SubSeq(s, Len(s) - n + 1, Len(s))

AddVersion ==
  /\ pc = "record"
  /\ versions' = Newest(Append(versions, [versionId |-> task.versionId,
                                          frameId |-> task.frameId]),
                        VersionCapacity)
  /\ pc' = "consume"
  /\ UNCHANGED <<frameVars, sceneVars, contentVars, pipeline, task, controlVars>>

-----------------------------------------------------------------------------
(* The rest of the loop body                                               *)

\* Mutant: only consumed frames are acknowledged.
MarkConsumedOnly ==
  /\ pc \in {"consume", "fail"}
  /\ IF pc = "consume"
       THEN Store!Complete(task.frameId) /\ consumed' = consumed \cup {task.frameId}
       ELSE UNCHANGED <<waiting, taken, newest, consumed>>
  /\ pc' = "result"
  /\ UNCHANGED <<failed, sceneVars, contentVars, versions, pipeline, task,
                 controlVars>>

MarkFrame ==
  /\ pc \in {"consume", "fail"}
  /\ Store!Complete(task.frameId)
  /\ IF pc = "consume"
       THEN consumed' = consumed \cup {task.frameId} /\ UNCHANGED failed
       ELSE failed' = failed \cup {task.frameId} /\ UNCHANGED consumed
  /\ pc' = "result"
  /\ UNCHANGED <<sceneVars, contentVars, versions, pipeline, task, controlVars>>

\* A frame that was consumed has a version, one that failed has none.
RecordResult ==
  /\ pc = "result"
  /\ status' = IF task.versionId # 0
       THEN [status EXCEPT !.consumed = @ + 1,
                           !.lastSceneVersionId = task.versionId]
       ELSE [status EXCEPT !.failed = @ + 1, !.lastSceneVersionId = 0]
  /\ task' = NoTask
  /\ pc' = "loop"
  /\ UNCHANGED <<frameVars, sceneVars, contentVars, versions, pipeline, joinable,
                 running, stopRequested, stopping, starts>>

\* setRunning(false): the atomic first, the status under its mutex.
StopRunning ==
  /\ pc = "stopping"
  /\ running' = FALSE
  /\ pc' = "stopped"
  /\ UNCHANGED <<frameVars, sceneVars, contentVars, versions, pipeline, task,
                 joinable, stopRequested, status, stopping, starts>>

\* Mutant: the loop's end does not reload m_stopRequested.
ReportPlainlyStopped ==
  /\ pc = "stopped"
  /\ status' = [status EXCEPT !.running = FALSE, !.stopRequested = FALSE]
  /\ pc' = "ended"
  /\ UNCHANGED <<frameVars, sceneVars, contentVars, versions, pipeline, task,
                 joinable, running, stopRequested, stopping, starts>>

ReportStopped ==
  /\ pc = "stopped"
  /\ status' = [status EXCEPT !.running = FALSE, !.stopRequested = stopRequested]
  /\ pc' = "ended"
  /\ UNCHANGED <<frameVars, sceneVars, contentVars, versions, pipeline, task,
                 joinable, running, stopRequested, stopping, starts>>

-----------------------------------------------------------------------------
(* The thread that owns the runner: start, requestStop, join               *)

Start ==
  /\ ~joinable /\ ~running /\ ~stopping
  /\ starts < MaxStarts
  /\ starts' = starts + 1
  /\ stopRequested' = FALSE
  /\ running' = TRUE
  /\ status' = [status EXCEPT !.running = TRUE, !.stopRequested = FALSE]
  /\ joinable' = TRUE
  /\ pc' = "loop"
  /\ UNCHANGED <<frameVars, sceneVars, contentVars, versions, pipeline, task,
                 stopping>>

RequestStop ==
  /\ ~stopping
  /\ stopRequested' = TRUE
  /\ stopping' = TRUE
  /\ UNCHANGED <<frameVars, sceneVars, contentVars, versions, pipeline, task, pc,
                 joinable, running, status, starts>>

ReportStopRequested ==
  /\ stopping
  /\ stopping' = FALSE
  /\ status' = [status EXCEPT !.stopRequested = TRUE]
  /\ UNCHANGED <<frameVars, sceneVars, contentVars, versions, pipeline, task, pc,
                 joinable, running, stopRequested, starts>>

Join ==
  /\ joinable /\ ~stopping
  /\ pc = "ended"
  /\ joinable' = FALSE
  /\ pc' = "none"
  /\ UNCHANGED <<frameVars, sceneVars, contentVars, versions, pipeline, task,
                 running, stopRequested, status, stopping, starts>>

-----------------------------------------------------------------------------
RunnerStep ==
  \/ LoopCheck \/ Dequeue \/ DequeueTimeout
  \/ PrepareView \/ EnsurePipeline \/ Track \/ Integrate \/ Publish
  \/ ReleaseWrite \/ AddVersion \/ MarkFrame \/ RecordResult
  \/ StopRunning \/ ReportStopped

Next ==
  \/ \E id \in FrameIds : Accept(id)
  \/ \E r \in Readers : BeginRead(r) \/ EndRead(r)
  \/ RunnerStep
  \/ AcquireWrite
  \/ Start \/ RequestStop \/ ReportStopRequested \/ Join

Spec == Init /\ [][Next]_vars

(***************************************************************************)
(* The thread runs, its dequeue times out and a reader's render ends.  A   *)
(* write() is granted if the scene stays free: nothing is assumed of one   *)
(* that readers overtake, since a Greedy read does not look at waiting     *)
(* writers (SceneAccessLease.cpp:13).                                      *)
(***************************************************************************)
Fairness ==
  /\ WF_vars(RunnerStep)
  /\ WF_vars(AcquireWrite)
  /\ \A r \in Readers : WF_vars(EndRead(r))

FairSpec == Spec /\ Fairness

-----------------------------------------------------------------------------
(* Properties                                                              *)

PCs == {"none", "loop", "dequeue", "view", "write", "ensure", "track",
        "integrate", "publish", "release", "lost", "record", "consume", "fail",
        "result", "stopping", "stopped", "ended"}

\* The members of SceneBuilderStatus that the loop keeps.
IsStatus(s) ==
  s = [running |-> s.running, stopRequested |-> s.stopRequested, consumed |-> s.consumed,
       failed |-> s.failed, lastSceneVersionId |-> s.lastSceneVersionId]

\* The type invariant: the state of the builder.
TypeOK ==
  /\ waiting \in Seq(FrameIds) /\ newest \in Nat
  /\ consumed \subseteq FrameIds /\ failed \subseteq FrameIds
  /\ committed \in Nat
  /\ integrated \in Seq(FrameIds)
  /\ versions \in Seq([versionId : Nat, frameId : FrameIds])
  /\ pipeline \in [layout : Layouts \cup {"None", Unconvertible},
                   trackingInitialised : BOOLEAN]
  /\ task \in [frameId : 0..MaxFrameId, layout : Layouts \cup {Unconvertible},
               versionId : Nat]
  /\ pc \in PCs
  /\ IsStatus(status)

\* What SharedScene alone does not give (a lease may end unpublished), the
\* builder's discipline does: a lost frame has touched nothing
\* (SceneBuilder.cpp:35-46), so readers only ever see committed state.
ReadersSeeCommittedState == reading # {} => ~uncommitted

\* The version store lags the scene by at most the version the builder is about
\* to add, holds the newest versions without a gap, and the record of version v
\* names the v-th frame fused into the scene (SceneBuilder.cpp:52-57).
VersionsMatchScene ==
  LET known == committed - (IF pc \in {"release", "record"} THEN 1 ELSE 0)
  IN  /\ Len(versions) = IF known < VersionCapacity THEN known ELSE VersionCapacity
      /\ \A i \in DOMAIN versions :
           /\ versions[i].versionId = known - Len(versions) + i
           /\ versions[i].versionId \in DOMAIN integrated
           /\ versions[i].frameId = integrated[versions[i].versionId]

\* A frame is marked consumed exactly when a version was published for it, and
\* none is both consumed and failed (SceneBuilderRunner.cpp:74-80).
ConsumedFramesPublished ==
  /\ committed = Cardinality(consumed)
                   + (IF pc \in {"release", "record", "consume"} THEN 1 ELSE 0)
  /\ consumed \subseteq ToSet(integrated)
  /\ failed \cap ToSet(integrated) = {}

\* A loop that ended leaves no frame dispatched and unacknowledged: it looks at
\* the stop request only between frames (SceneBuilderRunner.cpp:66-83).  And
\* however requestStop and the end of the loop interleave, the status they leave
\* says stopped on request (SceneBuilderRunner.cpp:40-44, 105-110).
EndsCleanly ==
  /\ pc \in {"none", "stopping", "stopped", "ended"} => taken = {}
  /\ pc = "ended" /\ ~stopping =>
       status.stopRequested /\ ~status.running /\ ~running

\* Reads do not come and go for ever past one write that waits.  Balanced keeps
\* this, which is BalancedWritersAdmitted of SharedScene.  Greedy does not: there
\* it is a condition on the viewer, whose loops pause (SceneViewerRunner.cpp:73-116)
\* only if no newer pose has come meanwhile, or if a render is faster than the
\* loop's period.
WaitingWriteNotOvertaken == <>[](pc = "write") => <>[](reading = {})

\* Where readers do not starve the write, every accepted frame is built or
\* refused, unless the builder is stopped or was never started.
FramesBuilt ==
  WaitingWriteNotOvertaken =>
    \A id \in FrameIds :
      (id \in ToSet(waiting) /\ running)
        ~> (id \in consumed \cup failed \/ stopRequested)

\* Once a stop request stands for good there are no readers: main joins the
\* viewer before it stops the builder (main.cpp:106-109).
ReadersLeftAtStop == <>[](stopRequested => reading = {})

\* In main's order of cleanup a stop request ends the loop under either policy,
\* although the loop may be blocked in its dequeue or in write().
StopEndsLoop ==
  ReadersLeftAtStop => ((stopRequested /\ joinable) ~> pc = "ended")
=============================================================================
