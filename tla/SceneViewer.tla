------------------------------ MODULE SceneViewer ------------------------------
(***************************************************************************)
(* The viewer thread: it waits for a newer pose, or samples the latest one,*)
(* renders it under a read lease and publishes the output (src/viewer, and *)
(* ViewerPoseStore and RenderOutputStore of src/model).  Another thread    *)
(* starts it, asks it to stop and joins it, more than once.  The           *)
(* SharedScene appears as the SceneLock it implements.                     *)
(***************************************************************************)
EXTENDS ViewerPoseStore, SequencesExt

CONSTANTS
  Policies,        \* the loop policies the viewer may be configured with
  OutputCapacity,  \* RenderOutputStore, after the constructor's max(1, .)
  MaxVersion,      \* bound on the number of publications
  MaxStarts        \* bound on the starts of the runner

ASSUME PoliciesAssumption == Policies \subseteq {"Event", "HotLoop"}
ASSUME OutputCapacityAssumption == OutputCapacity \in Nat \ {0}

VARIABLES
  loopPolicy,          \* chosen by the configuration, never changed
  pc,                  \* where the viewer thread stands
  viewerPose,          \* the pose runLoop holds
  lastPoseGeneration,
  stopRequested,
  starts,              \* how often the runner was started
  outputs,             \* RenderOutputStore::m_history, oldest first
  reading, writing, committed, visible  \* the SharedScene, as SceneLock

loopVars == <<loopPolicy, viewerPose, lastPoseGeneration, stopRequested, starts>>
sceneVars == <<reading, writing, committed, visible>>
vars == <<poseVars, pc, loopVars, outputs, sceneVars>>

Viewer == "viewer"
Builder == "builder"

Scene == INSTANCE SceneLock WITH Readers <- {Viewer}, Writers <- {Builder}

Init ==
  /\ PoseInit
  /\ Scene!Init
  /\ loopPolicy \in Policies
  /\ pc = "none"
  /\ viewerPose = NoPose
  /\ lastPoseGeneration = 0
  /\ stopRequested = FALSE
  /\ starts = 0
  /\ outputs = <<>>

MoveTo(place) == pc' = place

-----------------------------------------------------------------------------
(* Producers of poses, and the builder                                     *)

\* An update by the seeder, or by a client's message: a relative pose is stored as
\* an absolute one is.  PoseSources says which poses come, and when.
SetPose ==
  /\ \E p \in Producers, request \in [pose : Poses, renderable : BOOLEAN,
                                      generation : 0..MaxGeneration] :
       Update(p, request)
  /\ UNCHANGED <<pc, loopVars, outputs, sceneVars>>

Notify(p) ==
  /\ NotifyAll(p)
  /\ MoveTo(IF pc = "asleep" THEN "awake" ELSE pc)
  /\ UNCHANGED <<loopVars, outputs, sceneVars>>

BuilderStep ==
  /\ Scene!GrantWrite(Builder) \/ Scene!Publish(Builder) \/ Scene!DropWrite(Builder)
  /\ UNCHANGED <<poseVars, pc, loopVars, outputs>>

-----------------------------------------------------------------------------
(* The thread that owns the runner: start, requestStop, join               *)

\* Mutant: the loop goes on from the generation that the last one reached.
Resume ==
  /\ pc = "none"
  /\ starts < MaxStarts
  /\ starts' = starts + 1
  /\ stopRequested' = FALSE
  /\ MoveTo("loop")
  /\ UNCHANGED <<poseVars, loopPolicy, viewerPose, lastPoseGeneration, outputs,
                 sceneVars>>

\* A runner that was started and not joined refuses.  The new loop has seen no
\* generation, and holds no pose.
Start ==
  /\ pc = "none"
  /\ starts < MaxStarts
  /\ starts' = starts + 1
  /\ stopRequested' = FALSE
  /\ lastPoseGeneration' = 0
  /\ viewerPose' = NoPose
  /\ MoveTo("loop")
  /\ UNCHANGED <<poseVars, loopPolicy, outputs, sceneVars>>

\* Neither m_condition nor the thread is told: the loop looks.
RequestStop ==
  /\ ~stopRequested
  /\ stopRequested' = TRUE
  /\ UNCHANGED <<poseVars, pc, loopPolicy, viewerPose, lastPoseGeneration, starts,
                 outputs, sceneVars>>

Join ==
  /\ pc = "ended"
  /\ MoveTo("none")
  /\ UNCHANGED <<poseVars, loopVars, outputs, sceneVars>>

-----------------------------------------------------------------------------
(* SceneViewerRunner::runLoop                                              *)

LoopCheck ==
  /\ pc = "loop"
  /\ MoveTo(IF stopRequested THEN "ended"
            ELSE IF loopPolicy = "Event" THEN "wait" ELSE "sample")
  /\ UNCHANGED <<poseVars, loopVars, outputs, sceneVars>>

\* Mutant: the wait asks for a pose that is at least as new.
NewerOrSame(generation) == latestPose.generation >= generation

Awaited(generation) == HasNewerGeneration(generation)

\* waitForNewer evaluates its predicate under the mutex, on entry and whenever
\* the condition variable returns, and goes (back) to sleep when it fails.
WaitForNewer ==
  /\ pc \in {"wait", "awake"}
  /\ IF Awaited(lastPoseGeneration)
       THEN viewerPose' = latestPose /\ MoveTo("render")
       ELSE UNCHANGED viewerPose /\ MoveTo("asleep")
  /\ UNCHANGED <<poseVars, loopPolicy, lastPoseGeneration, stopRequested, starts,
                 outputs, sceneVars>>

\* wait_for gives its predicate a last chance; without a pose the loop goes on.
Timeout ==
  /\ pc = "asleep"
  /\ IF Awaited(lastPoseGeneration)
       THEN viewerPose' = latestPose /\ MoveTo("render")
       ELSE UNCHANGED viewerPose /\ MoveTo("loop")
  /\ UNCHANGED <<poseVars, loopPolicy, lastPoseGeneration, stopRequested, starts,
                 outputs, sceneVars>>

SpuriousWake ==
  /\ pc = "asleep"
  /\ MoveTo("awake")
  /\ UNCHANGED <<poseVars, loopVars, outputs, sceneVars>>

Sample ==
  /\ pc = "sample"
  /\ IF latestPose # NoPose
       THEN viewerPose' = latestPose /\ MoveTo("render")
       ELSE UNCHANGED viewerPose /\ MoveTo("loop")
  /\ UNCHANGED <<poseVars, loopPolicy, lastPoseGeneration, stopRequested, starts,
                 outputs, sceneVars>>

-----------------------------------------------------------------------------
(* SceneViewer::renderPose                                                 *)

\* A request that cannot be rendered is dropped, and the loop does not count it
\* as seen: under Event it is waited for again at once.
CheckRequest ==
  /\ pc = "render"
  /\ MoveTo(IF viewerPose.renderable THEN "read" ELSE "loop")
  /\ UNCHANGED <<poseVars, loopVars, outputs, sceneVars>>

\* Mutant: the version is read without taking a lease.
PeekAtScene ==
  /\ pc = "read"
  /\ visible' = [visible EXCEPT ![Viewer] = committed]
  /\ MoveTo("draw")
  /\ UNCHANGED <<poseVars, loopVars, outputs, reading, writing, committed>>

AcquireRead ==
  /\ pc = "read"
  /\ Scene!GrantRead(Viewer)
  /\ MoveTo("draw")
  /\ UNCHANGED <<poseVars, loopVars, outputs>>

\* What an output is labelled with: a pose generation and a scene version.
Rendered == <<viewerPose.generation, visible[Viewer]>>

\* RenderOutputStore::publish keeps the newest outputs.
Newest(s, n) == IF Len(s) <= n THEN s ELSE SubSeq(s, Len(s) - n + 1, Len(s))

Publish ==
  /\ pc = "draw"
  /\ LET cached == outputs # <<>> /\ Last(outputs).shows = Rendered
     IN  outputs' = Newest(Append(outputs, [shows |-> Rendered, pose |-> viewerPose.pose,
                                            cached |-> cached, run |-> starts]),
                           OutputCapacity)
  /\ MoveTo("release")
  /\ UNCHANGED <<poseVars, loopVars, sceneVars>>

\* Mutant: the latest generation is taken for the rendered one.
LatestSeen == latestPose.generation

GenerationSeen == viewerPose.generation

\* renderPose returns, which ends the lease, and runLoop records the generation.
ReleaseRead ==
  /\ pc = "release"
  /\ Scene!DropRead(Viewer)
  /\ lastPoseGeneration' = GenerationSeen
  /\ MoveTo("loop")
  /\ UNCHANGED <<poseVars, loopPolicy, viewerPose, stopRequested, starts, outputs>>

-----------------------------------------------------------------------------
ViewerStep ==
  \/ LoopCheck \/ WaitForNewer \/ Timeout \/ Sample
  \/ CheckRequest \/ Publish \/ ReleaseRead

Next ==
  \/ SetPose
  \/ \E p \in Producers : Notify(p)
  \/ BuilderStep
  \/ Start \/ RequestStop \/ Join
  \/ ViewerStep \/ AcquireRead \/ SpuriousWake

Spec == Init /\ [][Next]_vars

(***************************************************************************)
(* The thread runs; its timed wait ends, since a wakeup does not extend    *)
(* wait_for's deadline; a producer that unlocked notifies; an integration  *)
(* ends; and a read() that can be granted again and again is granted: what *)
(* GreedyReaderAdmitted of SharedScene states for the Greedy read policy,  *)
(* the default.                                                            *)
(***************************************************************************)
Fairness ==
  /\ WF_vars(ViewerStep)
  /\ SF_vars(Timeout)
  /\ SF_vars(AcquireRead)
  /\ \A p \in Producers : WF_vars(Notify(p))
  /\ WF_vars(writing # {} /\ BuilderStep)

FairSpec == Spec /\ Fairness

-----------------------------------------------------------------------------
(* Properties                                                              *)

PoseRecords == [pose : Poses, renderable : BOOLEAN, generation : Nat]
OutputRecords == [shows : Nat \X Nat, pose : Poses, cached : BOOLEAN, run : Nat]

Places == {"loop", "wait", "asleep", "awake", "sample", "render", "read", "draw",
           "release", "ended", "none"}

\* The type invariant: the state of the pose store, the viewer and its outputs.
TypeOK ==
  /\ latestPose \in PoseRecords /\ viewerPose \in PoseRecords
  /\ nextGeneration \in Nat /\ latestPose.generation < nextGeneration
  /\ loopPolicy \in {"Event", "HotLoop"}
  /\ pc \in Places
  /\ lastPoseGeneration \in Nat /\ starts \in Nat
  /\ outputs \in Seq(OutputRecords)
  /\ committed \in Nat
  /\ visible \in [{Viewer, Builder} -> Nat]

\* A viewer asleep although a newer pose is stored has a notify_all still to come
\* (ViewerPoseStore.cpp:59-60, 97-98).
NoLostPoseWakeup ==
  pc = "asleep" /\ HasNewerGeneration(lastPoseGeneration) => notifying # {}

\* What an output shows was the published scene for as long as the lease lasted,
\* and successive outputs never go back in pose or scene
\* (SceneViewer.cpp:50-60).
OutputsFollowScene ==
  /\ pc = "release" => Last(outputs).shows[2] = committed
  /\ \A i, j \in DOMAIN outputs : i < j =>
       /\ outputs[i].shows[1] <= outputs[j].shows[1]
       /\ outputs[i].shows[2] <= outputs[j].shows[2]

\* Under Event a loop renders a pose once: of its outputs only the first may repeat
\* what is shown, and each shows a newer generation than the one before
\* (viewer/README.md, "Event waits for newer pose generations before rendering").
EventRendersOnce ==
  loopPolicy = "Event" =>
    \A i, j \in DOMAIN outputs :
      i < j /\ outputs[i].run = outputs[j].run =>
        /\ outputs[i].shows[1] < outputs[j].shows[1]
        /\ ~outputs[j].cached

\* A pose that can be rendered is shown by the loop that runs, replaced by another,
\* or the loop ends: no update that arrives during a render is missed, none that came
\* before a start, and none for the generation its caller gave it
\* (SceneViewerRunner.cpp:70-89, ViewerPoseStore.cpp:52-56).  For the default read
\* policy, Greedy, as Fairness says.
LatestPoseShown ==
  \A pose \in Poses :
    LET Requested == latestPose.pose = pose /\ latestPose.renderable
    IN  Requested
          ~> (\/ /\ outputs # <<>> /\ Last(outputs).run = starts
                 /\ Last(outputs).pose = pose
              \/ ~Requested
              \/ pc \in {"ended", "none"})
=============================================================================
