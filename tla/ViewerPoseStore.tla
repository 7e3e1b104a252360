--------------------------- MODULE ViewerPoseStore ---------------------------
(***************************************************************************)
(* The latest requested viewer pose and the baseline that relative poses   *)
(* compose against (src/model/src/viewer/ViewerPoseStore.cpp).  Each       *)
(* operation is one critical section of m_mutex; an update notifies after  *)
(* it has unlocked, so its producer is in "notifying" in between.  The     *)
(* waiting side belongs to the consumer, SceneViewer.                      *)
(***************************************************************************)
EXTENDS Integers

CONSTANTS
  Producers,      \* the threads that set poses
  PoseCount,      \* the poses form the cyclic group of this order
  MaxGeneration   \* bound on the generations handed out

ASSUME PosesAssumption ==
  /\ PoseCount \in Nat \ {0}
  /\ MaxGeneration \in Nat

VARIABLES
  latestPose,      \* m_latestPose
  baselinePose,    \* m_relativeBaselinePose
  nextGeneration,  \* m_nextGeneration
  notifying        \* the producers between their unlock and notify_all

poseVars == <<latestPose, baselinePose, nextGeneration, notifying>>

Poses == 0..(PoseCount - 1)

\* A request: the pose, and whether its intrinsics and image size can be rendered.
ViewerPoses == [pose : Poses, renderable : BOOLEAN, generation : 1..MaxGeneration]

\* The empty optional; generations of stored poses start at 1.
NoPose == [pose |-> 0, renderable |-> FALSE, generation |-> 0]

PoseInit ==
  /\ latestPose = NoPose
  /\ baselinePose = NoPose
  /\ nextGeneration = 1
  /\ notifying = {}

HasNewerGeneration(generation) == latestPose.generation > generation

\* multiplyRowMajor(relative, base)
Compose(relative, base) == (relative + base) % PoseCount

SamePoseRequest(p, q) == p.pose = q.pose /\ p.renderable = q.renderable

\* Mutant: a caller's generation is taken as it is.
GenerationAsGiven(viewerPose) == viewerPose.generation

NormalisedGeneration(viewerPose) ==
  IF viewerPose.generation < nextGeneration THEN nextGeneration
  ELSE viewerPose.generation

\* Mutant: an update that notifies nobody.
SilentStore(p, viewerPose) ==
  LET generation == NormalisedGeneration(viewerPose)
  IN  /\ generation <= MaxGeneration
      /\ latestPose' = [viewerPose EXCEPT !.generation = generation]
      /\ nextGeneration' = generation + 1
      /\ UNCHANGED notifying

Store(p, viewerPose) ==
  LET generation == NormalisedGeneration(viewerPose)
  IN  /\ p \notin notifying
      /\ generation <= MaxGeneration
      /\ latestPose' = [viewerPose EXCEPT !.generation = generation]
      /\ nextGeneration' = generation + 1
      /\ notifying' = notifying \cup {p}

Update(p, viewerPose) == Store(p, viewerPose) /\ UNCHANGED baselinePose

\* Without a pose there is none to capture, and the old baseline goes.
ResetRelativeBaseline(p) ==
  /\ p \notin notifying
  /\ baselinePose' = latestPose
  /\ UNCHANGED <<latestPose, nextGeneration, notifying>>

\* Mutant: the relative pose is applied to the latest pose.
FromLatest(relative) == [latestPose EXCEPT !.pose = Compose(relative, latestPose.pose)]

NextRelativePose(relative) ==
  [baselinePose EXCEPT !.pose = Compose(relative, baselinePose.pose)]

\* Mutant: without a baseline the origin serves as one.
ApplyToOrigin(p, relative) ==
  /\ ~SamePoseRequest(latestPose, NextRelativePose(relative))
  /\ Store(p, NextRelativePose(relative))
  /\ UNCHANGED baselinePose

\* A pose that repeats the latest request, or has no baseline, changes nothing.
ApplyRelativePose(p, relative) ==
  /\ baselinePose # NoPose
  /\ ~SamePoseRequest(latestPose, NextRelativePose(relative))
  /\ Store(p, NextRelativePose(relative))
  /\ UNCHANGED baselinePose

NotifyAll(p) ==
  /\ p \in notifying
  /\ notifying' = notifying \ {p}
  /\ UNCHANGED <<latestPose, baselinePose, nextGeneration>>
=============================================================================
