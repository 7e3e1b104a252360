--------------------------- MODULE SceneViewerProofs ---------------------------
(***************************************************************************)
(* Theorems about SceneViewer, for any producers, poses and generations,   *)
(* either loop policy, any capacity of the output store and any number of  *)
(* starts.                                                                 *)
(***************************************************************************)
EXTENDS SceneViewer, TLAPS

-----------------------------------------------------------------------------
(* The inductive invariant                                                 *)

\* The viewer has a lease while it draws, and until renderPose has returned.
LeaseHeld ==
  /\ reading = IF pc \in {"draw", "release"} THEN {Viewer} ELSE {}
  /\ reading # {} => writing = {} /\ visible[Viewer] = committed

\* runLoop holds a pose that it took from the store and has not rendered.
HoldsPose == pc \in {"render", "read", "draw"}

\* An output is no newer than what there is to show, nor than the pose in hand.
OutputsBehind ==
  \A i \in DOMAIN outputs :
    /\ outputs[i].shows[1] <= latestPose.generation
    /\ HoldsPose => outputs[i].shows[1] <= viewerPose.generation
    /\ outputs[i].shows[2] <= committed
    /\ outputs[i].run <= starts

RunsInOrder ==
  \A i, j \in DOMAIN outputs : i < j => outputs[i].run <= outputs[j].run

LastIsReleased == pc = "release" => outputs # <<>>

\* Under Event a loop takes newer poses only, and knows what it has shown.
EventWaits ==
  loopPolicy = "Event" =>
    /\ pc # "sample"
    /\ HoldsPose => lastPoseGeneration < viewerPose.generation
    /\ \A i \in DOMAIN outputs : outputs[i].run = starts =>
         outputs[i].shows[1] <= IF pc = "release" THEN viewerPose.generation
                                ELSE lastPoseGeneration

IInv ==
  /\ TypeOK /\ viewerPose.generation <= latestPose.generation
  /\ LeaseHeld
  /\ OutputsBehind /\ RunsInOrder /\ LastIsReleased
  /\ EventWaits
  /\ NoLostPoseWakeup
  /\ OutputsFollowScene
  /\ EventRendersOnce

-----------------------------------------------------------------------------
(* Lemmas                                                                  *)

\* The pose of a store that holds none is of the type of poses.
LEMMA NoPoseIsPose == NoPose \in PoseRecords
BY PosesAssumption DEF NoPose, PoseRecords, Poses

\* Outputs name versions, poses and runs by numbers.
LEMMA OutputTypes ==
  ASSUME outputs \in Seq(OutputRecords)
  PROVE  \A i \in DOMAIN outputs :
           outputs[i].shows[1] \in Nat /\ outputs[i].shows[2] \in Nat /\ outputs[i].run \in Nat
<1> SUFFICES ASSUME NEW i \in DOMAIN outputs
             PROVE  outputs[i].shows[1] \in Nat /\ outputs[i].shows[2] \in Nat
                    /\ outputs[i].run \in Nat
  OBVIOUS
<1>1. outputs[i] \in OutputRecords
  OBVIOUS
<1>2. outputs[i].shows \in Nat \X Nat /\ outputs[i].run \in Nat
  BY <1>1 DEF OutputRecords
<1> QED BY <1>2

\* What is stored is newer than what was there.
LEMMA StoredIsNewer ==
  ASSUME NEW p, NEW viewerRequest \in PoseRecords,
         latestPose \in PoseRecords, nextGeneration \in Nat,
         latestPose.generation < nextGeneration,
         Store(p, viewerRequest)
  PROVE  /\ latestPose' \in PoseRecords /\ nextGeneration' \in Nat
         /\ latestPose.generation < latestPose'.generation
         /\ latestPose'.generation < nextGeneration'
<1> DEFINE generation == NormalisedGeneration(viewerRequest)
<1>1. generation \in Nat /\ nextGeneration <= generation
  BY DEF NormalisedGeneration, PoseRecords
<1>2. latestPose' = [viewerRequest EXCEPT !.generation = generation]
      /\ nextGeneration' = generation + 1
  BY DEF Store
<1> HIDE DEF generation
<1>3. latestPose' \in PoseRecords /\ latestPose'.generation = generation
  BY <1>1, <1>2 DEF PoseRecords
<1>4. latestPose.generation \in Nat
  BY DEF PoseRecords
<1> QED BY <1>1, <1>2, <1>3, <1>4

\* A sequence t of the last elements of s, and x behind them.
EndsAs(t, s, x) ==
  \E k \in Nat : \A i \in DOMAIN t :
    \/ i + k \in DOMAIN s /\ t[i] = s[i + k]
    \/ i + k = Len(s) + 1 /\ t[i] = x

\* The store keeps the newest outputs, in their order, and the new one as the last.
LEMMA NewestKept ==
  ASSUME NEW S, NEW s \in Seq(S), NEW x \in S, NEW n \in Nat \ {0},
         NEW t, t = Newest(Append(s, x), n)
  PROVE  t \in Seq(S) /\ t # <<>> /\ Last(t) = x /\ EndsAs(t, s, x)
<1> DEFINE a == Append(s, x)
           k == IF Len(a) <= n THEN 0 ELSE Len(a) - n
<1>1. /\ a \in Seq(S) /\ Len(a) = Len(s) + 1 /\ Len(s) \in Nat
      /\ \A i \in 1..Len(s) : a[i] = s[i]
      /\ a[Len(s) + 1] = x
      /\ DOMAIN s = 1..Len(s)
      /\ t = Newest(a, n)
  OBVIOUS
<1> HIDE DEF a
<1>2. k \in Nat /\ k < Len(a)
  BY <1>1
<1>3. /\ t \in Seq(S) /\ Len(t) = Len(a) - k /\ DOMAIN t = 1..Len(t)
      /\ \A i \in 1..Len(t) : t[i] = a[i + k]
  <2>1. CASE Len(a) <= n
    BY <1>1, <2>1 DEF Newest
  <2>2. CASE Len(a) > n
    <3>1. t = SubSeq(a, k + 1, Len(a))
      <4>1. Len(a) \in Nat /\ ~(Len(a) <= n)
        BY <1>1, <2>2
      <4>2. t = SubSeq(a, Len(a) - n + 1, Len(a)) /\ k = Len(a) - n
        BY <1>1, <4>1, Zenon DEF Newest
      <4> QED BY <4>2
    <3>2. \A i \in (k + 1)..Len(a) : a[i] \in S
      BY <1>1, <1>2
    <3> HIDE DEF k
    <3> QED BY <1>1, <1>2, <3>1, <3>2
  <2> QED BY <1>1, <2>1, <2>2
<1> HIDE DEF k
<1>4. t # <<>> /\ Last(t) = x
  BY <1>1, <1>2, <1>3 DEF Last
<1>5. ASSUME NEW i \in DOMAIN t
      PROVE  \/ i + k \in DOMAIN s /\ t[i] = s[i + k]
             \/ i + k = Len(s) + 1 /\ t[i] = x
  BY <1>1, <1>2, <1>3
<1>6. EndsAs(t, s, x)
  BY <1>2, <1>5 DEF EndsAs
<1> QED BY <1>3, <1>4, <1>6

-----------------------------------------------------------------------------
(* The invariant                                                           *)

\* At first nothing is rendered.
LEMMA InitInvariant == Init => IInv
<1> SUFFICES ASSUME Init PROVE IInv
  OBVIOUS
<1> USE DEF Init, PoseInit, Scene!Init, Scene!Threads
<1>1. TypeOK /\ viewerPose.generation <= latestPose.generation
  BY NoPoseIsPose, PoliciesAssumption DEF TypeOK, NoPose, Places
<1>2. LeaseHeld /\ LastIsReleased /\ NoLostPoseWakeup
  BY DEF LeaseHeld, LastIsReleased, NoLostPoseWakeup
<1>3. OutputsBehind /\ RunsInOrder /\ EventWaits /\ OutputsFollowScene /\ EventRendersOnce
  BY DEF OutputsBehind, RunsInOrder, EventWaits, OutputsFollowScene, EventRendersOnce,
         HoldsPose
<1> QED BY <1>1, <1>2, <1>3 DEF IInv

\* A new pose is newer than those in hand and shown, and its producer will notify.
LEMMA SetPosePreserves ==
  ASSUME IInv, SetPose
  PROVE  IInv'
<1> USE DEF IInv
<1>1. PICK p \in Producers, request \in PoseRecords : Update(p, request)
  BY DEF SetPose, PoseRecords
<1>2. UNCHANGED <<pc, loopVars, outputs, sceneVars>>
  BY DEF SetPose
<1>3. /\ latestPose' \in PoseRecords /\ nextGeneration' \in Nat
      /\ latestPose.generation < latestPose'.generation
      /\ latestPose'.generation < nextGeneration'
      /\ notifying' # {}
  <2>1. Store(p, request)
    BY <1>1 DEF Update
  <2>2. notifying' # {}
    BY <2>1 DEF Store
  <2> QED BY <2>1, <2>2, StoredIsNewer DEF TypeOK
<1>4. viewerPose.generation \in Nat /\ latestPose.generation \in Nat
      /\ latestPose'.generation \in Nat
  BY <1>3 DEF TypeOK, PoseRecords
<1>5. TypeOK' /\ viewerPose'.generation <= latestPose'.generation
  BY <1>2, <1>3, <1>4 DEF TypeOK, loopVars, sceneVars
<1>6. LeaseHeld' /\ LastIsReleased' /\ NoLostPoseWakeup'
  BY <1>2, <1>3 DEF LeaseHeld, LastIsReleased, NoLostPoseWakeup, loopVars, sceneVars
<1>7. OutputsBehind'
  <2>1. \A i \in DOMAIN outputs : outputs[i].shows[1] \in Nat
    BY OutputTypes DEF TypeOK
  <2> QED BY <1>2, <1>3, <1>4, <2>1 DEF OutputsBehind, HoldsPose, loopVars, sceneVars
<1>8. RunsInOrder' /\ EventWaits' /\ OutputsFollowScene' /\ EventRendersOnce'
  BY <1>2 DEF RunsInOrder, EventWaits, OutputsFollowScene, EventRendersOnce, HoldsPose,
              loopVars, sceneVars
<1> QED BY <1>5, <1>6, <1>7, <1>8

\* Whoever is notified is awake: nobody sleeps on.
LEMMA NotifyPreserves ==
  ASSUME IInv, NEW p \in Producers, Notify(p)
  PROVE  IInv'
<1> USE DEF IInv
<1>1. /\ pc' = IF pc = "asleep" THEN "awake" ELSE pc
      /\ UNCHANGED <<latestPose, baselinePose, nextGeneration, loopVars, outputs, sceneVars>>
  BY DEF Notify, NotifyAll, MoveTo
<1>2. TypeOK' /\ LeaseHeld' /\ LastIsReleased' /\ NoLostPoseWakeup'
      /\ viewerPose'.generation <= latestPose'.generation
  BY <1>1 DEF TypeOK, Places, LeaseHeld, LastIsReleased, NoLostPoseWakeup, loopVars, sceneVars
<1>3. OutputsBehind' /\ RunsInOrder' /\ EventWaits' /\ OutputsFollowScene'
      /\ EventRendersOnce'
  BY <1>1 DEF OutputsBehind, RunsInOrder, EventWaits, OutputsFollowScene, EventRendersOnce,
              HoldsPose, loopVars, sceneVars
<1> QED BY <1>2, <1>3

\* The builder publishes while the viewer has no lease, and only forward.
LEMMA BuilderPreserves ==
  ASSUME IInv, BuilderStep
  PROVE  IInv'
<1> USE DEF IInv
<1>1. /\ UNCHANGED <<poseVars, pc, loopVars, outputs>>
      /\ reading' = reading
      /\ committed' \in {committed, committed + 1}
      /\ visible' \in [{Viewer, Builder} -> Nat]
      /\ reading # {} => writing' = {} /\ committed' = committed
                         /\ visible'[Viewer] = visible[Viewer]
  BY DEF BuilderStep, Scene!GrantWrite, Scene!Publish, Scene!DropWrite, TypeOK, LeaseHeld,
         Viewer, Builder
<1>2. TypeOK' /\ viewerPose'.generation <= latestPose'.generation
  BY <1>1 DEF TypeOK, poseVars, loopVars
<1>3. LeaseHeld' /\ LastIsReleased' /\ NoLostPoseWakeup'
  BY <1>1 DEF LeaseHeld, LastIsReleased, NoLostPoseWakeup, HasNewerGeneration, poseVars,
              loopVars
<1>4. OutputsBehind'
  <2>1. \A i \in DOMAIN outputs : outputs[i].shows[2] \in Nat
    BY OutputTypes DEF TypeOK
  <2> QED BY <1>1, <2>1 DEF OutputsBehind, HoldsPose, TypeOK, poseVars, loopVars
<1>5. RunsInOrder' /\ EventWaits' /\ EventRendersOnce'
  BY <1>1 DEF RunsInOrder, EventWaits, EventRendersOnce, HoldsPose, loopVars
<1>6. OutputsFollowScene'
  BY <1>1 DEF OutputsFollowScene, LeaseHeld
<1> QED BY <1>2, <1>3, <1>4, <1>5, <1>6

\* A new loop has shown nothing yet.
LEMMA OwnerPreserves ==
  ASSUME IInv, Start \/ RequestStop \/ Join
  PROVE  IInv'
<1> USE DEF IInv
<1>1. CASE Start
  <2>1. /\ pc = "none" /\ pc' = "loop" /\ starts' = starts + 1
        /\ lastPoseGeneration' = 0 /\ viewerPose' = NoPose
        /\ UNCHANGED <<poseVars, loopPolicy, outputs, sceneVars>>
    BY <1>1 DEF Start, MoveTo
  <2>2. TypeOK' /\ viewerPose'.generation <= latestPose'.generation
    <3>1. latestPose.generation \in Nat
      BY DEF TypeOK, PoseRecords
    <3>2. viewerPose'.generation = 0
      BY <2>1 DEF NoPose
    <3> QED BY <2>1, <3>1, <3>2, NoPoseIsPose DEF TypeOK, Places, poseVars, sceneVars
  <2>3. LeaseHeld' /\ LastIsReleased' /\ NoLostPoseWakeup'
    BY <2>1 DEF LeaseHeld, LastIsReleased, NoLostPoseWakeup, sceneVars
  <2>4. \A i \in DOMAIN outputs : outputs[i].run \in Nat /\ outputs[i].run <= starts
    BY OutputTypes DEF TypeOK, OutputsBehind
  <2>5. OutputsBehind' /\ EventWaits'
    BY <2>1, <2>4 DEF OutputsBehind, EventWaits, HoldsPose, TypeOK, poseVars, sceneVars
  <2>6. RunsInOrder' /\ OutputsFollowScene' /\ EventRendersOnce'
    BY <2>1 DEF RunsInOrder, OutputsFollowScene, EventRendersOnce, sceneVars
  <2> QED BY <2>2, <2>3, <2>5, <2>6
<1>2. CASE RequestStop \/ Join
  <2>1. /\ \/ pc' = pc
           \/ pc = "ended" /\ pc' = "none"
        /\ UNCHANGED <<poseVars, loopPolicy, viewerPose, lastPoseGeneration, starts, outputs,
                       sceneVars>>
    BY <1>2 DEF RequestStop, Join, MoveTo, loopVars
  <2>2. TypeOK' /\ viewerPose'.generation <= latestPose'.generation
    BY <2>1 DEF TypeOK, Places, poseVars, sceneVars
  <2>3. LeaseHeld' /\ LastIsReleased' /\ NoLostPoseWakeup'
    BY <2>1 DEF LeaseHeld, LastIsReleased, NoLostPoseWakeup, HasNewerGeneration, poseVars,
                sceneVars
  <2>4. OutputsBehind' /\ RunsInOrder' /\ EventWaits' /\ OutputsFollowScene'
        /\ EventRendersOnce'
    BY <2>1 DEF OutputsBehind, RunsInOrder, EventWaits, OutputsFollowScene, EventRendersOnce,
                HoldsPose, poseVars, sceneVars
  <2> QED BY <2>2, <2>3, <2>4
<1> QED BY <1>1, <1>2

\* The steps of the loop up to the pose in hand: it is the latest one, and under Event
\* newer than what the loop has shown.  Only a viewer that finds no such pose sleeps.
LEMMA LoopPreserves ==
  ASSUME IInv,
         LoopCheck \/ WaitForNewer \/ Timeout \/ Sample \/ SpuriousWake \/ CheckRequest
  PROVE  IInv'
<1> USE DEF IInv
<1>1. UNCHANGED <<poseVars, loopPolicy, lastPoseGeneration, starts, outputs, sceneVars>>
  BY DEF LoopCheck, WaitForNewer, Timeout, Sample, SpuriousWake, CheckRequest, loopVars
<1>2. /\ pc \notin {"draw", "release"} /\ pc' \in Places \ {"draw", "release"}
      /\ loopPolicy = "Event" => pc' # "sample"
      /\ pc' = "asleep" => ~HasNewerGeneration(lastPoseGeneration)
      /\ \/ /\ viewerPose' = viewerPose
            /\ pc' \in {"render", "read", "draw"} => pc \in {"render", "read", "draw"}
         \/ /\ viewerPose' = latestPose
            /\ loopPolicy = "Event" => HasNewerGeneration(lastPoseGeneration)
  BY DEF LoopCheck, WaitForNewer, Timeout, Sample, SpuriousWake, CheckRequest, loopVars,
         MoveTo, Awaited, TypeOK, Places, EventWaits
<1>3. latestPose.generation \in Nat
  BY DEF TypeOK, PoseRecords
<1>4. TypeOK' /\ viewerPose'.generation <= latestPose'.generation
  BY <1>1, <1>2, <1>3 DEF TypeOK, poseVars, sceneVars
<1>5. LeaseHeld' /\ LastIsReleased' /\ NoLostPoseWakeup'
  BY <1>1, <1>2 DEF LeaseHeld, LastIsReleased, NoLostPoseWakeup, HasNewerGeneration,
                    poseVars, sceneVars
<1>6. OutputsBehind'
  BY <1>1, <1>2 DEF OutputsBehind, HoldsPose, poseVars, sceneVars
<1>7. EventWaits'
  BY <1>1, <1>2 DEF EventWaits, HoldsPose, HasNewerGeneration
<1>8. RunsInOrder' /\ OutputsFollowScene' /\ EventRendersOnce'
  BY <1>1, <1>2 DEF RunsInOrder, OutputsFollowScene, EventRendersOnce, sceneVars
<1> QED BY <1>4, <1>5, <1>6, <1>7, <1>8

\* The lease shows the version that is published.
LEMMA AcquirePreserves ==
  ASSUME IInv, AcquireRead
  PROVE  IInv'
<1> USE DEF IInv
<1>1. /\ pc = "read" /\ pc' = "draw"
      /\ reading' = reading \cup {Viewer} /\ writing = {}
      /\ visible' = [visible EXCEPT ![Viewer] = committed]
      /\ UNCHANGED <<poseVars, loopVars, outputs, writing, committed>>
  BY DEF AcquireRead, Scene!GrantRead, MoveTo
<1>2. TypeOK' /\ viewerPose'.generation <= latestPose'.generation
  BY <1>1 DEF TypeOK, Places, poseVars, loopVars
<1>3. LeaseHeld' /\ LastIsReleased' /\ NoLostPoseWakeup'
  BY <1>1 DEF LeaseHeld, LastIsReleased, NoLostPoseWakeup, TypeOK
<1>4. OutputsBehind' /\ RunsInOrder' /\ EventWaits' /\ OutputsFollowScene'
      /\ EventRendersOnce'
  BY <1>1 DEF OutputsBehind, RunsInOrder, EventWaits, OutputsFollowScene, EventRendersOnce,
              HoldsPose, poseVars, loopVars
<1> QED BY <1>2, <1>3, <1>4

\* What is published is the last of what is kept, shows the pose in hand and the scene
\* under the lease, and repeats nothing that its loop has shown.
LEMMA PublishPreserves ==
  ASSUME IInv, Publish
  PROVE  IInv'
<1> USE DEF IInv
<1> DEFINE output == [shows |-> Rendered, pose |-> viewerPose.pose,
                      cached |-> outputs # <<>> /\ Last(outputs).shows = Rendered,
                      run |-> starts]
<1>1. /\ pc = "draw" /\ pc' = "release"
      /\ outputs' = Newest(Append(outputs, output), OutputCapacity)
      /\ UNCHANGED <<poseVars, loopVars, sceneVars>>
  BY DEF Publish, MoveTo
<1>2. /\ output \in OutputRecords
      /\ output.shows[1] = viewerPose.generation /\ output.shows[2] = committed
      /\ output.run = starts
      /\ output.cached => outputs # <<>> /\ Last(outputs).shows = Rendered
  BY <1>1 DEF Rendered, TypeOK, PoseRecords, OutputRecords, LeaseHeld, Viewer, Builder
<1>3. viewerPose.generation \in Nat /\ latestPose.generation \in Nat
  BY DEF TypeOK, PoseRecords
<1> HIDE DEF output
<1>4. /\ outputs' \in Seq(OutputRecords) /\ outputs' # <<>> /\ Last(outputs') = output
      /\ EndsAs(outputs', outputs, output)
  <2>1. outputs \in Seq(OutputRecords) /\ output \in OutputRecords
    BY <1>2 DEF TypeOK
  <2> QED BY <1>1, <2>1, NewestKept, OutputCapacityAssumption
<1>5. PICK k \in Nat : \A i \in DOMAIN outputs' :
         \/ i + k \in DOMAIN outputs /\ outputs'[i] = outputs[i + k]
         \/ i + k = Len(outputs) + 1 /\ outputs'[i] = output
  BY <1>4 DEF EndsAs
<1>6. /\ Len(outputs) \in Nat /\ DOMAIN outputs = 1..Len(outputs)
      /\ DOMAIN outputs' = 1..Len(outputs') /\ Len(outputs') \in Nat
  BY <1>4 DEF TypeOK
<1>7. TypeOK' /\ viewerPose'.generation <= latestPose'.generation
  BY <1>1, <1>4 DEF TypeOK, Places, poseVars, loopVars, sceneVars
<1>8. LeaseHeld' /\ LastIsReleased' /\ NoLostPoseWakeup'
  BY <1>1, <1>4 DEF LeaseHeld, LastIsReleased, NoLostPoseWakeup, sceneVars
<1>9. OutputsBehind'
  <2> SUFFICES ASSUME NEW i \in DOMAIN outputs'
               PROVE  /\ outputs'[i].shows[1] <= latestPose.generation
                      /\ outputs'[i].shows[2] <= committed
                      /\ outputs'[i].run <= starts
    BY <1>1 DEF OutputsBehind, HoldsPose, poseVars, loopVars, sceneVars
  <2>1. CASE i + k \in DOMAIN outputs /\ outputs'[i] = outputs[i + k]
    BY <2>1 DEF OutputsBehind
  <2>2. CASE outputs'[i] = output
    BY <1>2, <2>2 DEF TypeOK
  <2> QED BY <1>5, <2>1, <2>2
\* Two of the outputs that are kept.
<1>10. ASSUME NEW i \in DOMAIN outputs', NEW j \in DOMAIN outputs', i < j
       PROVE  /\ i + k \in DOMAIN outputs /\ outputs'[i] = outputs[i + k]
              /\ \/ /\ j + k \in DOMAIN outputs /\ i + k < j + k
                    /\ outputs'[j] = outputs[j + k]
                 \/ outputs'[j] = output
  <2>1. i + k < j + k /\ j + k <= Len(outputs) + 1
    <3>1. j + k \in DOMAIN outputs \/ j + k = Len(outputs) + 1
      BY <1>5
    <3> QED BY <1>6, <1>10, <3>1
  <2>2. i + k # Len(outputs) + 1
    BY <1>6, <1>10, <2>1
  <2> QED BY <1>5, <2>1, <2>2
<1>11. RunsInOrder' /\ OutputsFollowScene'
  <2>1. ASSUME NEW i \in DOMAIN outputs', NEW j \in DOMAIN outputs', i < j
        PROVE  /\ outputs'[i].run <= outputs'[j].run
               /\ outputs'[i].shows[1] <= outputs'[j].shows[1]
               /\ outputs'[i].shows[2] <= outputs'[j].shows[2]
    <3>1. CASE /\ j + k \in DOMAIN outputs /\ i + k < j + k
               /\ outputs'[j] = outputs[j + k]
      BY <1>10, <2>1, <3>1 DEF RunsInOrder, OutputsFollowScene
    <3>2. CASE outputs'[j] = output
      BY <1>1, <1>2, <1>10, <2>1, <3>2 DEF OutputsBehind, HoldsPose
    <3> QED BY <1>10, <2>1, <3>1, <3>2
  <2>2. Last(outputs').shows[2] = committed'
    BY <1>1, <1>2, <1>4 DEF sceneVars
  <2> QED BY <2>1, <2>2 DEF RunsInOrder, OutputsFollowScene, Last
<1>12. ASSUME loopPolicy = "Event", NEW i \in DOMAIN outputs, outputs[i].run = starts
       PROVE  outputs[i].shows[1] < viewerPose.generation
  <2>1. outputs[i].shows[1] <= lastPoseGeneration /\ lastPoseGeneration < viewerPose.generation
    BY <1>1, <1>12 DEF EventWaits, HoldsPose
  <2>2. outputs[i].shows[1] \in Nat
    BY OutputTypes DEF TypeOK
  <2> QED BY <1>3, <2>1, <2>2 DEF TypeOK
<1>13. EventWaits'
  <2> SUFFICES ASSUME loopPolicy = "Event", NEW i \in DOMAIN outputs', outputs'[i].run = starts
               PROVE  outputs'[i].shows[1] <= viewerPose.generation
    BY <1>1 DEF EventWaits, HoldsPose, loopVars
  <2>1. CASE i + k \in DOMAIN outputs /\ outputs'[i] = outputs[i + k]
    <3>1. outputs[i + k].shows[1] \in Nat
      BY <2>1, OutputTypes DEF TypeOK
    <3> QED BY <1>3, <1>12, <2>1, <3>1
  <2>2. CASE outputs'[i] = output
    BY <1>2, <1>3, <2>2
  <2> QED BY <1>5, <2>1, <2>2
<1>14. EventRendersOnce'
  <2> SUFFICES ASSUME loopPolicy = "Event", NEW i \in DOMAIN outputs',
                      NEW j \in DOMAIN outputs', i < j, outputs'[i].run = outputs'[j].run
               PROVE  outputs'[i].shows[1] < outputs'[j].shows[1] /\ ~outputs'[j].cached
    BY <1>1 DEF EventRendersOnce, loopVars
  <2>1. i + k \in DOMAIN outputs /\ outputs'[i] = outputs[i + k]
    BY <1>10
  <2>2. CASE /\ j + k \in DOMAIN outputs /\ i + k < j + k
             /\ outputs'[j] = outputs[j + k]
    BY <2>1, <2>2 DEF EventRendersOnce
  <2>3. CASE outputs'[j] = output
    <3>1. outputs[i + k].run = starts
      BY <1>2, <2>1, <2>3
    <3>2. outputs'[i].shows[1] < outputs'[j].shows[1]
      BY <1>2, <1>12, <2>1, <2>3, <3>1
    <3>3. Len(outputs) \in DOMAIN outputs /\ Last(outputs) = outputs[Len(outputs)]
      BY <1>6, <2>1 DEF Last
    <3>4. Last(outputs).run = starts
      <4>1. i + k = Len(outputs) \/ i + k < Len(outputs)
        BY <1>6, <2>1
      <4>2. starts <= Last(outputs).run
        BY <2>1, <3>1, <3>3, <4>1 DEF RunsInOrder, TypeOK
      <4>3. Last(outputs).run <= starts /\ Last(outputs).run \in Nat
        BY <3>3, OutputTypes DEF OutputsBehind, TypeOK
      <4> QED BY <4>2, <4>3 DEF TypeOK
    <3>5. Last(outputs).shows[1] < viewerPose.generation
      BY <1>12, <3>3, <3>4
    <3>6. ~output.cached
      BY <1>2, <1>3, <3>5 DEF Rendered
    <3> QED BY <2>3, <3>2, <3>6
  <2> QED BY <1>10, <2>2, <2>3
<1> QED BY <1>7, <1>8, <1>9, <1>11, <1>13, <1>14

\* What was rendered is what the loop counts as seen.
LEMMA ReleasePreserves ==
  ASSUME IInv, ReleaseRead
  PROVE  IInv'
<1> USE DEF IInv
<1>1. /\ pc = "release" /\ pc' = "loop"
      /\ reading' = reading \ {Viewer} /\ lastPoseGeneration' = viewerPose.generation
      /\ UNCHANGED <<poseVars, loopPolicy, viewerPose, starts, outputs, writing, committed,
                     visible>>
  BY DEF ReleaseRead, Scene!DropRead, MoveTo, GenerationSeen
<1>2. TypeOK' /\ viewerPose'.generation <= latestPose'.generation
  BY <1>1 DEF TypeOK, PoseRecords, Places, poseVars
<1>3. LeaseHeld' /\ LastIsReleased' /\ NoLostPoseWakeup'
  BY <1>1 DEF LeaseHeld, LastIsReleased, NoLostPoseWakeup
<1>4. OutputsBehind' /\ RunsInOrder' /\ OutputsFollowScene' /\ EventRendersOnce'
  BY <1>1 DEF OutputsBehind, RunsInOrder, OutputsFollowScene, EventRendersOnce, HoldsPose,
              poseVars
<1>5. EventWaits'
  BY <1>1 DEF EventWaits, HoldsPose
<1> QED BY <1>2, <1>3, <1>4, <1>5

\* Every step preserves the invariant.
LEMMA NextInvariant == IInv /\ [Next]_vars => IInv'
<1> SUFFICES ASSUME IInv, [Next]_vars PROVE IInv'
  OBVIOUS
<1>1. CASE SetPose
  BY <1>1, SetPosePreserves
<1>2. ASSUME NEW p \in Producers, Notify(p) PROVE IInv'
  BY <1>2, NotifyPreserves
<1>3. CASE BuilderStep
  BY <1>3, BuilderPreserves
<1>4. CASE Start \/ RequestStop \/ Join
  BY <1>4, OwnerPreserves
<1>5. CASE LoopCheck \/ WaitForNewer \/ Timeout \/ Sample \/ SpuriousWake \/ CheckRequest
  BY <1>5, LoopPreserves
<1>6. CASE AcquireRead
  BY <1>6, AcquirePreserves
<1>7. CASE Publish
  BY <1>7, PublishPreserves
<1>8. CASE ReleaseRead
  BY <1>8, ReleasePreserves
<1>9. CASE UNCHANGED vars
  <2>1. TypeOK' /\ LeaseHeld' /\ LastIsReleased' /\ NoLostPoseWakeup'
        /\ viewerPose'.generation <= latestPose'.generation
    BY <1>9 DEF IInv, TypeOK, LeaseHeld, LastIsReleased, NoLostPoseWakeup,
                HasNewerGeneration, vars, poseVars, loopVars, sceneVars
  <2>2. OutputsBehind' /\ RunsInOrder' /\ EventWaits' /\ OutputsFollowScene'
        /\ EventRendersOnce'
    BY <1>9 DEF IInv, OutputsBehind, RunsInOrder, EventWaits, OutputsFollowScene,
                EventRendersOnce, HoldsPose, vars, poseVars, loopVars, sceneVars
  <2> QED BY <2>1, <2>2 DEF IInv
<1> QED BY <1>1, <1>2, <1>3, <1>4, <1>5, <1>6, <1>7, <1>8, <1>9 DEF Next, ViewerStep

\* The viewer draws under its lease, a pose no newer than the latest one, and its outputs
\* are behind both.
THEOREM Invariance == Spec => []IInv
<1>1. Init => IInv
  BY InitInvariant
<1>2. IInv /\ [Next]_vars => IInv'
  BY NextInvariant
<1> QED BY <1>1, <1>2, PTL DEF Spec

\* The viewer never sleeps through an update, for any producers and however their unlocks
\* and notifications interleave (ViewerPoseStore.cpp:59-60, 97-98).
THEOREM PoseWakeups == Spec => []NoLostPoseWakeup
<1>1. IInv => NoLostPoseWakeup
  BY DEF IInv
<1> QED BY <1>1, Invariance, PTL

\* Outputs show the scene that was published while they were drawn, and never go back
\* in pose or scene, also across restarts of the loop (SceneViewer.cpp:50-60).
THEOREM OutputsInOrder == Spec => []OutputsFollowScene
<1>1. IInv => OutputsFollowScene
  BY DEF IInv
<1> QED BY <1>1, Invariance, PTL

\* Under Event no loop renders a pose twice (SceneViewerRunner.cpp:70-89).
THEOREM RenderedOnce == Spec => []EventRendersOnce
<1>1. IInv => EventRendersOnce
  BY DEF IInv
<1> QED BY <1>1, Invariance, PTL

\* Type correctness of the pose store, the viewer and its outputs.
THEOREM TypeCorrect == Spec => []TypeOK
<1>1. IInv => TypeOK
  BY DEF IInv
<1> QED BY <1>1, Invariance, PTL
===============================================================================
