--------------------------- MODULE SceneBuilderProofs ---------------------------
(***************************************************************************)
(* Theorems about SceneBuilder, for any readers, image sizes, frames and   *)
(* starts, and any capacity of the version store.                          *)
(***************************************************************************)
EXTENDS SceneBuilder, SortedQueues, FiniteSetTheorems, TLAPS

-----------------------------------------------------------------------------
(* The inductive invariant                                                 *)

\* Where the thread holds the write lease, has a frame in hand, has fused it, and
\* has published it.
Holding == {"ensure", "track", "integrate", "publish", "release", "lost"}
InHand == Holding \cup {"view", "write", "record", "consume", "fail"}
Fused == {"publish", "release", "record", "consume"}
Published == {"release", "record", "consume"}

\* The flags of the runner against the place of its thread.
Control ==
  /\ joinable <=> pc # "none"
  /\ pc \in {"stopping", "stopped", "ended"} => stopRequested
  /\ pc \in {"stopped", "ended"} => ~running
  /\ pc = "ended" => status.stopRequested /\ ~status.running

\* The builder holds one frame at most, which is in the store, and the lease only
\* where it may change the scene.
HandAndLease ==
  /\ taken = IF pc \in InHand THEN {task.frameId} ELSE {}
  /\ taken \subseteq FrameIds
  /\ writing = IF pc \in Holding THEN {Builder} ELSE {}
  /\ writing # {} => reading = {}

\* Uncommitted changes exist between the reset of a new pipeline, or the fusion, and
\* the publication; nothing is tracked in a scene that was reset, so none is lost.
UncommittedUnderLease ==
  uncommitted =>
    /\ pc \in {"track", "integrate", "publish"}
    /\ pc = "track" => ~pipeline.trackingInitialised

\* Frames come in their order, each once.
FramesOrdered ==
  /\ Sorted(waiting)
  /\ \A id \in taken \cup consumed \cup failed :
       id <= newest /\ \A w \in ToSet(waiting) : id < w
  /\ \A w \in ToSet(waiting) : w <= newest
  /\ taken \cap (consumed \cup failed) = {}

\* The voxel scene holds the consumed frames, and the one in hand once it is fused.
FusedFrames ==
  /\ IsFiniteSet(consumed)
  /\ committed = Cardinality(consumed) + (IF pc \in Published THEN 1 ELSE 0)
  /\ ToSet(integrated) = consumed \cup (IF pc \in Fused THEN {task.frameId} ELSE {})
  /\ failed \cap ToSet(integrated) = {}

\* The version of a frame is its place in the fusion, and the scene of a pipeline
\* without layout is empty.
FusionNumbered ==
  /\ Len(integrated) = committed + (IF pc = "publish" THEN 1 ELSE 0)
  /\ pipeline.layout = "None" => integrated = <<>>
  /\ pc \in {"track", "integrate"} => pipeline.layout # "None"
  /\ pc \in Fused => integrated # <<>> /\ integrated[Len(integrated)] = task.frameId
  /\ pc \in {"release", "record"} => task.versionId = committed

\* VersionsMatchScene with the number of versions recorded as a parameter.
Lag == IF pc \in {"release", "record"} THEN 1 ELSE 0
Recorded(known) ==
  /\ Len(versions) = IF known < VersionCapacity THEN known ELSE VersionCapacity
  /\ \A i \in DOMAIN versions :
       /\ versions[i].versionId = known - Len(versions) + i
       /\ versions[i].versionId \in DOMAIN integrated
       /\ versions[i].frameId = integrated[versions[i].versionId]

IInv ==
  /\ TypeOK
  /\ Control
  /\ HandAndLease
  /\ UncommittedUnderLease
  /\ FramesOrdered
  /\ FusedFrames
  /\ FusionNumbered
  /\ Recorded(committed - Lag)

-----------------------------------------------------------------------------
(* Initial states, and the newest records                                  *)

\* At first there is no run and no frame.
LEMMA InitInvariant == Init => IInv
<1> SUFFICES ASSUME Init PROVE IInv
  OBVIOUS
<1> USE DEF Init, Store!Init, Scene!Init, NoTask, InHand, Holding, Fused, Published
<1>1. TypeOK
  <2>1. /\ waiting = <<>> /\ integrated = <<>> /\ versions = <<>> /\ newest = 0 /\ committed = 0
        /\ task \in [frameId : 0..MaxFrameId, layout : Layouts \cup {Unconvertible},
                     versionId : Nat]
        /\ pc \in PCs
    BY BoundsAssumption DEF PCs
  <2>2. /\ pipeline \in [layout : Layouts \cup {"None", Unconvertible},
                         trackingInitialised : BOOLEAN]
        /\ IsStatus(status)
    BY DEF IsStatus
  <2> QED BY <2>1, <2>2 DEF TypeOK
<1>2. Control /\ UncommittedUnderLease /\ FusionNumbered
  BY DEF Control, UncommittedUnderLease, FusionNumbered
<1>3. HandAndLease /\ FramesOrdered
  BY DEF HandAndLease, FramesOrdered, Sorted, ToSet
<1>4. FusedFrames
  BY FS_EmptySet DEF FusedFrames, ToSet
<1>5. Recorded(committed - Lag)
  <2>1. Len(versions) = 0 /\ DOMAIN versions = {} /\ committed = 0 /\ pc = "none"
    OBVIOUS
  <2> HIDE DEF Init, Store!Init, Scene!Init
  <2>2. Lag = 0
    BY <2>1 DEF Lag
  <2>3. 0 < VersionCapacity
    BY CapacityAssumption
  <2> QED BY <2>1, <2>2, <2>3 DEF Recorded
<1> QED BY <1>1, <1>2, <1>3, <1>4, <1>5 DEF IInv

\* SceneVersionHistory keeps the end of the sequence.
LEMMA NewestKeepsEnd ==
  ASSUME NEW S, NEW s \in Seq(S), NEW n \in Nat \ {0}
  PROVE  /\ Newest(s, n) \in Seq(S)
         /\ Len(Newest(s, n)) = IF Len(s) < n THEN Len(s) ELSE n
         /\ \A i \in DOMAIN Newest(s, n) :
              Newest(s, n)[i] = s[Len(s) - Len(Newest(s, n)) + i]
<1>1. CASE Len(s) <= n
  BY <1>1 DEF Newest
<1>2. CASE Len(s) > n
  <2> DEFINE first == Len(s) - n + 1
             t == SubSeq(s, first, Len(s))
  <2>1. first \in 1..Len(s) /\ Len(s) \in Nat /\ ~(Len(s) <= n)
    BY <1>2
  <2>2. t \in Seq(S) /\ Len(t) = n /\ \A i \in 1..n : t[i] = s[Len(s) - n + i]
    BY <2>1
  <2>3. Newest(s, n) = t
    BY <2>1 DEF Newest
  <2> HIDE DEF t, first
  <2> QED BY <2>1, <2>2, <2>3
<1> QED BY <1>1, <1>2

-----------------------------------------------------------------------------
(* Steps that move no frame, lease or version                              *)

\* The invariant but for the runner's flags, when nothing moves but the thread, and
\* that not in or out of the places it speaks of.
LEMMA NothingMoves ==
  ASSUME IInv,
         UNCHANGED <<frameVars, reading, writing, committed, contentVars, versions,
                     pipeline, task>>,
         \A place \in {"track", "integrate"} \cup Fused : pc' = place <=> pc = place,
         pc' \in InHand <=> pc \in InHand,
         pc' \in Holding <=> pc \in Holding
  PROVE  /\ HandAndLease' /\ UncommittedUnderLease' /\ FramesOrdered' /\ FusedFrames'
         /\ FusionNumbered' /\ Recorded(committed - Lag)'
<1> USE DEF IInv, frameVars, contentVars
<1>1. HandAndLease' /\ FramesOrdered'
  BY DEF HandAndLease, FramesOrdered
<1>2. /\ pc' \in Fused <=> pc \in Fused
      /\ pc' \in Published <=> pc \in Published
      /\ \A place \in {"track", "integrate", "publish", "release", "record"} :
           pc' = place <=> pc = place
  BY DEF Fused, Published
<1>3. FusedFrames'
  BY <1>2 DEF FusedFrames
<1>4. UncommittedUnderLease' /\ FusionNumbered'
  BY <1>2 DEF UncommittedUnderLease, FusionNumbered
<1>5. Recorded(committed - Lag)'
  BY <1>2 DEF Recorded, Lag
<1> QED BY <1>1, <1>3, <1>4, <1>5

\* The loop between frames, and its end.
LEMMA LoopPreserves ==
  ASSUME IInv, LoopCheck \/ DequeueTimeout \/ PrepareView \/ StopRunning \/ ReportStopped
  PROVE  IInv'
<1> USE DEF IInv
<1>1. UNCHANGED <<frameVars, reading, writing, committed, contentVars, versions, pipeline,
                  task, joinable, stopRequested>>
  BY DEF LoopCheck, DequeueTimeout, PrepareView, StopRunning, ReportStopped, sceneVars,
         controlVars
<1>2. \/ pc = "loop" /\ pc' \in {"stopping", "dequeue"} /\ UNCHANGED <<running, status>>
         /\ (pc' = "stopping" => stopRequested)
      \/ pc = "dequeue" /\ pc' = "loop" /\ UNCHANGED <<running, status>>
      \/ pc = "view" /\ pc' \in {"fail", "write"} /\ UNCHANGED <<running, status>>
      \/ pc = "stopping" /\ pc' = "stopped" /\ ~running' /\ UNCHANGED status
      \/ pc = "stopped" /\ pc' = "ended" /\ UNCHANGED running
         /\ status' = [status EXCEPT !.running = FALSE, !.stopRequested = stopRequested]
  BY DEF LoopCheck, LoopEnds, DequeueTimeout, PrepareView, StopRunning, ReportStopped,
         controlVars
<1>3. TypeOK'
  BY <1>1, <1>2 DEF TypeOK, IsStatus, frameVars, contentVars, PCs
<1>4. Control'
  <2>1. (joinable' <=> pc' # "none") /\ (pc' \in {"stopping", "stopped", "ended"} => stopRequested')
    BY <1>1, <1>2 DEF Control
  <2>2. pc' \in {"stopped", "ended"} => ~running'
    BY <1>2 DEF Control
  <2>3. pc' = "ended" => status'.stopRequested /\ ~status'.running
    <3>1. SUFFICES ASSUME pc' = "ended" PROVE status'.stopRequested /\ ~status'.running
      OBVIOUS
    <3>2. /\ pc = "stopped"
          /\ status' = [status EXCEPT !.running = FALSE, !.stopRequested = stopRequested]
      BY <1>2, <3>1
    <3>3. stopRequested
      BY <3>2 DEF Control
    <3> QED BY <3>2, <3>3 DEF TypeOK, IsStatus
  <2> QED BY <2>1, <2>2, <2>3 DEF Control
<1>5. /\ \A place \in {"track", "integrate"} \cup Fused : pc' = place <=> pc = place
      /\ pc' \in InHand <=> pc \in InHand
      /\ pc' \in Holding <=> pc \in Holding
  BY <1>2 DEF Fused, InHand, Holding
<1> QED BY <1>1, <1>3, <1>4, <1>5, NothingMoves

\* The thread that owns the runner.
LEMMA OwnerPreserves ==
  ASSUME IInv, Start \/ RequestStop \/ ReportStopRequested \/ Join
  PROVE  IInv'
<1> USE DEF IInv
<1>1. UNCHANGED <<frameVars, reading, writing, committed, contentVars, versions, pipeline,
                  task>>
  BY DEF Start, RequestStop, ReportStopRequested, Join, sceneVars
<1>2. \/ /\ ~joinable /\ joinable' /\ pc' = "loop" /\ running' = TRUE /\ ~stopRequested'
         /\ status' = [status EXCEPT !.running = TRUE, !.stopRequested = FALSE]
      \/ stopRequested' = TRUE /\ UNCHANGED <<pc, joinable, running, status>>
      \/ /\ status' = [status EXCEPT !.stopRequested = TRUE]
         /\ UNCHANGED <<pc, joinable, running, stopRequested>>
      \/ /\ pc = "ended" /\ pc' = "none" /\ joinable' = FALSE
         /\ UNCHANGED <<running, stopRequested, status>>
  BY DEF Start, RequestStop, ReportStopRequested, Join
<1>3. TypeOK'
  BY <1>1, <1>2 DEF TypeOK, IsStatus, frameVars, contentVars, PCs
<1>4. Control'
  BY <1>1, <1>2 DEF Control, TypeOK, IsStatus
<1>5. /\ \A place \in {"track", "integrate"} \cup Fused : pc' = place <=> pc = place
      /\ pc' \in InHand <=> pc \in InHand
      /\ pc' \in Holding <=> pc \in Holding
  BY <1>2 DEF Fused, InHand, Holding, Control
<1> QED BY <1>1, <1>3, <1>4, <1>5, NothingMoves

-----------------------------------------------------------------------------
(* The ingestor and the readers                                            *)

\* A frame accepted by the store.
LEMMA AcceptPreserves ==
  ASSUME IInv, NEW id \in FrameIds, Accept(id)
  PROVE  IInv'
<1> USE DEF IInv
<1>1. /\ id > newest /\ waiting' = Append(waiting, id) /\ newest' = id
      /\ UNCHANGED <<taken, consumed, failed, reading, writing, committed, uncommitted,
                     integrated, versions, pipeline, task, pc, joinable, running,
                     stopRequested, status>>
  BY DEF Accept, Store!Accept, sceneVars, contentVars, controlVars
<1>2. id \in Int /\ FrameIds \in SUBSET Int /\ id \in Nat
  BY BoundsAssumption DEF FrameIds
<1>3. \A p \in taken \cup consumed \cup failed \cup ToSet(waiting) : p < id
  <2>1. taken \cup consumed \cup failed \cup ToSet(waiting) \subseteq Int
    <3>1. ToSet(waiting) \subseteq FrameIds
      BY DEF TypeOK, ToSet
    <3>2. taken \cup consumed \cup failed \subseteq FrameIds
      BY DEF TypeOK, HandAndLease
    <3> QED BY <1>2, <3>1, <3>2
  <2> QED BY <1>1, <1>2, <2>1 DEF FramesOrdered, TypeOK
<1>4. waiting' \in Seq(FrameIds) /\ ToSet(waiting') = ToSet(waiting) \cup {id}
  BY <1>1, AppendElement DEF TypeOK
<1>5. Sorted(waiting')
  BY <1>1, <1>2, <1>3, AppendNewer DEF TypeOK, FramesOrdered
<1>6. TypeOK' /\ Control' /\ HandAndLease'
  BY <1>1, <1>2, <1>4 DEF TypeOK, Control, HandAndLease
<1>7. UncommittedUnderLease' /\ FusedFrames' /\ FusionNumbered' /\ Recorded(committed - Lag)'
  BY <1>1 DEF UncommittedUnderLease, FusedFrames, FusionNumbered, Recorded, Lag
<1>8. FramesOrdered'
  <2>1. taken \cup consumed \cup failed \cup ToSet(waiting) \subseteq Int
    <3>1. ToSet(waiting) \subseteq FrameIds
      BY DEF TypeOK, ToSet
    <3>2. taken \cup consumed \cup failed \subseteq FrameIds
      BY DEF TypeOK, HandAndLease
    <3> QED BY <1>2, <3>1, <3>2
  <2>2. \A p \in taken \cup consumed \cup failed \cup ToSet(waiting) : p <= id
    BY <1>2, <1>3, <2>1
  <2>3. \A p \in taken' \cup consumed' \cup failed' :
          p <= newest' /\ \A w \in ToSet(waiting') : p < w
    BY <1>1, <1>3, <1>4, <2>2 DEF FramesOrdered
  <2>4. \A w \in ToSet(waiting') : w <= newest'
    BY <1>1, <1>2, <1>4, <2>2
  <2> QED BY <1>1, <1>5, <2>3, <2>4 DEF FramesOrdered
<1> QED BY <1>6, <1>7, <1>8

\* The steps of the reader of the scene.
LEMMA ReaderPreserves ==
  ASSUME IInv, NEW r \in Readers, BeginRead(r) \/ EndRead(r)
  PROVE  IInv'
<1> USE DEF IInv
<1>1. UNCHANGED <<waiting, newest, taken, consumed, failed, writing, committed, uncommitted,
                  integrated, versions, pipeline, task, pc, joinable, running,
                  stopRequested, status>>
  BY DEF BeginRead, EndRead, Scene!GrantRead, Scene!DropRead, frameVars, contentVars,
         controlVars
<1>2. HandAndLease'
  BY <1>1 DEF HandAndLease, BeginRead, EndRead, Scene!GrantRead, Scene!DropRead
<1>3. TypeOK' /\ Control' /\ UncommittedUnderLease' /\ FramesOrdered'
  BY <1>1 DEF TypeOK, Control, UncommittedUnderLease, FramesOrdered
<1>4. FusedFrames' /\ FusionNumbered' /\ Recorded(committed - Lag)'
  BY <1>1 DEF FusedFrames, FusionNumbered, Recorded, Lag
<1> QED BY <1>2, <1>3, <1>4

-----------------------------------------------------------------------------
(* A frame's way through the builder                                       *)

\* No place of a frame's way but the first and last is one that the runner's flags
\* speak of.
LEMMA ControlKept ==
  ASSUME IInv, pc \notin {"none", "stopping", "stopped", "ended"},
         pc' \notin {"none", "stopping", "stopped", "ended"},
         UNCHANGED <<joinable, stopRequested, running>>
  PROVE  Control'
BY DEF IInv, Control

\* The builder takes the next frame.
LEMMA DequeuePreserves ==
  ASSUME IInv, Dequeue
  PROVE  IInv'
<1> USE DEF IInv
<1> DEFINE id == Head(waiting)
<1>1. /\ pc = "dequeue" /\ pc' = "view" /\ waiting # <<>> /\ waiting' = Tail(waiting)
      /\ taken' = taken \cup {id}
      /\ \E layout \in Layouts \cup {Unconvertible} :
           task' = [frameId |-> id, layout |-> layout, versionId |-> 0]
      /\ UNCHANGED <<newest, consumed, failed, reading, writing, committed, uncommitted,
                     integrated, versions, pipeline, joinable, running, stopRequested,
                     status>>
  BY DEF Dequeue, Store!Take, sceneVars, contentVars, controlVars
<1>2. /\ id \in FrameIds /\ waiting' \in Seq(FrameIds)
      /\ ToSet(waiting) = {id} \cup ToSet(waiting')
      /\ (\A w \in ToSet(waiting') : id < w) /\ Sorted(waiting')
  <2>1. FrameIds \in SUBSET Int
    BY BoundsAssumption DEF FrameIds
  <2> QED BY <1>1, <2>1, TakeHead DEF TypeOK, FramesOrdered
<1> HIDE DEF id
<1>3. task'.frameId = id /\ taken = {} /\ taken' = {id}
  BY <1>1 DEF HandAndLease, InHand, Holding
<1>4. TypeOK'
  BY <1>1, <1>2, BoundsAssumption DEF TypeOK, PCs, FrameIds
<1>5. HandAndLease'
  BY <1>1, <1>2, <1>3 DEF HandAndLease, InHand, Holding
<1>6. FramesOrdered'
  <2>1. id \notin consumed \cup failed
    <3>1. id \in Int /\ id \in ToSet(waiting)
      BY <1>2, BoundsAssumption DEF FrameIds
    <3>2. \A p \in consumed \cup failed : p < id
      BY <3>1 DEF FramesOrdered
    <3> QED BY <3>1, <3>2
  <2> QED BY <1>1, <1>2, <1>3, <2>1 DEF FramesOrdered
<1>7. UncommittedUnderLease' /\ FusedFrames' /\ FusionNumbered'
  BY <1>1 DEF UncommittedUnderLease, FusedFrames, FusionNumbered, Fused, Published
<1>8. Recorded(committed - Lag)'
  BY <1>1 DEF Recorded, Lag
<1>9. Control'
  BY <1>1, ControlKept
<1> QED BY <1>4, <1>5, <1>6, <1>7, <1>8, <1>9

\* The builder gets the scene, which nobody reads.
LEMMA AcquirePreserves ==
  ASSUME IInv, AcquireWrite
  PROVE  IInv'
<1> USE DEF IInv
<1>1. /\ pc = "write" /\ pc' = "ensure" /\ reading = {} /\ writing' = {Builder}
      /\ UNCHANGED <<waiting, taken, newest, consumed, failed, reading, committed,
                     uncommitted, integrated, versions, pipeline, task, joinable, running,
                     stopRequested, status>>
  BY DEF AcquireWrite, Scene!GrantWrite, frameVars, contentVars, controlVars
<1>2. TypeOK' /\ HandAndLease'
  BY <1>1 DEF TypeOK, PCs, HandAndLease, InHand, Holding
<1>3. UncommittedUnderLease' /\ FramesOrdered' /\ FusedFrames' /\ FusionNumbered'
  BY <1>1 DEF UncommittedUnderLease, FramesOrdered, FusedFrames, FusionNumbered, Fused,
              Published
<1>4. Recorded(committed - Lag)'
  BY <1>1 DEF Recorded, Lag
<1>5. Control'
  BY <1>1, ControlKept
<1> QED BY <1>2, <1>3, <1>4, <1>5

\* The scene is cleared for a pipeline without layout, and there was nothing in it.
LEMMA EnsurePreserves ==
  ASSUME IInv, EnsurePipeline
  PROVE  IInv'
<1> USE DEF IInv
<1>1. /\ pc = "ensure" /\ pc' = "track"
      /\ UNCHANGED <<waiting, taken, newest, consumed, failed, reading, writing, committed,
                     versions, task, joinable, running, stopRequested, status>>
  BY DEF EnsurePipeline, frameVars, sceneVars, controlVars
<1>2. ~uncommitted /\ task.layout \in Layouts \cup {Unconvertible}
  BY <1>1 DEF UncommittedUnderLease, TypeOK
<1>3. integrated' = integrated
  BY DEF EnsurePipeline, ResetClearsNewScene, FusionNumbered, contentVars
<1>4. \/ pipeline' = [layout |-> task.layout, trackingInitialised |-> FALSE]
      \/ pipeline' = pipeline /\ pipeline.layout = task.layout /\ ~uncommitted'
  BY <1>2 DEF EnsurePipeline, NeedsPipelineReset, contentVars
<1>5. /\ pipeline' \in [layout : Layouts \cup {"None", Unconvertible},
                        trackingInitialised : BOOLEAN]
      /\ pipeline'.layout # "None"
      /\ uncommitted' => ~pipeline'.trackingInitialised
  <2>1. task.layout # "None"
    BY <1>2, LayoutsAssumption DEF Unconvertible
  <2>2. CASE pipeline' = [layout |-> task.layout, trackingInitialised |-> FALSE]
    BY <1>2, <2>1, <2>2
  <2>3. CASE pipeline' = pipeline /\ pipeline.layout = task.layout /\ ~uncommitted'
    BY <2>1, <2>3 DEF TypeOK
  <2> QED BY <1>4, <2>2, <2>3
<1>6. TypeOK'
  BY <1>1, <1>3, <1>5 DEF TypeOK, PCs
<1>7. HandAndLease' /\ FramesOrdered'
  BY <1>1 DEF HandAndLease, FramesOrdered, InHand, Holding
<1>8. UncommittedUnderLease' /\ FusedFrames' /\ FusionNumbered'
  BY <1>1, <1>3, <1>5 DEF UncommittedUnderLease, FusedFrames, FusionNumbered, Fused,
                          Published
<1>9. Recorded(committed - Lag)'
  BY <1>1, <1>3 DEF Recorded, Lag
<1>10. Control'
  BY <1>1, ControlKept
<1> QED BY <1>6, <1>7, <1>8, <1>9, <1>10

\* Tracking is lost only where it was initialised, in a scene without changes.
LEMMA TrackPreserves ==
  ASSUME IInv, Track
  PROVE  IInv'
<1> USE DEF IInv
<1>1. /\ pc = "track" /\ pc' \in {"integrate", "lost"}
      /\ pc' = "lost" => pipeline.trackingInitialised
      /\ UNCHANGED <<waiting, taken, newest, consumed, failed, reading, writing, committed,
                     uncommitted, integrated, versions, pipeline, task, joinable, running,
                     stopRequested, status>>
  BY DEF Track, TrackingOutcomes, frameVars, sceneVars, contentVars, controlVars
<1>2. UncommittedUnderLease'
  BY <1>1 DEF UncommittedUnderLease
<1>3. TypeOK' /\ HandAndLease' /\ FramesOrdered'
  BY <1>1 DEF TypeOK, PCs, HandAndLease, FramesOrdered, InHand, Holding
<1>4. FusedFrames' /\ FusionNumbered'
  BY <1>1 DEF FusedFrames, FusionNumbered, Fused, Published
<1>5. Recorded(committed - Lag)'
  BY <1>1 DEF Recorded, Lag
<1>6. Control'
  BY <1>1, ControlKept
<1> QED BY <1>2, <1>3, <1>4, <1>5, <1>6

\* The frame is integrated.
LEMMA IntegratePreserves ==
  ASSUME IInv, Integrate
  PROVE  IInv'
<1> USE DEF IInv
<1> DEFINE id == task.frameId
<1>1. /\ pc = "integrate" /\ pc' = "publish" /\ integrated' = Append(integrated, id)
      /\ pipeline' = [pipeline EXCEPT !.trackingInitialised = TRUE]
      /\ UNCHANGED <<waiting, taken, newest, consumed, failed, reading, writing, committed,
                     versions, task, joinable, running, stopRequested, status>>
  BY DEF Integrate, frameVars, sceneVars, controlVars
<1>2. taken = {id} /\ id \in FrameIds /\ id \notin consumed \cup failed
  BY <1>1 DEF HandAndLease, FramesOrdered, InHand, Holding
<1>3. /\ integrated' \in Seq(FrameIds)
      /\ Len(integrated) \in Nat /\ Len(integrated') = Len(integrated) + 1
      /\ \A i \in 1..Len(integrated) : integrated'[i] = integrated[i]
      /\ integrated'[Len(integrated) + 1] = id
      /\ ToSet(integrated') = ToSet(integrated) \cup {id}
  BY <1>1, <1>2, AppendElement DEF TypeOK
<1> HIDE DEF id
<1>4. pipeline' \in [layout : Layouts \cup {"None", Unconvertible},
                     trackingInitialised : BOOLEAN]
      /\ pipeline'.layout # "None"
  BY <1>1 DEF TypeOK, FusionNumbered
<1>5. TypeOK'
  BY <1>1, <1>3, <1>4 DEF TypeOK, PCs
<1>6. UncommittedUnderLease' /\ HandAndLease' /\ FramesOrdered'
  BY <1>1 DEF UncommittedUnderLease, HandAndLease, FramesOrdered, InHand, Holding
<1>7. FusedFrames'
  BY <1>1, <1>2, <1>3 DEF FusedFrames, Fused, Published, id
<1>8. FusionNumbered'
  BY <1>1, <1>3, <1>4 DEF FusionNumbered, Fused, TypeOK, id
<1>9. Recorded(committed - Lag)'
  <2>1. /\ Lag' = Lag /\ UNCHANGED <<committed, versions>>
        /\ DOMAIN integrated = 1..Len(integrated) /\ DOMAIN integrated' = 1..Len(integrated')
    BY <1>1, <1>3 DEF Lag, TypeOK
  <2>2. \A i \in DOMAIN integrated : i \in DOMAIN integrated' /\ integrated'[i] = integrated[i]
    BY <1>3, <2>1
  <2> QED BY <2>1, <2>2 DEF Recorded
<1>10. Control'
  BY <1>1, ControlKept
<1> QED BY <1>5, <1>6, <1>7, <1>8, <1>9, <1>10

\* The version published is the place of the frame in the fusion.
LEMMA PublishPreserves ==
  ASSUME IInv, Publish
  PROVE  IInv'
<1> USE DEF IInv
<1>1. /\ pc = "publish" /\ pc' = "release" /\ committed' = committed + 1
      /\ uncommitted' = FALSE /\ task' = [task EXCEPT !.versionId = committed + 1]
      /\ UNCHANGED <<waiting, taken, newest, consumed, failed, reading, writing, integrated,
                     versions, pipeline, joinable, running, stopRequested, status>>
  BY DEF Publish, Scene!Publish, frameVars, controlVars
<1>2. /\ committed \in Nat
      /\ task' \in [frameId : 0..MaxFrameId, layout : Layouts \cup {Unconvertible},
                    versionId : Nat]
      /\ task'.frameId = task.frameId /\ task'.versionId = committed + 1
  <2>1. committed \in Nat /\ committed + 1 \in Nat
    BY DEF TypeOK
  <2>2. task \in [frameId : 0..MaxFrameId, layout : Layouts \cup {Unconvertible},
                 versionId : Nat]
    BY DEF TypeOK
  <2> QED BY <1>1, <2>1, <2>2
<1>3. TypeOK'
  BY <1>1, <1>2 DEF TypeOK, PCs
<1>4. UncommittedUnderLease' /\ HandAndLease' /\ FramesOrdered'
  BY <1>1, <1>2 DEF UncommittedUnderLease, HandAndLease, FramesOrdered, InHand, Holding
<1>5. FusedFrames'
  <2>1. Cardinality(consumed) \in Nat
    BY FS_CardinalityType DEF FusedFrames
  <2>2. committed = Cardinality(consumed)
    BY <1>1, <2>1 DEF FusedFrames, Published
  <2>3. committed' = Cardinality(consumed') + 1
    BY <1>1, <2>2
  <2> QED BY <1>1, <1>2, <2>3 DEF FusedFrames, Fused, Published
<1>6. FusionNumbered'
  <2>1. Len(integrated) = committed + 1
    BY <1>1 DEF FusionNumbered
  <2> QED BY <1>1, <1>2, <2>1 DEF FusionNumbered, Fused
<1>7. Recorded(committed - Lag)'
  <2>1. (committed - Lag)' = committed - Lag
    <3>1. Lag = 0 /\ Lag' = 1
      BY <1>1 DEF Lag
    <3> QED BY <1>1, <1>2, <3>1
  <2> QED BY <1>1, <2>1 DEF Recorded
<1>8. Control'
  BY <1>1, ControlKept
<1> QED BY <1>3, <1>4, <1>5, <1>6, <1>7, <1>8

\* The builder gives the scene back.
LEMMA ReleasePreserves ==
  ASSUME IInv, ReleaseWrite
  PROVE  IInv'
<1> USE DEF IInv
<1>1. /\ \/ pc = "release" /\ pc' = "record"
         \/ pc = "lost" /\ pc' = "fail"
      /\ writing' = {}
      /\ UNCHANGED <<waiting, taken, newest, consumed, failed, reading, committed,
                     uncommitted, integrated, versions, pipeline, task, joinable, running,
                     stopRequested, status>>
  BY DEF ReleaseWrite, Scene!DropWrite, frameVars, contentVars, controlVars
<1>2. TypeOK' /\ HandAndLease' /\ FramesOrdered'
  BY <1>1 DEF TypeOK, PCs, HandAndLease, FramesOrdered, InHand, Holding
<1>3. UncommittedUnderLease' /\ FusedFrames' /\ FusionNumbered'
  BY <1>1 DEF UncommittedUnderLease, FusedFrames, FusionNumbered, Fused, Published
<1>4. Recorded(committed - Lag)'
  <2>1. Lag' = Lag
    BY <1>1 DEF Lag
  <2> QED BY <1>1, <2>1 DEF Recorded
<1>5. Control'
  BY <1>1, ControlKept
<1> QED BY <1>2, <1>3, <1>4, <1>5

\* The record added is the next one, and names the last frame fused.
LEMMA AddVersionPreserves ==
  ASSUME IInv, AddVersion
  PROVE  IInv'
<1> USE DEF IInv
<1> DEFINE record == [versionId |-> task.versionId, frameId |-> task.frameId]
           Records == [versionId : Nat, frameId : FrameIds]
           s == Append(versions, record)
<1>1. /\ pc = "record" /\ pc' = "consume" /\ versions' = Newest(s, VersionCapacity)
      /\ UNCHANGED <<waiting, taken, newest, consumed, failed, reading, writing, committed,
                     uncommitted, integrated, pipeline, task, joinable, running,
                     stopRequested, status>>
  BY DEF AddVersion, frameVars, sceneVars, contentVars, controlVars
<1>2. /\ task.frameId \in FrameIds /\ task.versionId = committed /\ committed \in Nat
      /\ Len(integrated) = committed /\ integrated # <<>> /\ integrated \in Seq(FrameIds)
      /\ integrated[committed] = task.frameId
  <2>1. taken = {task.frameId}
    BY <1>1 DEF HandAndLease, InHand, Holding
  <2>2. /\ task.versionId = committed /\ committed \in Nat /\ integrated \in Seq(FrameIds)
        /\ integrated # <<>> /\ integrated[Len(integrated)] = task.frameId
    BY <1>1 DEF FusionNumbered, Fused, TypeOK
  <2>3. Len(integrated) = committed
    BY <1>1, <2>2 DEF FusionNumbered
  <2> QED BY <2>1, <2>2, <2>3 DEF HandAndLease
<1>3. record \in Records /\ versions \in Seq(Records)
  BY <1>2 DEF TypeOK
<1>4. /\ record.versionId = committed /\ record.frameId = task.frameId
      /\ committed \in DOMAIN integrated
  <2>1. committed \in 1..Len(integrated)
    BY <1>2
  <2> QED BY <1>2, <2>1
<1> HIDE DEF record, Records
<1>5. /\ s \in Seq(Records) /\ Len(versions) \in Nat /\ Len(s) = Len(versions) + 1
      /\ \A i \in 1..Len(versions) : s[i] = versions[i]
      /\ s[Len(versions) + 1] = record
  BY <1>3, AppendElement
<1> HIDE DEF s
<1>6. /\ versions' \in Seq(Records)
      /\ Len(versions') = IF Len(s) < VersionCapacity THEN Len(s) ELSE VersionCapacity
      /\ \A i \in DOMAIN versions' : versions'[i] = s[Len(s) - Len(versions') + i]
  BY <1>1, <1>5, NewestKeepsEnd, CapacityAssumption
<1>7. Recorded(committed - Lag)'
  <2> DEFINE known == committed - 1
  <2>1. (committed - Lag)' = committed /\ committed - Lag = known /\ known \in Nat
    <3>1. Lag = 1 /\ Lag' = 0 /\ committed \in Nat \ {0}
      BY <1>1, <1>2, <1>4 DEF Lag
    <3> QED BY <1>1, <3>1
  <2>2. Recorded(known)
    BY <2>1
  <2>3. committed = known + 1
    BY <1>2
  <2> HIDE DEF known
  <2>4. Len(versions') = IF committed < VersionCapacity THEN committed ELSE VersionCapacity
    BY <1>5, <1>6, <2>1, <2>2, <2>3, CapacityAssumption DEF Recorded
  <2>5. ASSUME NEW i \in DOMAIN versions'
        PROVE  /\ versions'[i].versionId = committed - Len(versions') + i
               /\ versions'[i].versionId \in DOMAIN integrated
               /\ versions'[i].frameId = integrated[versions'[i].versionId]
    <3> DEFINE j == Len(s) - Len(versions') + i
    <3>1. /\ Len(versions') \in Nat /\ i \in 1..Len(versions') /\ Len(versions') <= Len(s)
      BY <1>5, <1>6, CapacityAssumption
    <3>2. versions'[i] = s[j] /\ j \in 1..(Len(versions) + 1)
      BY <1>5, <1>6, <3>1
    <3>3. CASE j = Len(versions) + 1
      <4>1. i = Len(versions')
        BY <1>5, <3>1, <3>3
      <4>2. versions'[i] = record
        BY <1>5, <3>2, <3>3
      <4>3. committed - Len(versions') + i = committed
        BY <1>2, <3>1, <4>1
      <4> QED BY <1>2, <1>4, <4>2, <4>3
    <3>4. CASE j # Len(versions) + 1
      <4>1. j \in 1..Len(versions) /\ j \in DOMAIN versions
        BY <1>3, <1>5, <3>2, <3>4
      <4>2. versions'[i] = versions[j]
        BY <1>5, <3>2, <4>1
      <4>3. known - Len(versions) + j = committed - Len(versions') + i
        BY <1>5, <2>1, <2>3, <3>1
      <4> QED BY <2>2, <4>1, <4>2, <4>3 DEF Recorded
    <3> QED BY <3>3, <3>4
  <2> QED BY <1>1, <2>1, <2>4, <2>5 DEF Recorded
<1>8. TypeOK'
  BY <1>1, <1>6 DEF TypeOK, PCs, Records
<1>9. UncommittedUnderLease' /\ HandAndLease' /\ FramesOrdered'
  BY <1>1 DEF UncommittedUnderLease, HandAndLease, FramesOrdered, InHand, Holding
<1>10. FusedFrames' /\ FusionNumbered'
  BY <1>1 DEF FusedFrames, FusionNumbered, Fused, Published
<1>11. Control'
  BY <1>1, ControlKept
<1> QED BY <1>7, <1>8, <1>9, <1>10, <1>11

\* A frame is acknowledged once, as consumed if it was published.
LEMMA MarkPreserves ==
  ASSUME IInv, MarkFrame
  PROVE  IInv'
<1> USE DEF IInv
<1> DEFINE id == task.frameId
<1>1. /\ pc \in {"consume", "fail"} /\ pc' = "result"
      /\ taken' = taken \ {id}
      /\ consumed' = IF pc = "consume" THEN consumed \cup {id} ELSE consumed
      /\ failed' = IF pc = "consume" THEN failed ELSE failed \cup {id}
      /\ UNCHANGED <<waiting, newest, reading, writing, committed, uncommitted, integrated,
                     versions, pipeline, task, joinable, running, stopRequested, status>>
  BY DEF MarkFrame, Store!Complete, sceneVars, contentVars, controlVars
<1>2. taken = {id} /\ id \in FrameIds /\ taken' = {} /\ id \notin consumed \cup failed
  BY <1>1 DEF HandAndLease, FramesOrdered, InHand, Holding
<1>3. TypeOK'
  BY <1>1, <1>2 DEF TypeOK, PCs
<1>4. UncommittedUnderLease' /\ HandAndLease'
  BY <1>1, <1>2 DEF UncommittedUnderLease, HandAndLease, InHand, Holding
<1>5. FramesOrdered'
  <2>1. taken' \cup consumed' \cup failed' \subseteq taken \cup consumed \cup failed
    BY <1>1, <1>2
  <2> QED BY <1>1, <1>2, <2>1 DEF FramesOrdered
<1>6. FusedFrames'
  <2>1. IsFiniteSet(consumed) /\ Cardinality(consumed) \in Nat
    BY FS_CardinalityType DEF FusedFrames
  <2>2. CASE pc = "consume"
    <3>1. IsFiniteSet(consumed') /\ Cardinality(consumed') = Cardinality(consumed) + 1
      BY <1>1, <1>2, <2>1, <2>2, FS_AddElement
    <3>2. committed = Cardinality(consumed) + 1 /\ ToSet(integrated) = consumed \cup {id}
      BY <2>2 DEF FusedFrames, Fused, Published
    <3>3. committed' = Cardinality(consumed') + 0
      BY <1>1, <2>1, <3>1, <3>2
    <3> QED BY <1>1, <2>2, <3>1, <3>2, <3>3 DEF FusedFrames, Fused, Published
  <2>3. CASE pc = "fail"
    <3>1. ToSet(integrated) = consumed
      BY <2>3 DEF FusedFrames, Fused
    <3> QED BY <1>1, <1>2, <2>1, <2>3, <3>1 DEF FusedFrames, Fused, Published
  <2> QED BY <1>1, <2>2, <2>3
<1>7. FusionNumbered'
  BY <1>1 DEF FusionNumbered, Fused
<1>8. Recorded(committed - Lag)'
  BY <1>1 DEF Recorded, Lag
<1>9. Control'
  BY <1>1, ControlKept
<1> QED BY <1>3, <1>4, <1>5, <1>6, <1>7, <1>8, <1>9

\* The builder deals with the outcome of the frame.
LEMMA ResultPreserves ==
  ASSUME IInv, RecordResult
  PROVE  IInv'
<1> USE DEF IInv
<1>1. /\ pc = "result" /\ pc' = "loop" /\ task' = NoTask
      /\ \/ status' = [status EXCEPT !.consumed = @ + 1,
                                     !.lastSceneVersionId = task.versionId]
         \/ status' = [status EXCEPT !.failed = @ + 1, !.lastSceneVersionId = 0]
      /\ UNCHANGED <<waiting, taken, newest, consumed, failed, reading, writing, committed,
                     uncommitted, integrated, versions, pipeline, joinable, running,
                     stopRequested>>
  BY DEF RecordResult, frameVars, sceneVars, contentVars
<1>2. IsStatus(status')
  BY <1>1 DEF TypeOK, IsStatus
<1>3. TypeOK'
  BY <1>1, <1>2, BoundsAssumption DEF TypeOK, PCs, NoTask
<1>4. UncommittedUnderLease' /\ HandAndLease' /\ FramesOrdered'
  BY <1>1 DEF UncommittedUnderLease, HandAndLease, FramesOrdered, InHand, Holding
<1>5. FusedFrames' /\ FusionNumbered'
  BY <1>1 DEF FusedFrames, FusionNumbered, Fused, Published
<1>6. Recorded(committed - Lag)'
  BY <1>1 DEF Recorded, Lag
<1>7. Control'
  BY <1>1, ControlKept
<1> QED BY <1>3, <1>4, <1>5, <1>6, <1>7

-----------------------------------------------------------------------------
\* Every step preserves the invariant.
LEMMA NextInvariant == IInv /\ [Next]_vars => IInv'
<1> SUFFICES ASSUME IInv, [Next]_vars PROVE IInv'
  OBVIOUS
<1>1. ASSUME NEW id \in FrameIds, Accept(id) PROVE IInv'
  BY <1>1, AcceptPreserves
<1>2. ASSUME NEW r \in Readers, BeginRead(r) \/ EndRead(r) PROVE IInv'
  BY <1>2, ReaderPreserves
<1>3. CASE RunnerStep
  <2>1. CASE LoopCheck \/ DequeueTimeout \/ PrepareView \/ StopRunning \/ ReportStopped
    BY <2>1, LoopPreserves
  <2> QED BY <1>3, <2>1, DequeuePreserves, EnsurePreserves, TrackPreserves,
             IntegratePreserves, PublishPreserves, ReleasePreserves, AddVersionPreserves,
             MarkPreserves, ResultPreserves DEF RunnerStep
<1>4. CASE AcquireWrite
  BY <1>4, AcquirePreserves
<1>5. CASE Start \/ RequestStop \/ ReportStopRequested \/ Join
  BY <1>5, OwnerPreserves
<1>6. CASE UNCHANGED vars
  <2>1. UNCHANGED <<frameVars, reading, writing, committed, contentVars, versions, pipeline,
                    task, pc, joinable, running, stopRequested, status>>
    BY <1>6 DEF vars, sceneVars, controlVars
  <2>2. TypeOK' /\ Control'
    BY <2>1 DEF IInv, TypeOK, Control, frameVars, contentVars
  <2> QED BY <2>1, <2>2, NothingMoves DEF IInv
<1> QED BY <1>1, <1>2, <1>3, <1>4, <1>5, <1>6 DEF Next

\* Where the builder thread stands says what is in its hand, who may see the scene, and
\* what the scene and the version store hold.
THEOREM Invariance == Spec => []IInv
<1>1. Init => IInv
  BY InitInvariant
<1>2. IInv /\ [Next]_vars => IInv'
  BY NextInvariant
<1> QED BY <1>1, <1>2, PTL DEF Spec

\* Although a lease may end without a publication, no reader sees changes that were not
\* published (SceneBuilder.cpp:35-46).
THEOREM CommittedStateOnly == Spec => []ReadersSeeCommittedState
<1>1. IInv => ReadersSeeCommittedState
  BY DEF IInv, ReadersSeeCommittedState, UncommittedUnderLease, HandAndLease, Holding
<1> QED BY <1>1, Invariance, PTL

\* The version store holds the newest versions without a gap, each with the frame that
\* was fused for it (SceneBuilder.cpp:52-57).
THEOREM RecordsMatch == Spec => []VersionsMatchScene
<1>1. IInv => VersionsMatchScene
  BY DEF IInv, Recorded, Lag, VersionsMatchScene
<1> QED BY <1>1, Invariance, PTL

\* A frame is consumed if and only if it was published, and none is both consumed and
\* failed (SceneBuilderRunner.cpp:74-80).
THEOREM AcknowledgedAsPublished == Spec => []ConsumedFramesPublished
<1>1. IInv => ConsumedFramesPublished
  BY DEF IInv, FusedFrames, Published, ConsumedFramesPublished
<1> QED BY <1>1, Invariance, PTL

\* A loop that ended has no frame in hand, and its status says it was stopped on request
\* (SceneBuilderRunner.cpp:40-44, 66-83, 105-110).
THEOREM CleanEnd == Spec => []EndsCleanly
<1>1. IInv => EndsCleanly
  BY DEF IInv, Control, HandAndLease, InHand, Holding, EndsCleanly
<1> QED BY <1>1, Invariance, PTL

\* Type correctness of the builder.
THEOREM TypeCorrect == Spec => []TypeOK
<1>1. IInv => TypeOK
  BY DEF IInv
<1> QED BY <1>1, Invariance, PTL
-----------------------------------------------------------------------------
(* What becomes of the frames                                              *)

\* The frames the store has accepted from the ingestor.
Accepted == ToSet(waiting) \cup taken \cup consumed \cup failed

\* A frame waits, is in the builder's hands, was consumed, or failed.
InOnePlace ==
  /\ ToSet(waiting) \cap (taken \cup consumed \cup failed) = {}
  /\ taken \cap (consumed \cup failed) = {}
  /\ consumed \cap failed = {}

\* Frames stay accepted, and what became of them is final.
NoneLost ==
  Accepted \subseteq Accepted' /\ consumed \subseteq consumed' /\ failed \subseteq failed'

\* A step that takes no frame and marks none loses none.
LEMMA NoneLostElsewhere ==
  ASSUME UNCHANGED frameVars
  PROVE  NoneLost
BY DEF frameVars, NoneLost, Accepted

\* The steps that move frames: into the queue, out of it, and to their end.
LEMMA StepLosesNone ==
  ASSUME IInv, [Next]_vars
  PROVE  NoneLost
<1>1. waiting \in Seq(FrameIds) /\ FrameIds \in SUBSET Int /\ Sorted(waiting)
  BY DEF IInv, TypeOK, FramesOrdered, FrameIds
<1>2. ASSUME NEW id \in FrameIds, Accept(id) PROVE NoneLost
  <2>1. ToSet(waiting') = ToSet(waiting) \cup {id}
    BY <1>1, <1>2, AppendElement DEF Accept, Store!Accept
  <2> QED BY <1>2, <2>1 DEF Accept, Store!Accept, NoneLost, Accepted
<1>3. CASE Dequeue
  <2>1. waiting # <<>> /\ waiting' = Tail(waiting) /\ taken' = taken \cup {Head(waiting)}
    BY <1>3 DEF Dequeue, Store!Take
  <2>2. ToSet(waiting) = {Head(waiting)} \cup ToSet(waiting')
    BY <1>1, <2>1, TakeHead
  <2> QED BY <1>3, <2>1, <2>2 DEF Dequeue, NoneLost, Accepted
<1>4. CASE MarkFrame
  BY <1>4 DEF MarkFrame, Store!Complete, NoneLost, Accepted
<1>5. CASE \/ \E r \in Readers : BeginRead(r) \/ EndRead(r)
           \/ LoopCheck \/ DequeueTimeout \/ PrepareView \/ EnsurePipeline \/ Track
           \/ Integrate \/ Publish \/ ReleaseWrite \/ AddVersion \/ RecordResult
           \/ StopRunning \/ ReportStopped \/ AcquireWrite
           \/ Start \/ RequestStop \/ ReportStopRequested \/ Join \/ UNCHANGED vars
  <2>1. UNCHANGED frameVars
    BY <1>5 DEF BeginRead, EndRead, LoopCheck, DequeueTimeout, PrepareView, EnsurePipeline,
       Track, Integrate, Publish, ReleaseWrite, AddVersion, RecordResult, StopRunning,
       ReportStopped, AcquireWrite, Start, RequestStop, ReportStopRequested, Join, vars
  <2> QED BY <2>1, NoneLostElsewhere
<1> QED BY <1>2, <1>3, <1>4, <1>5 DEF Next, RunnerStep

\* Every frame that the store accepted is in one place, however the builder is stopped
\* and started again and whatever fails, and none ever disappears: the safety that
\* FramesBuilt rests on, and holds also of a builder that readers starve
\* (SceneBuilderRunner.cpp:66-83).
THEOREM NoFrameLost == Spec => []InOnePlace /\ [][NoneLost]_vars
<1>1. IInv => InOnePlace
  <2> SUFFICES ASSUME IInv PROVE InOnePlace
    OBVIOUS
  <2>1. taken \subseteq FrameIds /\ consumed \subseteq FrameIds /\ failed \subseteq FrameIds
    BY DEF IInv, TypeOK, HandAndLease
  <2>2. taken \cup consumed \cup failed \subseteq Int
    BY <2>1 DEF FrameIds
  <2>3. \A id \in taken \cup consumed \cup failed : id \notin ToSet(waiting)
    BY <2>2 DEF IInv, FramesOrdered
  <2>4. consumed \cap failed = {}
    BY DEF IInv, FusedFrames
  <2> QED BY <2>3, <2>4 DEF IInv, FramesOrdered, InOnePlace
<1>2. IInv /\ [Next]_vars => [NoneLost]_vars
  BY StepLosesNone
<1> QED BY <1>1, <1>2, Invariance, PTL DEF Spec
=============================================================================
