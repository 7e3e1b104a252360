--------------------------- MODULE PoseSourcesProofs ---------------------------
(***************************************************************************)
(* Theorems about PoseSources, for any clients, poses and generations, and *)
(* any size of the frame store.                                            *)
(***************************************************************************)
EXTENDS PoseSources, SortedQueues, TLAPS

-----------------------------------------------------------------------------
(* The inductive invariant                                                 *)

\* A baseline is a pose that was there: relative poses cannot be the first.
BaselineWasLatest == latestPose = NoPose => baselinePose = NoPose

\* A client has no messages before its session, and a session comes once.
ClientsComeOnce ==
  /\ \A c \in Clients : c \notin connected =>
       c # listener /\ c # channel /\ inbox[c] = NoMessage /\ moved.by # c
  /\ listener # NoClient =>
       channel # listener /\ inbox[listener] = NoMessage /\ moved.by # listener

\* The baseline is what the last client to connect found.
BaselineIsCaptured ==
  /\ listener # NoClient => baselinePose = captured[listener]
  /\ listener = NoClient /\ channel # NoClient => baselinePose = captured[channel]

IInv ==
  /\ TypeOK
  /\ BaselineWasLatest
  /\ SeedNeverOverrides
  /\ ClientsComeOnce
  /\ BaselineIsCaptured
  /\ PoseFollowsClient

-----------------------------------------------------------------------------
(* Poses                                                                   *)

\* The pose of a store that holds none is of the type of poses.
LEMMA NoPoseIsPose == NoPose \in PoseRecords
BY PosesAssumption DEF NoPose, PoseRecords, Poses

\* Composing poses yields a pose.
LEMMA ComposeIsPose ==
  ASSUME NEW relative \in Poses, NEW base \in Poses
  PROVE  Compose(relative, base) \in Poses
BY PosesAssumption DEF Compose, Poses

\* What is stored is a pose, and has the position that was asked for.
LEMMA StoredPose ==
  ASSUME NEW p, NEW viewerPose \in PoseRecords, nextGeneration \in Nat \ {0},
         Store(p, viewerPose)
  PROVE  /\ latestPose' \in PoseRecords /\ latestPose' # NoPose
         /\ latestPose'.pose = viewerPose.pose
         /\ nextGeneration' \in Nat \ {0}
<1> DEFINE generation == NormalisedGeneration(viewerPose)
<1>1. generation \in Nat \ {0}
  BY DEF NormalisedGeneration, PoseRecords
<1>2. latestPose' = [viewerPose EXCEPT !.generation = generation]
      /\ nextGeneration' = generation + 1
  BY DEF Store
<1> HIDE DEF generation
<1>3. /\ latestPose' \in PoseRecords /\ latestPose'.generation = generation
      /\ latestPose'.pose = viewerPose.pose
  BY <1>1, <1>2 DEF PoseRecords
<1> QED BY <1>1, <1>2, <1>3 DEF NoPose

\* A relative pose moves the baseline.
LEMMA RelativePose ==
  ASSUME NEW relative \in Poses, baselinePose \in PoseRecords
  PROVE  /\ NextRelativePose(relative) \in PoseRecords
         /\ NextRelativePose(relative).pose = Compose(relative, baselinePose.pose)
BY ComposeIsPose DEF NextRelativePose, PoseRecords

-----------------------------------------------------------------------------
(* The invariant                                                           *)

\* At first nobody has a pose.
LEMMA InitInvariant == Init => IInv
<1> SUFFICES ASSUME Init PROVE IInv
  OBVIOUS
<1>1. 0 \in Poses
  BY PosesAssumption DEF Poses
<1>2. TypeOK
  BY <1>1, NoPoseIsPose DEF TypeOK, Init, PoseInit, NoFrame
<1>3. BaselineWasLatest /\ SeedNeverOverrides /\ BaselineIsCaptured /\ PoseFollowsClient
  BY DEF Init, PoseInit, BaselineWasLatest, SeedNeverOverrides, BaselineIsCaptured,
         PoseFollowsClient
<1>4. ClientsComeOnce
  <2>1. /\ listener = NoClient /\ channel = NoClient /\ moved.by = NoClient
        /\ \A c \in Clients : inbox[c] = NoMessage
    BY DEF Init
  <2>2. \A c \in Clients : c # NoClient
    BY ClientsAssumption
  <2> QED BY <2>1, <2>2 DEF ClientsComeOnce
<1> QED BY <1>2, <1>3, <1>4 DEF IInv

\* Steps of the frame store and notifications do not touch what the invariant is about.
LEMMA OthersPreserve ==
  ASSUME IInv,
         UNCHANGED <<latestPose, baselinePose, nextGeneration, seeder, clientVars>>
  PROVE  IInv'
BY DEF IInv, TypeOK, BaselineWasLatest, SeedNeverOverrides, ClientsComeOnce,
       BaselineIsCaptured, PoseFollowsClient, clientVars

\* The steps of the seeder.
LEMMA SeederPreserves ==
  ASSUME IInv, SeederStep
  PROVE  IInv'
<1> USE DEF IInv
<1>1. CASE SeedLook \/ SeedReadsVersion \/ SeedReadsFrame \/ SeedTimesOut
  <2>1. /\ UNCHANGED <<poseVars, clientVars>>
        /\ seeder'.at \in {"poll", "frame", "update"} =>
             seeder.at \in {"poll", "frame", "update"} \/ latestPose = NoPose
    BY <1>1 DEF SeedLook, SeedReadsVersion, SeedReadsFrame, SeedTimesOut, SeederAt,
                SeederMoves, TypeOK
  <2>2. seeder' = [at |-> seeder'.at, version |-> seeder'.version]
    BY <1>1 DEF SeedLook, SeedReadsVersion, SeedReadsFrame, SeedTimesOut, SeederAt,
                SeederMoves, TypeOK
  <2> QED BY <2>1, <2>2 DEF TypeOK, BaselineWasLatest, SeedNeverOverrides, ClientsComeOnce,
                            BaselineIsCaptured, PoseFollowsClient, poseVars, clientVars
<1>2. CASE SeedUpdates
  <2>1. PICK pose \in Poses :
          Update(Seeder, [pose |-> pose, renderable |-> TRUE, generation |-> 0])
    BY <1>2 DEF SeedUpdates
  <2>2. [pose |-> pose, renderable |-> TRUE, generation |-> 0] \in PoseRecords
    BY DEF PoseRecords
  <2>3. /\ latestPose' \in PoseRecords /\ latestPose' # NoPose
        /\ nextGeneration' \in Nat \ {0} /\ baselinePose' = baselinePose
    BY <2>1, <2>2, StoredPose DEF Update, TypeOK
  <2>4. /\ moved' = [by |-> Seeder, relative |-> 0]
        /\ seeder' = [seeder EXCEPT !.at = "done"]
        /\ UNCHANGED <<listener, connected, channel, inbox, captured>>
    BY <1>2 DEF SeedUpdates, SeederMoves
  <2>5. TypeOK'
    BY <2>3, <2>4, PosesAssumption DEF TypeOK, Poses
  <2>6. BaselineWasLatest' /\ SeedNeverOverrides' /\ BaselineIsCaptured'
    BY <2>3, <2>4 DEF TypeOK, BaselineWasLatest, SeedNeverOverrides, BaselineIsCaptured
  <2>7. ClientsComeOnce' /\ PoseFollowsClient'
    BY <2>4, ClientsAssumption DEF TypeOK, ClientsComeOnce, PoseFollowsClient
  <2> QED BY <2>5, <2>6, <2>7
<1> QED BY <1>1, <1>2 DEF SeederStep

\* A client that connects.
LEMMA ConnectPreserves ==
  ASSUME IInv, NEW c \in Clients, ResetBaseline(c)
  PROVE  IInv'
<1> USE DEF IInv
<1>1. /\ listener = NoClient /\ c \notin connected
      /\ baselinePose' = latestPose /\ listener' = c /\ connected' = connected \cup {c}
      /\ captured' = [captured EXCEPT ![c] = latestPose]
      /\ UNCHANGED <<latestPose, nextGeneration, seeder, channel, inbox, moved>>
  BY DEF ResetBaseline, ResetRelativeBaseline
<1>2. c # NoClient
  BY ClientsAssumption
<1>3. TypeOK'
  BY <1>1 DEF TypeOK
<1>4. BaselineWasLatest' /\ SeedNeverOverrides'
  BY <1>1 DEF BaselineWasLatest, SeedNeverOverrides
<1>5. ClientsComeOnce'
  BY <1>1 DEF ClientsComeOnce, TypeOK
<1>6. BaselineIsCaptured' /\ PoseFollowsClient'
  BY <1>1, <1>2 DEF BaselineIsCaptured, PoseFollowsClient, TypeOK
<1> QED BY <1>3, <1>4, <1>5, <1>6

\* A session begins with no message of its client applied, and one that ends leaves none.
LEMMA SessionPreserves ==
  ASSUME IInv, BuildSession \/ TearDown
  PROVE  IInv'
<1> USE DEF IInv
<1>1. /\ UNCHANGED <<latestPose, baselinePose, nextGeneration, seeder, connected, inbox,
                     captured, moved>>
      /\ \/ listener # NoClient /\ channel' \in {listener, NoClient} /\ listener' = NoClient
         \/ channel' = NoClient /\ listener' = listener
  BY DEF BuildSession, TearDown, poseVars
<1>2. TypeOK'
  BY <1>1 DEF TypeOK
<1>3. BaselineWasLatest' /\ SeedNeverOverrides'
  BY <1>1 DEF BaselineWasLatest, SeedNeverOverrides
<1>4. ClientsComeOnce'
  BY <1>1, ClientsAssumption DEF ClientsComeOnce, TypeOK
<1>5. BaselineIsCaptured' /\ PoseFollowsClient'
  BY <1>1 DEF BaselineIsCaptured, PoseFollowsClient, ClientsComeOnce, TypeOK
<1> QED BY <1>2, <1>3, <1>4, <1>5

\* A pose message from a client.
LEMMA MessagePreserves ==
  ASSUME IInv, NEW c \in Clients, OnMessage(c)
  PROVE  IInv'
<1> USE DEF IInv
<1>1. /\ channel = c
      /\ \E relative \in Poses : inbox' = [inbox EXCEPT ![c] = relative]
      /\ UNCHANGED <<latestPose, baselinePose, nextGeneration, seeder, listener, connected,
                     channel, captured, moved>>
  BY DEF OnMessage, poseVars
<1>2. TypeOK'
  BY <1>1 DEF TypeOK
<1>3. BaselineWasLatest' /\ SeedNeverOverrides' /\ BaselineIsCaptured' /\ PoseFollowsClient'
  BY <1>1 DEF BaselineWasLatest, SeedNeverOverrides, BaselineIsCaptured, PoseFollowsClient
<1>4. ClientsComeOnce'
  BY <1>1 DEF ClientsComeOnce, TypeOK
<1> QED BY <1>2, <1>3, <1>4

\* A message is applied to the baseline there is: that of the client whose session is
\* active, or of the one about to replace it, whose session has yet to begin.
LEMMA ApplyPreserves ==
  ASSUME IInv, NEW c \in Clients, ApplyPoseUpdate(c)
  PROVE  IInv'
<1> USE DEF IInv
<1>1. /\ inbox[c] # NoMessage /\ inbox' = [inbox EXCEPT ![c] = NoMessage]
      /\ UNCHANGED <<seeder, listener, connected, channel, captured>>
  BY DEF ApplyPoseUpdate, frameVars
<1>2. c \in connected /\ listener # c /\ inbox[c] \in Poses
  BY <1>1, ClientsAssumption DEF ClientsComeOnce, TypeOK
<1>3. CASE ApplyRelativePose(c, inbox[c]) /\ moved' = [by |-> c, relative |-> inbox[c]]
  <2>1. /\ baselinePose # NoPose /\ Store(c, NextRelativePose(inbox[c]))
        /\ UNCHANGED baselinePose
    BY <1>3 DEF ApplyRelativePose
  <2>2. /\ latestPose' \in PoseRecords /\ latestPose' # NoPose
        /\ latestPose'.pose = Compose(inbox[c], baselinePose.pose)
        /\ nextGeneration' \in Nat \ {0}
    BY <1>2, <2>1, RelativePose, StoredPose DEF TypeOK
  <2>3. TypeOK'
    BY <1>1, <1>2, <1>3, <2>1, <2>2 DEF TypeOK
  <2>4. BaselineWasLatest' /\ SeedNeverOverrides' /\ BaselineIsCaptured'
    BY <1>1, <2>1, <2>2 DEF BaselineWasLatest, SeedNeverOverrides, BaselineIsCaptured
  <2>5. ClientsComeOnce'
    BY <1>1, <1>2, <1>3 DEF ClientsComeOnce, TypeOK
  <2>6. PoseFollowsClient'
    BY <1>1, <1>3, <2>2 DEF PoseFollowsClient, BaselineIsCaptured, TypeOK
  <2> QED BY <2>3, <2>4, <2>5, <2>6
<1>4. CASE UNCHANGED <<poseVars, moved>>
  <2>1. TypeOK'
    BY <1>1, <1>4 DEF TypeOK, poseVars
  <2>2. BaselineWasLatest' /\ SeedNeverOverrides' /\ BaselineIsCaptured' /\ PoseFollowsClient'
    BY <1>1, <1>4 DEF BaselineWasLatest, SeedNeverOverrides, BaselineIsCaptured,
                      PoseFollowsClient, poseVars
  <2>3. ClientsComeOnce'
    BY <1>1, <1>4 DEF ClientsComeOnce, TypeOK
  <2> QED BY <2>1, <2>2, <2>3
<1> QED BY <1>3, <1>4 DEF ApplyPoseUpdate

\* Every step preserves the invariant.
LEMMA NextInvariant == IInv /\ [Next]_vars => IInv'
<1> SUFFICES ASSUME IInv, [Next]_vars PROVE IInv'
  OBVIOUS
<1>1. CASE StoreStep
  BY <1>1, OthersPreserve DEF StoreStep, AcceptFrame, AddVersion, MarkConsumed, MarkFailed,
                              poseVars
<1>2. CASE SeederStep
  BY <1>2, SeederPreserves
<1>3. CASE BuildSession \/ TearDown
  BY <1>3, SessionPreserves
<1>4. ASSUME NEW c \in Clients, ClientStep(c) PROVE IInv'
  BY <1>4, ConnectPreserves, MessagePreserves, ApplyPreserves DEF ClientStep
<1>5. ASSUME NEW p \in Producers, Notify(p) PROVE IInv'
  BY <1>5, OthersPreserve DEF Notify, NotifyAll
<1>6. CASE UNCHANGED vars
  BY <1>6, OthersPreserve DEF vars, poseVars
<1> QED BY <1>1, <1>2, <1>3, <1>4, <1>5, <1>6 DEF Next

\* The baseline is the pose the last client to connect found, which was set by someone
\* before, and a client's messages come after its session began.
THEOREM Invariance == Spec => []IInv
<1>1. Init => IInv
  BY InitInvariant
<1>2. IInv /\ [Next]_vars => IInv'
  BY NextInvariant
<1> QED BY <1>1, <1>2, PTL DEF Spec

\* The seeder, which does not look again before it stores its pose, never overwrites
\* a client's (ViewerPoseSeeder.cpp:26-36, ViewerPoseStore.cpp:64-81).
THEOREM SeedIsFirst == Spec => []SeedNeverOverrides
<1>1. IInv => SeedNeverOverrides
  BY DEF IInv
<1> QED BY <1>1, Invariance, PTL

\* Whatever messages of superseded clients are in flight, a client's message moves the
\* pose it found when it connected (WebRtcServer.cpp:261-264, 1249-1267).
THEOREM MessagesMoveOwnBaseline == Spec => []PoseFollowsClient
<1>1. IInv => PoseFollowsClient
  BY DEF IInv
<1> QED BY <1>1, Invariance, PTL

\* Type correctness of the poses and their sources.
THEOREM TypeCorrect == Spec => []TypeOK
<1>1. IInv => TypeOK
  BY DEF IInv
<1> QED BY <1>1, Invariance, PTL

-----------------------------------------------------------------------------
(* The frames the seeder depends on                                        *)

\* What frames are numbered with.
Ids == Nat \ {0}

\* The store's frames in order, and the builder's progress through them.
FramesOrdered ==
  /\ history \in Seq(Ids) /\ Sorted(history)
  /\ Len(history) <= MaxStoredFrames
  /\ pending \subseteq ToSet(history)

\* The newest version's frame is behind those still to be fused, but for the time
\* between its version and its mark.
VersionBehindPending ==
  /\ lastVersion \in Nat /\ lastVersion <= Newest
  /\ building # NoFrame => building \in pending /\ building = lastVersion
  /\ \A p \in pending : p = building \/ p > lastVersion

\* The inductive invariant of the frames, besides IInv.
FramesInv ==
  /\ FramesOrdered
  /\ VersionBehindPending
  /\ SeedFrameKept

\* Min is the least element.
LEMMA MinIsLeast ==
  ASSUME NEW T \in SUBSET Nat, T # {}
  PROVE  Min(T) \in T /\ \A y \in T : Min(T) <= y
<1>1. \E x \in T : \A y \in T : x <= y
  BY LeastElement
<1> QED BY <1>1, Zenon DEF Min

\* Nothing in the store is newer than its newest frame.
LEMMA NewestIsLargest ==
  ASSUME history \in Seq(Ids), Sorted(history)
  PROVE  Newest \in Nat /\ \A y \in ToSet(history) : y \in Ids /\ y <= Newest
<1>1. CASE history = <<>>
  BY <1>1 DEF Newest, NoFrame, ToSet
<1>2. CASE history # <<>>
  <2>1. Ids \in SUBSET Int
    BY DEF Ids
  <2>2. /\ Last(history) \in Ids /\ \A y \in ToSet(history) : y <= Last(history)
    BY <1>2, <2>1, LastIsLargest
  <2>3. ToSet(history) \subseteq Ids
    BY DEF ToSet
  <2> QED BY <1>2, <2>2, <2>3 DEF Newest, Ids
<1> QED BY <1>1, <1>2

\* A frame put behind a part of the history is its newest.
LEMMA AppendedIsNewest ==
  ASSUME NEW t \in Seq(Ids), NEW id \in Ids, history' = Append(t, id)
  PROVE  Newest' = id
<1>1. history' # <<>> /\ history'[Len(history')] = id
  OBVIOUS
<1> QED BY <1>1 DEF Newest, Last

\* An empty store, before the first frame.
LEMMA FramesInit == Init => FramesInv
<1> SUFFICES ASSUME Init PROVE FramesInv
  OBVIOUS
<1>1. history = <<>> /\ pending = {} /\ building = NoFrame /\ lastVersion = NoFrame
  BY DEF Init
<1>2. FramesOrdered
  BY <1>1, FramesAssumption DEF FramesOrdered, Sorted, ToSet
<1>3. VersionBehindPending /\ SeedFrameKept
  BY <1>1 DEF VersionBehindPending, SeedFrameKept, Newest, NoFrame
<1> QED BY <1>2, <1>3 DEF FramesInv

\* The history loses the oldest frame that may go; the newest version's is that one only
\* when every other is newer, since all that are protected are.
LEMMA AcceptKeepsFrames ==
  ASSUME FramesInv, AcceptFrame
  PROVE  FramesInv'
<1> DEFINE id == Newest + 1
<1>1. /\ history \in Seq(Ids) /\ Sorted(history) /\ Len(history) <= MaxStoredFrames
      /\ pending \subseteq ToSet(history) /\ MaxStoredFrames \in Nat
  BY FramesAssumption DEF FramesInv, FramesOrdered
<1>2. /\ lastVersion \in Nat /\ lastVersion <= Newest
      /\ building # NoFrame => building \in pending /\ building = lastVersion
      /\ \A p \in pending : p = building \/ p > lastVersion
  BY DEF FramesInv, VersionBehindPending
<1>3. /\ id \in Ids /\ id > lastVersion
      /\ \A y \in ToSet(history) : y \in Ids /\ y < id
  <2>1. Newest \in Nat /\ \A y \in ToSet(history) : y \in Ids /\ y <= Newest
    BY <1>1, NewestIsLargest
  <2> QED BY <1>2, <2>1 DEF Ids
<1>4. Ids \in SUBSET Int
  BY DEF Ids
<1>5. pending' = pending \cup {id} /\ UNCHANGED <<building, lastVersion>>
  BY DEF AcceptFrame
<1> HIDE DEF id
<1>6. PICK t : /\ history' = Append(t, id)
               /\ t \in Seq(Ids) /\ Sorted(t) /\ Len(t) < MaxStoredFrames
               /\ ToSet(t) \subseteq ToSet(history) /\ pending \subseteq ToSet(t)
               /\ lastVersion # NoFrame /\ lastVersion \notin ToSet(t) =>
                    /\ Len(t) + 1 = MaxStoredFrames
                    /\ \A y \in ToSet(t) : y > lastVersion
  <2>1. CASE Len(history) < MaxStoredFrames /\ history' = Append(history, id)
    <3>1. lastVersion # NoFrame => lastVersion \in ToSet(history)
      BY <1>1, <2>1 DEF FramesInv, SeedFrameKept
    <3> QED BY <1>1, <2>1, <3>1
  <2>2. CASE /\ Len(history) = MaxStoredFrames /\ Victims # {}
             /\ history' = Append(Without(history, Victims), id)
    <3> DEFINE v == Min(Evictable)
               t == Without(history, Victims)
    <3>1. /\ Victims = {v} /\ v \in ToSet(history) /\ v \notin pending
          /\ \A y \in ToSet(history) \ pending : v <= y
      <4>1. Evictable # {} /\ Victims = {v}
        BY <2>2 DEF Victims
      <4>2. Evictable \in SUBSET Nat
        BY <1>3 DEF Evictable, Ids
      <4>3. v \in Evictable /\ \A y \in Evictable : v <= y
        BY <4>1, <4>2, MinIsLeast
      <4> HIDE DEF v
      <4> QED BY <4>1, <4>3 DEF Evictable
    <3> HIDE DEF v
    <3>2. t \in Seq(Ids) /\ Sorted(t) /\ ToSet(t) = ToSet(history) \ {v}
      BY <1>1, <1>4, <3>1, WithoutElements
    <3>3. Len(t) = Len(history) - 1
      <4>1. PICK m \in DOMAIN history : history[m] = v
        BY <3>1 DEF ToSet
      <4>2. \A j \in DOMAIN history : j # m => history[j] # v
        <5> SUFFICES ASSUME NEW j \in DOMAIN history, j # m PROVE history[j] # history[m]
          BY <4>1
        <5>1. j \in Nat /\ m \in Nat /\ history[j] \in Ids /\ history[m] \in Ids
          BY <1>1
        <5>2. history[j] < history[m] \/ history[m] < history[j]
          BY <1>1, <5>1 DEF Sorted
        <5> QED BY <1>4, <5>1, <5>2 DEF Ids
      <4>3. history[m] \in Victims /\ \A j \in DOMAIN history : j # m => history[j] \notin Victims
        BY <3>1, <4>1, <4>2
      <4> QED BY <1>1, <4>3, WithoutOne
    <3> HIDE DEF t
    <3>4. Len(t) + 1 = MaxStoredFrames /\ Len(t) < MaxStoredFrames
      BY <1>1, <2>2, <3>2, <3>3
    <3>5. ASSUME lastVersion # NoFrame, lastVersion \notin ToSet(t), NEW y \in ToSet(t)
          PROVE  y > lastVersion
      <4>1. y \in ToSet(history) /\ y # v /\ y \in Nat /\ v \in Nat
        BY <1>3, <3>1, <3>2, <3>5 DEF Ids
      <4>2. CASE lastVersion \notin ToSet(history)
        BY <3>5, <4>1, <4>2 DEF FramesInv, SeedFrameKept
      <4>3. CASE lastVersion \in ToSet(history)
        <5>1. lastVersion = v
          BY <3>2, <3>5, <4>3
        <5>2. CASE y \in pending
          <6>1. y # building
            BY <1>2, <3>1, <5>1, <5>2, <1>3, <4>1 DEF NoFrame, Ids
          <6> QED BY <1>2, <5>2, <6>1
        <5>3. CASE y \notin pending
          <6>1. v <= y
            BY <3>1, <4>1, <5>3
          <6> QED BY <4>1, <5>1, <6>1
        <5> QED BY <5>2, <5>3
      <4> QED BY <4>2, <4>3
    <3> QED BY <2>2, <3>1, <3>2, <3>4, <3>5, <1>1 DEF t
  <2> QED BY <2>1, <2>2 DEF AcceptFrame, id
<1>7. /\ history' \in Seq(Ids) /\ Len(history') = Len(t) + 1 /\ Len(t) \in Nat
      /\ ToSet(history') = ToSet(t) \cup {id}
  BY <1>3, <1>6, AppendElement
<1>8. Sorted(history')
  <2>1. \A y \in ToSet(t) : y < id
    BY <1>3, <1>6
  <2> QED BY <1>3, <1>4, <1>6, <2>1, AppendNewer
<1>9. FramesOrdered'
  BY <1>1, <1>5, <1>6, <1>7, <1>8 DEF FramesOrdered
<1>10. Newest' = id
  BY <1>3, <1>6, AppendedIsNewest
<1>11. VersionBehindPending'
  BY <1>2, <1>3, <1>5, <1>10 DEF VersionBehindPending, Ids
<1>12. SeedFrameKept'
  <2> SUFFICES ASSUME lastVersion # NoFrame, lastVersion \notin ToSet(history')
               PROVE  /\ Len(history') = MaxStoredFrames
                      /\ \A y \in ToSet(history') : y > lastVersion
    BY <1>5 DEF SeedFrameKept
  <2> QED BY <1>3, <1>6, <1>7
<1> QED BY <1>9, <1>11, <1>12 DEF FramesInv

\* The builder takes its frames in order.
LEMMA BuilderKeepsFrames ==
  ASSUME FramesInv, AddVersion \/ MarkConsumed \/ MarkFailed
  PROVE  FramesInv'
<1>1. history' = history /\ Newest' = Newest
  BY DEF AddVersion, MarkConsumed, MarkFailed, Newest
<1>2. /\ history \in Seq(Ids) /\ Sorted(history) /\ pending \subseteq ToSet(history)
      /\ Newest \in Nat /\ \A y \in ToSet(history) : y \in Ids /\ y <= Newest
  BY NewestIsLargest DEF FramesInv, FramesOrdered
<1>3. pending \in SUBSET Nat
  BY <1>2 DEF Ids
<1>4. pending' \subseteq pending
  BY DEF AddVersion, MarkConsumed, MarkFailed
<1>5. FramesOrdered'
  BY <1>1, <1>2, <1>4 DEF FramesInv, FramesOrdered
<1>6. CASE AddVersion
  <2> DEFINE m == Min(pending)
  <2>1. m \in pending /\ \A y \in pending : m <= y
    BY <1>3, <1>6, MinIsLeast DEF AddVersion
  <2>2. building' = m /\ lastVersion' = m /\ pending' = pending
    BY <1>6 DEF AddVersion
  <2> HIDE DEF m
  <2>3. m \in ToSet(history) /\ m \in Ids /\ m <= Newest
    BY <1>2, <2>1
  <2>4. VersionBehindPending'
    BY <1>1, <1>3, <2>1, <2>2, <2>3 DEF VersionBehindPending, Ids
  <2>5. SeedFrameKept'
    BY <1>1, <2>2, <2>3 DEF SeedFrameKept
  <2> QED BY <1>5, <2>4, <2>5 DEF FramesInv
<1>7. CASE MarkConsumed \/ MarkFailed
  <2>1. /\ lastVersion' = lastVersion /\ building' = NoFrame
        /\ \A p \in pending' : p > lastVersion
    <3>1. CASE MarkConsumed
      BY <3>1 DEF MarkConsumed, FramesInv, VersionBehindPending
    <3>2. CASE MarkFailed
      BY <1>2, <3>2 DEF MarkFailed, FramesInv, VersionBehindPending, NoFrame, Ids
    <3> QED BY <1>7, <3>1, <3>2
  <2>2. VersionBehindPending'
    BY <1>1, <2>1 DEF FramesInv, VersionBehindPending
  <2>3. SeedFrameKept'
    BY <1>1, <2>1 DEF FramesInv, SeedFrameKept
  <2> QED BY <1>5, <2>2, <2>3 DEF FramesInv
<1> QED BY <1>6, <1>7

\* Neither the seeder nor a client touches the frames.
LEMMA FramesInvariant == FramesInv /\ [Next]_vars => FramesInv'
<1> SUFFICES ASSUME FramesInv, [Next]_vars PROVE FramesInv'
  OBVIOUS
<1>1. CASE StoreStep
  BY <1>1, AcceptKeepsFrames, BuilderKeepsFrames DEF StoreStep
<1>2. CASE UNCHANGED frameVars
  BY <1>2 DEF frameVars, FramesInv, FramesOrdered, VersionBehindPending, SeedFrameKept,
              Newest
<1>3. CASE SeederStep \/ BuildSession \/ TearDown
  BY <1>2, <1>3 DEF SeederStep, SeedLook, SeedReadsVersion, SeedReadsFrame, SeedUpdates,
                    SeedTimesOut, BuildSession, TearDown
<1>4. ASSUME NEW c \in Clients, ClientStep(c) PROVE FramesInv'
  BY <1>2, <1>4 DEF ClientStep, ResetBaseline, OnMessage, ApplyPoseUpdate
<1>5. ASSUME NEW p \in Producers, Notify(p) PROVE FramesInv'
  BY <1>2, <1>5 DEF Notify
<1> QED BY <1>1, <1>2, <1>3, <1>4, <1>5 DEF Next, vars

\* The frame of the newest version stays in the store until a whole history of newer
\* frames has come: the eviction takes the oldest frame it may, and those it may not
\* take are newer (ViewerPoseSeeder.cpp:47-57, FrameStore.cpp:173-191).
THEOREM SeedFrameStays == Spec => []SeedFrameKept
<1>1. Init => FramesInv
  BY FramesInit
<1>2. FramesInv /\ [Next]_vars => FramesInv'
  BY FramesInvariant
<1>3. FramesInv => SeedFrameKept
  BY DEF FramesInv
<1> QED BY <1>1, <1>2, <1>3, PTL DEF Spec
=============================================================================
