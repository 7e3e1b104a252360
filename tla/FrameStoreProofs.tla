--------------------------- MODULE FrameStoreProofs ---------------------------
(***************************************************************************)
(* Theorems about FrameStore, for histories and queues of any size, any    *)
(* number of frames and any set of defects.                                *)
(***************************************************************************)
EXTENDS FrameStore, SortedQueues, FiniteSetTheorems, TLAPS

-----------------------------------------------------------------------------
(* The inductive invariant                                                 *)

\* The newest frame in the queue's past or present.
Newest == IF producer.pc = "idle" THEN latestFrame.frameId ELSE producer.frame.frameId

\* A frame under submission is newer than those recorded, and the consumer, which
\* may be ahead of the record, cannot have let go of it.
SubmissionAhead ==
  producer.pc # "idle" =>
    /\ producer.frame.frameId \in ToSet(queue) \cup InHand
    /\ producer.frame.frameId > latestFrame.frameId

\* Frames are queued in their order, and taken in it.
QueueOrdered ==
  /\ Sorted(queue)
  /\ \A id \in ToSet(queue) \cup InHand \cup inFlightFrameIds : id <= Newest
  /\ \A id \in InHand \cup inFlightFrameIds : \A w \in ToSet(queue) : id < w

\* Where a dequeue stands, and what the two sets of ids say; the queue's mutex is
\* held between the ring buffer's change and the set's.
SetsMatchQueue ==
  /\ InHand \subseteq FrameIds
  /\ consumer.pc = "popped" => consumer.id \notin inFlightFrameIds
  /\ consumer.pc = "registered" => consumer.id \in inFlightFrameIds
  /\ QueueUnlocked => readyFrameIds = ToSet(queue) \cup (InHand \ inFlightFrameIds)
  /\ ~QueueUnlocked =>
       readyFrameIds \cup {producer.frame.frameId}
         = ToSet(queue) \cup (InHand \ inFlightFrameIds)

\* The lifecycle follows the hand-off, but for the frame under submission.
LifecycleFollows ==
  \A id \in FrameIds \ Submitting :
    /\ lifecycle[id].state = "ReadyForConsumer" <=> id \in ToSet(queue) \cup InHand
    /\ lifecycle[id].state = "DispatchedToConsumer" <=> id \in inFlightFrameIds \ InHand

IInv ==
  /\ TypeOK
  /\ SubmissionAhead
  /\ QueueOrdered
  /\ SetsMatchQueue
  /\ LifecycleFollows
  /\ PendingFramesRetained

-----------------------------------------------------------------------------
(* Marks and evictions                                                     *)

\* A mark changes one entry, to the state it names when the entry exists.
LEMMA MarkChangesOne ==
  ASSUME NEW lc \in [FrameIds -> Entries], NEW id \in FrameIds,
         NEW state \in States, NEW marks \in SUBSET Flags
  PROVE  /\ Marked(lc, id, state, marks) \in [FrameIds -> Entries]
         /\ \A p \in FrameIds \ {id} : Marked(lc, id, state, marks)[p] = lc[p]
         /\ Marked(lc, id, state, marks)[id].state \in {state, "Absent"}
         /\ lc[id].state # "Absent" => Marked(lc, id, state, marks)[id].state = state
<1>1. CASE lc[id] = Absent
  BY <1>1 DEF Marked, Absent
<1>2. CASE lc[id] # Absent
  <2> DEFINE entry == [state |-> state, flags |-> lc[id].flags \cup marks]
  <2>1. lc[id] \in Entries
    OBVIOUS
  <2>2. entry \in Entries /\ entry.state = state
    BY <2>1 DEF Entries
  <2>3. Marked(lc, id, state, marks) = [lc EXCEPT ![id] = entry]
    BY <1>2 DEF Marked
  <2> HIDE DEF entry
  <2> QED BY <2>2, <2>3
<1> QED BY <1>1, <1>2

\* An eviction leaves the pending frames alone and makes no frame pending.
LEMMA EvictionSparesPending ==
  ASSUME NEW hist, NEW byId, NEW latestId, NEW lc \in [FrameIds -> Entries],
         EvictOldFrames(hist, byId, latestId, lc)
  PROVE  /\ lifecycle' \in [FrameIds -> Entries]
         /\ \A id \in FrameIds :
              /\ IsProtectedFromEviction(lc, id) => lifecycle'[id] = lc[id]
              /\ IsProtectedFromEviction(lc, id) /\ id \in byId => id \in framesById'
              /\ ~IsProtectedFromEviction(lc, id) =>
                   lifecycle'[id].state \notin {"ReadyForConsumer", "DispatchedToConsumer"}
<1> DEFINE victims == Victims(hist, latestId, lc)
<1>1. \A id \in victims : ~IsProtectedFromEviction(lc, id)
  BY DEF Victims
<1>2. /\ framesById' = byId \ victims
      /\ lifecycle' = [id \in FrameIds |-> IF id \in victims
                         THEN Marked(lc, id, "Dropped", {"dropped"})[id]
                         ELSE lc[id]]
  BY DEF EvictOldFrames, RemoveFromIndex
<1> HIDE DEF victims
<1>3. ASSUME NEW id \in FrameIds
      PROVE  /\ Marked(lc, id, "Dropped", {"dropped"})[id] \in Entries
             /\ Marked(lc, id, "Dropped", {"dropped"})[id].state \in {"Absent", "Dropped"}
  BY MarkChangesOne DEF States, Flags
<1>4. lifecycle' \in [FrameIds -> Entries]
  BY <1>2, <1>3
<1>5. ASSUME NEW id \in FrameIds, IsProtectedFromEviction(lc, id)
      PROVE  /\ lifecycle'[id] = lc[id]
             /\ id \in byId => id \in framesById'
  BY <1>1, <1>2, <1>5
<1>6. ASSUME NEW id \in FrameIds, ~IsProtectedFromEviction(lc, id)
      PROVE  lifecycle'[id].state \notin {"ReadyForConsumer", "DispatchedToConsumer"}
  <2>1. CASE id \in victims
    BY <1>2, <1>3, <2>1
  <2>2. CASE id \notin victims
    BY <1>2, <1>6, <2>2 DEF IsProtectedFromEviction
  <2> QED BY <2>1, <2>2
<1> QED BY <1>4, <1>5, <1>6

-----------------------------------------------------------------------------
(* The invariant                                                           *)

\* At first the store is empty and nothing is submitted.
LEMMA InitInvariant == Init => IInv
<1> SUFFICES ASSUME Init PROVE IInv
  OBVIOUS
<1> USE DEF Init, NoFrame, InHand, Submitting, Newest, StoreUnlocked, QueueUnlocked
<1>1. TypeOK
  BY BoundsAssumption DEF TypeOK, Frames, FrameIds, Entries, States, Flags, Absent
<1>2. SubmissionAhead /\ SetsMatchQueue
  BY DEF SubmissionAhead, SetsMatchQueue, ToSet
<1>3. QueueOrdered
  BY DEF QueueOrdered, Sorted, ToSet
<1>4. LifecycleFollows /\ PendingFramesRetained
  BY DEF LifecycleFollows, PendingFramesRetained, ToSet, Absent
<1> QED BY <1>1, <1>2, <1>3, <1>4 DEF IInv

\* A rejection leaves the hand-off alone and makes no frame pending.
LEMMA RejectPreserves ==
  ASSUME IInv, NEW frame \in Frames, NEW code, Reject(frame, code)
  PROVE  IInv'
<1> USE DEF IInv, historyVars, queueVars
<1>1. UNCHANGED <<history, framesById, latestFrame, queue, readyFrameIds,
                  inFlightFrameIds, producer, consumer>>
  BY DEF Reject
<1>2. lifecycle' \in [FrameIds -> Entries]
  BY DEF Reject, RecordInvalid, TypeOK, Entries, States, Flags
<1>3. ASSUME NEW id \in FrameIds
      PROVE  /\ lifecycle'[id].state = "ReadyForConsumer"
                  <=> lifecycle[id].state = "ReadyForConsumer"
             /\ lifecycle'[id].state = "DispatchedToConsumer"
                  <=> lifecycle[id].state = "DispatchedToConsumer"
  <2>1. CASE lifecycle'[id] = lifecycle[id]
    BY <2>1
  <2>2. CASE lifecycle[id] = Absent /\ lifecycle'[id] = [state |-> "Invalid", flags |-> {"invalid"}]
    BY <2>2 DEF Absent
  <2> QED BY <2>1, <2>2 DEF Reject, RecordInvalid, TypeOK
<1>4. TypeOK' /\ SubmissionAhead' /\ QueueOrdered' /\ SetsMatchQueue' /\ PendingFramesRetained'
  BY <1>1, <1>2 DEF TypeOK, SubmissionAhead, QueueOrdered, SetsMatchQueue,
                    PendingFramesRetained, InHand, Submitting, Newest, QueueUnlocked
<1>5. LifecycleFollows'
  BY <1>1, <1>3 DEF LifecycleFollows, InHand, Submitting
<1> QED BY <1>4, <1>5

\* What the validator's verdict says of an accepted frame.
LEMMA AcceptedIsNewer ==
  ASSUME TypeOK, NEW frame \in Frames, SubmissionCode(frame) = "Accepted"
  PROVE  frame.frameId \in FrameIds /\ frame.frameId > latestFrame.frameId
<1>1. /\ frame.frameId \in 0..MaxFrameId /\ latestFrame.frameId \in 0..MaxFrameId
      /\ frame.frameId # 0
  BY DEF TypeOK, Frames, SubmissionCode
<1>2. ~NotNewer(frame.frameId, latestFrame.frameId)
  BY DEF SubmissionCode
<1> QED BY <1>1, <1>2, BoundsAssumption DEF NotNewer, FrameIds

\* An accepted id enters the queue; the frame is not recorded yet.
LEMMA EnqueuePreserves ==
  ASSUME IInv, NEW frame \in Frames, SubmitEnqueue(frame)
  PROVE  IInv'
<1> USE DEF IInv, historyVars, countVars
<1> DEFINE id == frame.frameId
           held == InHand \cup inFlightFrameIds
<1>1. /\ id \in FrameIds /\ id > latestFrame.frameId
      /\ producer.pc = "idle" /\ producer' = [pc |-> "enqueued", frame |-> frame]
      /\ queue' = Append(queue, id)
      /\ UNCHANGED <<history, framesById, latestFrame, readyFrameIds, inFlightFrameIds,
                     lifecycle, consumer>>
  BY AcceptedIsNewer DEF SubmitEnqueue, StoreUnlocked
<1>2. /\ Submitting = {} /\ Submitting' = {id} /\ Newest = latestFrame.frameId
      /\ Newest' = id /\ InHand' = InHand
      /\ QueueUnlocked /\ ~QueueUnlocked'
  BY <1>1 DEF Submitting, Newest, InHand, QueueUnlocked
<1>3. \A p \in ToSet(queue) \cup held : p < id
  <2>1. ToSet(queue) \cup held \subseteq FrameIds
    BY DEF TypeOK, SetsMatchQueue, ToSet
  <2>2. latestFrame.frameId \in 0..MaxFrameId
    BY DEF TypeOK, Frames
  <2> QED BY <1>1, <1>2, <2>1, <2>2, BoundsAssumption DEF QueueOrdered, FrameIds
<1>4. /\ queue' \in Seq(FrameIds) /\ ToSet(queue') = ToSet(queue) \cup {id} /\ Sorted(queue')
  <2>1. FrameIds \in SUBSET Int
    BY BoundsAssumption DEF FrameIds
  <2>2. queue \in Seq(FrameIds) /\ Sorted(queue) /\ \A p \in ToSet(queue) : p < id
    BY <1>3 DEF TypeOK, QueueOrdered
  <2>3. Append(queue, id) \in Seq(FrameIds) /\ ToSet(Append(queue, id)) = ToSet(queue) \cup {id}
    BY <1>1, <2>2, AppendElement
  <2>4. Sorted(Append(queue, id))
    BY <1>1, <2>1, <2>2, AppendNewer
  <2> QED BY <1>1, <2>3, <2>4
<1> HIDE DEF id
<1>5. TypeOK'
  BY <1>1, <1>4 DEF TypeOK
<1>6. SubmissionAhead'
  BY <1>1, <1>4 DEF SubmissionAhead, id
<1>7. QueueOrdered'
  <2>1. \A p \in ToSet(queue') \cup InHand' \cup inFlightFrameIds' : p <= Newest'
    <3>1. ToSet(queue) \cup held \subseteq FrameIds
      BY DEF TypeOK, SetsMatchQueue, ToSet
    <3>2. \A p \in ToSet(queue) \cup held : p <= id
      BY <1>1, <1>3, <3>1, BoundsAssumption DEF FrameIds
    <3> QED BY <1>1, <1>2, <1>4, <3>2, BoundsAssumption DEF FrameIds
  <2>2. \A p \in InHand' \cup inFlightFrameIds' : \A w \in ToSet(queue') : p < w
    BY <1>1, <1>2, <1>3, <1>4 DEF QueueOrdered
  <2> QED BY <1>4, <2>1, <2>2 DEF QueueOrdered
<1>8. SetsMatchQueue'
  BY <1>1, <1>2, <1>3, <1>4, BoundsAssumption DEF SetsMatchQueue, FrameIds, id
<1>9. LifecycleFollows'
  BY <1>1, <1>2, <1>4 DEF LifecycleFollows
<1>10. PendingFramesRetained'
  BY <1>1, <1>2, <1>4 DEF PendingFramesRetained
<1> QED BY <1>5, <1>6, <1>7, <1>8, <1>9, <1>10

\* The queue's mutex is released.
LEMMA MarkReadyPreserves ==
  ASSUME IInv, SubmitMarkReady
  PROVE  IInv'
<1> USE DEF IInv, historyVars, countVars, SubmitMarkReady
<1>1. /\ producer.frame \in Frames /\ producer.pc = "enqueued"
      /\ producer' = [pc |-> "queued", frame |-> producer.frame]
      /\ UNCHANGED <<history, framesById, latestFrame, queue, inFlightFrameIds,
                     lifecycle, consumer>>
  BY DEF TypeOK
<1>2. /\ Submitting' = Submitting /\ Newest' = Newest /\ InHand' = InHand
      /\ ~QueueUnlocked /\ QueueUnlocked'
  BY <1>1 DEF Submitting, Newest, InHand, QueueUnlocked
<1>3. readyFrameIds' = ToSet(queue') \cup (InHand' \ inFlightFrameIds')
  BY <1>1, <1>2 DEF SetsMatchQueue
<1>4. InHand \subseteq FrameIds /\ ToSet(queue) \subseteq FrameIds
  BY DEF SetsMatchQueue, TypeOK, ToSet
<1>5. TypeOK'
  BY <1>1, <1>2, <1>3, <1>4 DEF TypeOK
<1>6. SubmissionAhead' /\ QueueOrdered' /\ SetsMatchQueue'
  BY <1>1, <1>2, <1>3 DEF SubmissionAhead, QueueOrdered, SetsMatchQueue
<1>7. LifecycleFollows' /\ PendingFramesRetained'
  BY <1>1, <1>2 DEF LifecycleFollows, PendingFramesRetained
<1> QED BY <1>5, <1>6, <1>7

\* The frame under submission is recorded, and its eviction passes over every frame
\* that is still to be processed: those are protected by their states.
LEMMA RecordPreserves ==
  ASSUME IInv, SubmitRecord
  PROVE  IInv'
<1> USE DEF IInv, queueVars
<1> DEFINE id == producer.frame.frameId
           pending == ToSet(queue) \cup InHand \cup inFlightFrameIds
           lc == AcceptedReady(lifecycle, id)
<1>1. /\ producer.pc = "queued" /\ producer' = [pc |-> "idle", frame |-> NoFrame]
      /\ latestFrame' = producer.frame /\ producer.frame \in Frames
      /\ UNCHANGED <<queue, readyFrameIds, inFlightFrameIds, consumer>>
      /\ EvictOldFrames(Append(history, id), framesById \cup {id}, id, lc)
  BY DEF SubmitRecord, TypeOK
<1>2. /\ Submitting = {id} /\ Submitting' = {} /\ Newest' = Newest /\ InHand' = InHand
      /\ QueueUnlocked /\ QueueUnlocked'
  BY <1>1 DEF Submitting, Newest, InHand, QueueUnlocked
<1>3. id \in ToSet(queue) \cup InHand /\ id \notin inFlightFrameIds \ InHand
      /\ pending \subseteq FrameIds /\ id \in FrameIds
  <2>1. id \in ToSet(queue) \cup InHand /\ pending \subseteq FrameIds
    BY <1>1 DEF SubmissionAhead, TypeOK, SetsMatchQueue, ToSet
  <2>2. ToSet(queue) \cap inFlightFrameIds = {}
    BY <2>1, BoundsAssumption DEF QueueOrdered, FrameIds
  <2> QED BY <2>1, <2>2
<1>4. /\ lc \in [FrameIds -> Entries]
      /\ lc[id].state = "ReadyForConsumer"
      /\ \A p \in FrameIds \ {id} : lc[p] = lifecycle[p]
  BY <1>3 DEF AcceptedReady, TypeOK, Entries, States, Flags
<1> HIDE DEF id, lc, pending
<1>5. /\ lifecycle' \in [FrameIds -> Entries]
      /\ \A p \in FrameIds :
           /\ IsProtectedFromEviction(lc, p) => lifecycle'[p] = lc[p]
           /\ IsProtectedFromEviction(lc, p) /\ p \in framesById \cup {id}
                => p \in framesById'
           /\ ~IsProtectedFromEviction(lc, p) =>
                lifecycle'[p].state \notin {"ReadyForConsumer", "DispatchedToConsumer"}
  BY <1>1, <1>4, EvictionSparesPending
<1>6. \A p \in FrameIds :
        /\ lc[p].state = "ReadyForConsumer" <=> p \in ToSet(queue) \cup InHand
        /\ lc[p].state = "DispatchedToConsumer" <=> p \in inFlightFrameIds \ InHand
  BY <1>2, <1>3, <1>4 DEF LifecycleFollows
<1>7. LifecycleFollows'
  <2> SUFFICES ASSUME NEW p \in FrameIds
      PROVE  /\ lifecycle'[p].state = "ReadyForConsumer" <=> p \in ToSet(queue) \cup InHand
             /\ lifecycle'[p].state = "DispatchedToConsumer" <=> p \in inFlightFrameIds \ InHand
    BY <1>1, <1>2 DEF LifecycleFollows
  <2>1. CASE IsProtectedFromEviction(lc, p)
    BY <1>5, <1>6, <2>1
  <2>2. CASE ~IsProtectedFromEviction(lc, p)
    BY <1>5, <1>6, <2>2 DEF IsProtectedFromEviction
  <2> QED BY <2>1, <2>2
<1>8. PendingFramesRetained'
  <2>1. ASSUME NEW p \in pending PROVE p \in framesById'
    <3>1. IsProtectedFromEviction(lc, p) /\ p \in FrameIds
      BY <1>3, <1>6 DEF IsProtectedFromEviction, pending
    <3>2. p \in framesById \cup {id}
      BY <1>2 DEF PendingFramesRetained, pending
    <3> QED BY <1>5, <3>1, <3>2
  <2> QED BY <1>1, <1>2, <2>1 DEF PendingFramesRetained, pending
<1>9. TypeOK'
  BY <1>1, <1>5, BoundsAssumption DEF TypeOK, Frames, NoFrame
<1>10. SubmissionAhead' /\ QueueOrdered' /\ SetsMatchQueue'
  BY <1>1, <1>2 DEF SubmissionAhead, QueueOrdered, SetsMatchQueue
<1> QED BY <1>7, <1>8, <1>9, <1>10

\* The oldest waiting frame moves into the consumer's hand, under no mutex.
LEMMA PopPreserves ==
  ASSUME IInv, DequeuePop
  PROVE  IInv'
<1> USE DEF IInv, historyVars, countVars
<1> DEFINE id == Head(queue)
<1>1. /\ consumer.pc = "idle" /\ consumer' = [pc |-> "popped", id |-> id]
      /\ queue # <<>> /\ queue' = Tail(queue)
      /\ UNCHANGED <<history, framesById, latestFrame, readyFrameIds, inFlightFrameIds,
                     lifecycle, producer>>
  BY DEF DequeuePop
<1>2. /\ id \in FrameIds /\ queue' \in Seq(FrameIds)
      /\ ToSet(queue) = {id} \cup ToSet(queue')
      /\ (\A w \in ToSet(queue') : id < w) /\ Sorted(queue')
  <2>1. FrameIds \in SUBSET Int
    BY BoundsAssumption DEF FrameIds
  <2> QED BY <1>1, <2>1, TakeHead DEF TypeOK, QueueOrdered
<1> HIDE DEF id
<1>3. /\ InHand = {} /\ InHand' = {id} /\ Submitting' = Submitting /\ Newest' = Newest
      /\ QueueUnlocked' = QueueUnlocked
  BY <1>1 DEF Submitting, Newest, InHand, QueueUnlocked
<1>4. id \notin inFlightFrameIds /\ id \notin ToSet(queue')
  BY <1>2, BoundsAssumption DEF QueueOrdered, FrameIds
<1>5. TypeOK'
  BY <1>1, <1>2, BoundsAssumption DEF TypeOK, FrameIds
<1>6. SubmissionAhead' /\ LifecycleFollows' /\ PendingFramesRetained'
  BY <1>1, <1>2, <1>3, <1>4 DEF SubmissionAhead, LifecycleFollows, PendingFramesRetained
<1>7. QueueOrdered'
  BY <1>1, <1>2, <1>3 DEF QueueOrdered
<1>8. SetsMatchQueue'
  BY <1>1, <1>2, <1>3, <1>4 DEF SetsMatchQueue
<1> QED BY <1>5, <1>6, <1>7, <1>8

\* The frame in hand is registered as in flight.
LEMMA RegisterPreserves ==
  ASSUME IInv, DequeueRegister
  PROVE  IInv'
<1> USE DEF IInv, historyVars, countVars
<1> DEFINE id == consumer.id
<1>1. /\ consumer.pc = "popped" /\ consumer' = [pc |-> "registered", id |-> id]
      /\ QueueUnlocked /\ readyFrameIds' = readyFrameIds \ {id}
      /\ inFlightFrameIds' = inFlightFrameIds \cup {id}
      /\ UNCHANGED <<history, framesById, latestFrame, queue, lifecycle, producer>>
  BY DEF DequeueRegister, TypeOK
<1>2. /\ InHand = {id} /\ InHand' = {id} /\ Submitting' = Submitting /\ Newest' = Newest
      /\ QueueUnlocked'
  BY <1>1 DEF Submitting, Newest, InHand, QueueUnlocked
<1>3. id \in FrameIds /\ id \notin inFlightFrameIds
  BY <1>1, <1>2 DEF SetsMatchQueue
<1>4. id \notin ToSet(queue)
  BY <1>2, <1>3, BoundsAssumption DEF QueueOrdered, FrameIds
<1> HIDE DEF id
<1>5. TypeOK'
  BY <1>1, <1>3, BoundsAssumption DEF TypeOK, FrameIds
<1>6. SubmissionAhead' /\ QueueOrdered' /\ PendingFramesRetained'
  BY <1>1, <1>2 DEF SubmissionAhead, QueueOrdered, PendingFramesRetained
<1>7. SetsMatchQueue'
  BY <1>1, <1>2, <1>3, <1>4 DEF SetsMatchQueue
<1>8. LifecycleFollows'
  BY <1>1, <1>2 DEF LifecycleFollows
<1> QED BY <1>5, <1>6, <1>7, <1>8

\* The dispatch is recorded: the store's mutex is free, so the frame in hand has
\* been recorded as ready, whatever the submission was doing at the pop.
LEMMA DispatchPreserves ==
  ASSUME IInv, DequeueDispatch
  PROVE  IInv'
<1> USE DEF IInv, historyVars, queueVars, countVars
<1> DEFINE id == consumer.id
           lc == Marked(lifecycle, id, "DispatchedToConsumer", {"dispatched"})
<1>1. /\ consumer.pc = "registered" /\ consumer' = [pc |-> "idle", id |-> 0]
      /\ producer.pc = "idle" /\ lifecycle' = lc
      /\ UNCHANGED <<history, framesById, latestFrame, queue, readyFrameIds,
                     inFlightFrameIds, producer>>
  BY DEF DequeueDispatch, StoreUnlocked
<1>2. /\ InHand = {id} /\ InHand' = {} /\ Submitting = {} /\ Submitting' = {}
      /\ Newest' = Newest /\ QueueUnlocked /\ QueueUnlocked'
  BY <1>1 DEF Submitting, Newest, InHand, QueueUnlocked
<1>3. id \in FrameIds /\ id \in inFlightFrameIds /\ lifecycle[id].state = "ReadyForConsumer"
  BY <1>1, <1>2 DEF SetsMatchQueue, LifecycleFollows
<1>4. id \notin ToSet(queue)
  BY <1>2, <1>3, BoundsAssumption DEF QueueOrdered, FrameIds
<1>5. /\ lc \in [FrameIds -> Entries]
      /\ \A p \in FrameIds \ {id} : lc[p] = lifecycle[p]
      /\ lc[id].state = "DispatchedToConsumer"
  BY <1>3, MarkChangesOne DEF TypeOK, States, Flags
<1> HIDE DEF id, lc
<1>6. TypeOK'
  BY <1>1, <1>5, BoundsAssumption DEF TypeOK
<1>7. SubmissionAhead' /\ QueueOrdered' /\ PendingFramesRetained'
  BY <1>1, <1>2, <1>3 DEF SubmissionAhead, QueueOrdered, PendingFramesRetained
<1>8. SetsMatchQueue'
  BY <1>1, <1>2, <1>3, <1>4 DEF SetsMatchQueue
<1>9. LifecycleFollows'
  <2> SUFFICES ASSUME NEW p \in FrameIds
      PROVE  /\ lc[p].state = "ReadyForConsumer" <=> p \in ToSet(queue)
             /\ lc[p].state = "DispatchedToConsumer" <=> p \in inFlightFrameIds
    BY <1>1, <1>2 DEF LifecycleFollows
  <2>1. CASE p = id
    BY <1>3, <1>4, <1>5, <2>1
  <2>2. CASE p # id
    BY <1>2, <1>5, <2>2 DEF LifecycleFollows
  <2> QED BY <2>1, <2>2
<1> QED BY <1>6, <1>7, <1>8, <1>9

\* A completion lets go of one frame; the eviction that follows passes over the rest.
LEMMA CompletePreserves ==
  ASSUME IInv, NEW id \in FrameIds, NEW state \in {"Consumed", "Failed"},
         NEW flag \in Flags, MarkFrame(id, state, flag)
  PROVE  IInv'
<1> USE DEF IInv
<1> DEFINE lc == Marked(lifecycle, id, state, {"dispatched", flag})
           pending == ToSet(queue) \cup inFlightFrameIds'
<1>1. /\ consumer.pc = "idle" /\ producer.pc = "idle" /\ id \in inFlightFrameIds
      /\ inFlightFrameIds' = inFlightFrameIds \ {id}
      /\ EvictOldFrames(history, framesById, latestFrame.frameId, lc)
      /\ UNCHANGED <<latestFrame, queue, readyFrameIds, producer, consumer>>
  BY DEF MarkFrame, MarkCompleted, StoreUnlocked
<1>2. /\ InHand = {} /\ InHand' = {} /\ Submitting = {} /\ Submitting' = {}
      /\ Newest' = Newest /\ QueueUnlocked /\ QueueUnlocked'
  BY <1>1 DEF Submitting, Newest, InHand, QueueUnlocked
<1>3. id \notin ToSet(queue) /\ pending \subseteq FrameIds \ {id}
  <2>1. id \notin ToSet(queue)
    BY <1>1, BoundsAssumption DEF QueueOrdered, FrameIds
  <2> QED BY <1>1, <2>1 DEF TypeOK, ToSet
<1>4. /\ lc \in [FrameIds -> Entries]
      /\ \A p \in FrameIds \ {id} : lc[p] = lifecycle[p]
      /\ lc[id].state \notin {"ReadyForConsumer", "DispatchedToConsumer"}
  <2>1. state \in States /\ {"dispatched", flag} \in SUBSET Flags
    BY DEF States, Flags
  <2> QED BY <2>1, MarkChangesOne DEF TypeOK
<1> HIDE DEF lc, pending
<1>5. /\ lifecycle' \in [FrameIds -> Entries]
      /\ \A p \in FrameIds :
           /\ IsProtectedFromEviction(lc, p) => lifecycle'[p] = lc[p]
           /\ IsProtectedFromEviction(lc, p) /\ p \in framesById => p \in framesById'
           /\ ~IsProtectedFromEviction(lc, p) =>
                lifecycle'[p].state \notin {"ReadyForConsumer", "DispatchedToConsumer"}
  BY <1>1, <1>4, EvictionSparesPending
<1>6. \A p \in FrameIds :
        /\ lc[p].state = "ReadyForConsumer" <=> p \in ToSet(queue)
        /\ lc[p].state = "DispatchedToConsumer" <=> p \in inFlightFrameIds'
  BY <1>1, <1>2, <1>3, <1>4 DEF LifecycleFollows
<1>7. LifecycleFollows'
  <2> SUFFICES ASSUME NEW p \in FrameIds
      PROVE  /\ lifecycle'[p].state = "ReadyForConsumer" <=> p \in ToSet(queue)
             /\ lifecycle'[p].state = "DispatchedToConsumer" <=> p \in inFlightFrameIds'
    BY <1>1, <1>2 DEF LifecycleFollows
  <2>1. CASE IsProtectedFromEviction(lc, p)
    BY <1>5, <1>6, <2>1
  <2>2. CASE ~IsProtectedFromEviction(lc, p)
    BY <1>5, <1>6, <2>2 DEF IsProtectedFromEviction
  <2> QED BY <2>1, <2>2
<1>8. PendingFramesRetained'
  <2>1. ASSUME NEW p \in pending PROVE p \in framesById'
    <3>1. IsProtectedFromEviction(lc, p) /\ p \in FrameIds
      BY <1>3, <1>6 DEF IsProtectedFromEviction, pending
    <3>2. p \in framesById
      BY <1>1, <1>2 DEF PendingFramesRetained, pending
    <3> QED BY <1>5, <3>1, <3>2
  <2> QED BY <1>1, <1>2, <2>1 DEF PendingFramesRetained, pending
<1>9. TypeOK'
  BY <1>1, <1>5 DEF TypeOK
<1>10. SubmissionAhead' /\ QueueOrdered'
  BY <1>1, <1>2 DEF SubmissionAhead, QueueOrdered
<1>11. SetsMatchQueue'
  BY <1>1, <1>2, <1>3 DEF SetsMatchQueue
<1> QED BY <1>7, <1>8, <1>9, <1>10, <1>11

\* Every step preserves the invariant.
LEMMA NextInvariant == IInv /\ [Next]_vars => IInv'
<1> SUFFICES ASSUME IInv, [Next]_vars PROVE IInv'
  OBVIOUS
<1>1. ASSUME NEW frame \in Frames, Submit(frame) PROVE IInv'
  <2>1. CASE SubmitInvalid(frame)
    BY <2>1, RejectPreserves DEF SubmitInvalid
  <2>2. CASE SubmitQueueFull(frame)
    BY <2>2, RejectPreserves DEF SubmitQueueFull
  <2>3. CASE SubmitEnqueue(frame)
    BY <2>3, EnqueuePreserves
  <2> QED BY <1>1, <2>1, <2>2, <2>3 DEF Submit
<1>2. CASE SubmitMarkReady
  BY <1>2, MarkReadyPreserves
<1>3. CASE SubmitRecord
  BY <1>3, RecordPreserves
<1>4. CASE DequeuePop
  BY <1>4, PopPreserves
<1>5. CASE DequeueRegister
  BY <1>5, RegisterPreserves
<1>6. CASE DequeueDispatch
  BY <1>6, DispatchPreserves
<1>7. ASSUME NEW id \in FrameIds, Complete(id) PROVE IInv'
  BY <1>7, CompletePreserves DEF Complete, MarkFrameConsumed, MarkFrameFailed, Flags
<1>8. CASE UNCHANGED vars
  BY <1>8 DEF vars, historyVars, queueVars, countVars, IInv, TypeOK, SubmissionAhead,
              QueueOrdered, SetsMatchQueue, LifecycleFollows, PendingFramesRetained,
              InHand, Submitting, Newest, QueueUnlocked
<1> QED BY <1>1, <1>2, <1>3, <1>4, <1>5, <1>6, <1>7, <1>8 DEF Next

\* The queue is in order, its id sets match it, and the lifecycle follows the hand-off
\* of every frame but the one under submission.
THEOREM Invariance == Spec => []IInv
<1>1. Init => IInv
  BY InitInvariant
<1>2. IInv /\ [Next]_vars => IInv'
  BY NextInvariant
<1> QED BY <1>1, <1>2, PTL DEF Spec

\* Whatever the order of a pop and of the submission it overtakes, no eviction removes
\* a frame the consumer has still to process (FrameStore.cpp:58-72, 114-121, 175-184).
THEOREM PendingRetained == Spec => []PendingFramesRetained
<1>1. IInv => PendingFramesRetained
  BY DEF IInv
<1> QED BY <1>1, Invariance, PTL

\* A frame is in one place of the hand-off, and the holder of the store's mutex sees
\* the lifecycle state that matches it (FrameStore.cpp:68, 120, 131, 143).
THEOREM LifecycleMatches == Spec => []LifecycleMatchesHandOff
<1>1. IInv => LifecycleMatchesHandOff
  <2> SUFFICES ASSUME IInv PROVE LifecycleMatchesHandOff
    OBVIOUS
  <2> USE DEF IInv
  <2>1. ToSet(queue) \cap (InHand \cup inFlightFrameIds) = {}
    <3>1. ToSet(queue) \subseteq FrameIds
      BY DEF TypeOK, ToSet
    <3> QED BY <3>1, BoundsAssumption DEF QueueOrdered, FrameIds
  <2>2. QueueUnlocked => readyFrameIds = ToSet(queue) \cup (InHand \ inFlightFrameIds)
    BY DEF SetsMatchQueue
  <2>3. StoreUnlocked => \A id \in FrameIds :
          /\ lifecycle[id].state = "ReadyForConsumer" <=> id \in ToSet(queue) \cup InHand
          /\ lifecycle[id].state = "DispatchedToConsumer" <=> id \in inFlightFrameIds \ InHand
    BY DEF LifecycleFollows, StoreUnlocked, Submitting
  <2> QED BY <2>1, <2>2, <2>3 DEF LifecycleMatchesHandOff
<1> QED BY <1>1, Invariance, PTL

-----------------------------------------------------------------------------
(* The hand-off a client may rely on                                       *)

\* At first nothing is handed over.
LEMMA InitRefines == Init => HandOff!Init
BY DEF Init, HandOff!Init, NoFrame, InHand

\* The three steps of submitFrame map to one Accept, its first; the pop is the Take,
\* and the steps that register and record it change nothing a client sees.
LEMMA StepRefines == IInv /\ [Next]_vars => [HandOff!Next]_(HandOff!vars)
<1> SUFFICES ASSUME IInv, [Next]_vars PROVE [HandOff!Next]_(HandOff!vars)
  OBVIOUS
<1> DEFINE taken == InHand \cup inFlightFrameIds
<1> USE DEF HandOff!vars, vars, historyVars, queueVars, countVars
<1>1. ASSUME NEW frame \in Frames, NEW code, Reject(frame, code)
      PROVE  UNCHANGED HandOff!vars
  BY <1>1 DEF Reject, InHand
<1>2. ASSUME NEW frame \in Frames, SubmitEnqueue(frame)
      PROVE  \E id \in 1..MaxFrameId : HandOff!Accept(id)
  <2>1. frame.frameId \in 1..MaxFrameId /\ frame.frameId > latestFrame.frameId
    BY <1>2, AcceptedIsNewer DEF SubmitEnqueue, IInv, FrameIds
  <2>2. Len(queue) < MaxReadyFrames
    BY <1>2, LimitsAssumption DEF SubmitEnqueue, QueueFull, IInv, TypeOK
  <2>3. HandOff!Accept(frame.frameId)
    BY <1>2, <2>1, <2>2 DEF HandOff!Accept, SubmitEnqueue, StoreUnlocked, InHand
  <2> QED BY <2>1, <2>3
<1>3. CASE SubmitMarkReady
  BY <1>3 DEF SubmitMarkReady, InHand, IInv, TypeOK
<1>4. CASE SubmitRecord
  BY <1>4 DEF SubmitRecord, InHand, IInv, TypeOK
<1>5. CASE DequeuePop
  <2>1. /\ queue # <<>> /\ queue' = Tail(queue) /\ InHand = {} /\ InHand' = {Head(queue)}
        /\ UNCHANGED <<inFlightFrameIds, producer, latestFrame>>
    BY <1>5 DEF DequeuePop, InHand
  <2>2. Head(queue) \in ToSet(queue)
    <3>1. FrameIds \in SUBSET Int
      BY BoundsAssumption DEF FrameIds
    <3> QED BY <2>1, <3>1, TakeHead DEF IInv, TypeOK, QueueOrdered
  <2>3. HandOff!Take
    BY <2>1, <2>2 DEF HandOff!Take, IInv, QueueOrdered
  <2> QED BY <2>3 DEF HandOff!Next
<1>6. CASE DequeueRegister
  BY <1>6 DEF DequeueRegister, InHand, IInv, TypeOK
<1>7. CASE DequeueDispatch
  BY <1>7 DEF DequeueDispatch, InHand, IInv, SetsMatchQueue
<1>8. ASSUME NEW id \in FrameIds, NEW state, NEW flag, MarkFrame(id, state, flag)
      PROVE  HandOff!Complete(id)
  BY <1>8 DEF MarkFrame, MarkCompleted, HandOff!Complete, InHand
<1>9. CASE UNCHANGED vars
  BY <1>9 DEF InHand
<1>10. ASSUME NEW frame \in Frames, Submit(frame) PROVE [HandOff!Next]_(HandOff!vars)
  BY <1>1, <1>2, <1>10 DEF Submit, SubmitInvalid, SubmitQueueFull, HandOff!Next
<1>11. ASSUME NEW id \in FrameIds, Complete(id) PROVE HandOff!Next
  BY <1>8, <1>11 DEF Complete, MarkFrameConsumed, MarkFrameFailed, HandOff!Next, FrameIds
<1> QED BY <1>3, <1>4, <1>5, <1>6, <1>7, <1>9, <1>10, <1>11 DEF Next

\* Frames are handed to the builder oldest first, each once, and completed at most once,
\* as FrameHandOff promises (FrameStore.cpp:45-147, ReadyFrameQueue.cpp:14-87).
THEOREM Refinement == Spec => ImplementsHandOff
<1>1. Init => HandOff!Init
  BY InitRefines
<1>2. IInv /\ [Next]_vars => [HandOff!Next]_(HandOff!vars)
  BY StepRefines
<1>3. Spec => HandOff!Init /\ [][HandOff!Next]_(HandOff!vars)
  BY <1>1, <1>2, Invariance, PTL DEF Spec
<1> QED BY <1>3 DEF ImplementsHandOff, HandOff!Spec

\* Type correctness of the store, its queue and the two threads.
THEOREM TypeCorrect == Spec => []TypeOK
<1>1. IInv => TypeOK
  BY DEF IInv
<1> QED BY <1>1, Invariance, PTL

-----------------------------------------------------------------------------
(* What the eviction removes                                               *)

\* The positions that may go, and how many of them there are up to one.
Evictable(hist, latestId, lc, i) ==
  hist[i] # latestId /\ ~IsProtectedFromEviction(lc, hist[i])
EvictableUpTo(hist, latestId, lc, i) ==
  {j \in 1..i : Evictable(hist, latestId, lc, j)}

\* The model's definition in the terms above.
LEMMA VictimsByRank ==
  ASSUME NEW hist, NEW latestId, NEW lc
  PROVE  Victims(hist, latestId, lc) =
           {hist[i] : i \in {j \in DOMAIN hist :
              /\ Evictable(hist, latestId, lc, j)
              /\ Cardinality(EvictableUpTo(hist, latestId, lc, j))
                   <= Len(hist) - MaxStoredFrames}}
BY Zenon DEF Victims, Evictable, EvictableUpTo

\* A position that may go counts itself.
LEMMA RankPositive ==
  ASSUME NEW hist \in Seq(FrameIds), NEW latestId, NEW lc, NEW i \in DOMAIN hist,
         Evictable(hist, latestId, lc, i)
  PROVE  /\ Cardinality(EvictableUpTo(hist, latestId, lc, i)) \in Nat \ {0}
         /\ Cardinality(EvictableUpTo(hist, latestId, lc, i)) <= 1 <=>
              EvictableUpTo(hist, latestId, lc, i) = {i}
<1> DEFINE E == EvictableUpTo(hist, latestId, lc, i)
<1>1. i \in Nat /\ i \in 1..i
  OBVIOUS
<1>2. i \in E /\ E \in SUBSET (1..i)
  BY <1>1 DEF EvictableUpTo
<1>3. IsFiniteSet(E)
  <2>1. IsFiniteSet(1..i)
    BY <1>1, FS_Interval
  <2> HIDE DEF E
  <2> QED BY <1>2, <2>1, FS_Subset
<1> HIDE DEF E
<1>4. Cardinality(E) \in Nat \ {0}
  BY <1>2, <1>3, FS_CardinalityType, FS_EmptySet
<1>5. Cardinality(E) = 1 <=> E = {i}
  <2>1. Cardinality(E) = 1 <=> \E x : E = {x}
    BY <1>3, FS_Singleton, Zenon
  <2> QED BY <1>2, <2>1
<1>6. Cardinality(E) <= 1 <=> Cardinality(E) = 1
  BY <1>4
<1> QED BY <1>4, <1>5, <1>6 DEF E

\* Within its limit, the history loses nothing.
LEMMA NoVictims ==
  ASSUME NEW hist \in Seq(FrameIds), NEW latestId, NEW lc, Len(hist) <= MaxStoredFrames
  PROVE  Victims(hist, latestId, lc) = {}
<1>1. ASSUME NEW i \in DOMAIN hist, Evictable(hist, latestId, lc, i)
      PROVE  ~(Cardinality(EvictableUpTo(hist, latestId, lc, i)) <= Len(hist) - MaxStoredFrames)
  <2>1. Cardinality(EvictableUpTo(hist, latestId, lc, i)) \in Nat \ {0}
    BY <1>1, RankPositive
  <2>2. Len(hist) \in Nat /\ MaxStoredFrames \in Nat
    BY LimitsAssumption
  <2> QED BY <2>1, <2>2
<1> QED BY <1>1, VictimsByRank

\* One over the limit, it loses the oldest frame that may go, if there is one.
LEMMA OneVictim ==
  ASSUME NEW hist \in Seq(FrameIds), NEW latestId, NEW lc,
         Len(hist) = MaxStoredFrames + 1,
         \E i \in DOMAIN hist : Evictable(hist, latestId, lc, i)
  PROVE  \E i \in DOMAIN hist :
           /\ Evictable(hist, latestId, lc, i)
           /\ Victims(hist, latestId, lc) = {hist[i]}
<1> DEFINE may == {i \in DOMAIN hist : Evictable(hist, latestId, lc, i)}
           upTo(i) == EvictableUpTo(hist, latestId, lc, i)
<1>1. PICK m \in may : \A i \in may : m <= i
  <2>1. may \in SUBSET Nat /\ may # {}
    OBVIOUS
  <2> HIDE DEF may
  <2> QED BY <2>1, LeastElement
<1>2. m \in DOMAIN hist /\ Evictable(hist, latestId, lc, m)
  BY <1>1
<1>3. Len(hist) - MaxStoredFrames = 1
  BY LimitsAssumption
<1>4. ASSUME NEW i \in may PROVE Cardinality(upTo(i)) <= 1 <=> i = m
  <2>1. i \in DOMAIN hist /\ m \in 1..i
    BY <1>1, <1>2
  <2>2. m \in upTo(i) /\ i \in upTo(i)
    BY <1>2, <2>1 DEF EvictableUpTo
  <2>3. upTo(m) = {m}
    BY <1>1, <1>2 DEF EvictableUpTo
  <2>4. upTo(i) = {i} <=> i = m
    <3> HIDE DEF upTo
    <3> QED BY <2>2, <2>3
  <2> QED BY <2>1, <2>4, RankPositive
<1>5. {i \in DOMAIN hist : Evictable(hist, latestId, lc, i) /\
                           Cardinality(upTo(i)) <= 1} = {m}
  BY <1>2, <1>4
<1>6. Victims(hist, latestId, lc) = {hist[m]}
  BY <1>3, <1>5, VictimsByRank
<1> QED BY <1>2, <1>6

\* A sorted history that ends with the latest frame stays one when it is evicted
\* from, and is back within its limit if a frame may go.
LEMMA EvictionKeepsHistory ==
  ASSUME NEW hist \in Seq(FrameIds), hist # <<>>, Sorted(hist), NEW lc,
         Len(hist) <= MaxStoredFrames + 1,
         Len(hist) > MaxStoredFrames =>
           \E i \in DOMAIN hist : Evictable(hist, Last(hist), lc, i),
         NEW t, t = Without(hist, Victims(hist, Last(hist), lc))
  PROVE  /\ t \in Seq(FrameIds) /\ Sorted(t)
         /\ ToSet(t) = ToSet(hist) \ Victims(hist, Last(hist), lc)
         /\ t # <<>> /\ Last(t) = Last(hist)
         /\ Len(t) <= MaxStoredFrames
<1> DEFINE V == Victims(hist, Last(hist), lc)
<1>1. Last(hist) \notin V
  BY VictimsByRank DEF Evictable
<1>2. FrameIds \in SUBSET Int /\ Len(hist) \in Nat /\ MaxStoredFrames \in Nat
  BY BoundsAssumption, LimitsAssumption DEF FrameIds
<1>3. CASE Len(hist) <= MaxStoredFrames
  <2>1. V = {}
    BY <1>3, NoVictims
  <2>2. t = hist
    BY <2>1, WithoutNone
  <2> QED BY <1>3, <2>1, <2>2
<1>4. CASE Len(hist) = MaxStoredFrames + 1
  <2>1. PICK m \in DOMAIN hist : Evictable(hist, Last(hist), lc, m) /\ V = {hist[m]}
    BY <1>2, <1>4, OneVictim
  <2>2. \A j \in DOMAIN hist : j # m => hist[j] \notin V
    <3> SUFFICES ASSUME NEW j \in DOMAIN hist, j # m PROVE hist[j] # hist[m]
      BY <2>1
    <3>1. j \in Nat /\ m \in Nat /\ hist[j] \in Int /\ hist[m] \in Int
      <4>1. j \in Nat /\ m \in Nat /\ hist[j] \in FrameIds /\ hist[m] \in FrameIds
        OBVIOUS
      <4> QED BY <1>2, <4>1
    <3>2. j < m \/ m < j
      BY <3>1
    <3>3. hist[j] < hist[m] \/ hist[m] < hist[j]
      BY <3>2 DEF Sorted
    <3> QED BY <3>1, <3>3
  <2>3. Len(t) = Len(hist) - 1
    <3> HIDE DEF V
    <3>1. hist[m] \in V
      BY <2>1
    <3> QED BY <2>2, <3>1, WithoutOne DEF V
  <2>4. /\ t \in Seq(FrameIds) /\ Sorted(t) /\ ToSet(t) = ToSet(hist) \ V
        /\ t # <<>> /\ Last(t) = Last(hist)
    BY <1>1, <1>2, WithoutElements
  <2> QED BY <1>2, <1>4, <2>3, <2>4
<1> QED BY <1>2, <1>3, <1>4

-----------------------------------------------------------------------------
(* The history                                                             *)

\* A frame is about to be recorded in a full history only when another may go: the
\* validator has found one, and nobody has changed it since, for want of the mutex.
RoomToRecord == producer.pc # "idle" /\ HistoryFull => HasEvictableFrame

\* The lifecycle states of frames that are done with.
Over == {"Consumed", "Failed", "Dropped"}

\* A frame that is done with was recorded before.
DoneIsRecorded ==
  \A id \in FrameIds : lifecycle[id].state \in Over => id <= latestFrame.frameId

\* The inductive invariant of the history, besides IInv.
HInv ==
  /\ history \in Seq(FrameIds)
  /\ HistoryIndexed
  /\ RoomToRecord
  /\ DoneIsRecorded

\* The order that HistoryIndexed states is that of a sorted queue.
LEMMA HistoryOrder == HistoryIndexed => Sorted(history)
BY DEF HistoryIndexed, Sorted

\* The empty store keeps an orderly history.
LEMMA HistoryInit == Init => HInv
<1> SUFFICES ASSUME Init PROVE HInv
  OBVIOUS
<1>1. history \in Seq(FrameIds) /\ RoomToRecord
  BY DEF Init, RoomToRecord
<1>2. HistoryIndexed
  BY LimitsAssumption DEF Init, HistoryIndexed, ToSet
<1>3. DoneIsRecorded
  BY DEF Init, DoneIsRecorded, Absent, Over
<1> QED BY <1>1, <1>2, <1>3 DEF HInv

\* The steps between validation and record that do not change what was validated.
LEMMA HistoryUntouched ==
  ASSUME HInv, UNCHANGED <<history, framesById, latestFrame, lifecycle>>,
         producer'.pc # "idle" => producer.pc # "idle"
  PROVE  HInv'
<1>1. history' \in Seq(FrameIds) /\ HistoryIndexed'
  BY DEF HInv, HistoryIndexed
<1>2. RoomToRecord'
  BY DEF HInv, RoomToRecord, HistoryFull, HasEvictableFrame, IsProtectedFromEviction
<1>3. DoneIsRecorded'
  BY DEF HInv, DoneIsRecorded
<1> QED BY <1>1, <1>2, <1>3 DEF HInv

\* A step that only marks frames as pending or invalid, while none is under submission.
LEMMA HistoryMarked ==
  ASSUME HInv, UNCHANGED <<history, framesById, latestFrame>>, producer'.pc = "idle",
         \A id \in FrameIds : lifecycle'[id].state \in Over =>
                                lifecycle[id].state \in Over
  PROVE  HInv'
<1>1. history' \in Seq(FrameIds) /\ HistoryIndexed'
  BY DEF HInv, HistoryIndexed
<1>2. RoomToRecord' /\ DoneIsRecorded'
  BY DEF HInv, RoomToRecord, DoneIsRecorded
<1> QED BY <1>1, <1>2 DEF HInv

\* A rejection records a frame as invalid, which no frame that is done with becomes.
LEMMA HistoryReject ==
  ASSUME IInv, HInv, StoreUnlocked, NEW frame \in Frames, NEW code, Reject(frame, code)
  PROVE  HInv'
<1>1. /\ UNCHANGED <<history, framesById, latestFrame>>
      /\ producer' = producer /\ RecordInvalid(frame.frameId)
  BY DEF Reject, historyVars
<1>2. ASSUME NEW id \in FrameIds, lifecycle'[id].state \in Over
      PROVE  lifecycle[id].state \in Over
  BY <1>1, <1>2 DEF RecordInvalid, IInv, TypeOK, Over
<1>3. producer'.pc = "idle"
  BY <1>1 DEF StoreUnlocked
<1> QED BY <1>1, <1>2, <1>3, HistoryMarked

\* The validator's verdict is that there is room, or a frame that may go.
LEMMA HistoryEnqueue ==
  ASSUME IInv, HInv, NEW frame \in Frames, SubmitEnqueue(frame)
  PROVE  HInv'
<1>1. UNCHANGED <<history, framesById, latestFrame, lifecycle>>
  BY DEF SubmitEnqueue, historyVars
<1>2. HistoryFull => HasEvictableFrame
  <2>1. SubmissionCode(frame) = "Accepted" /\ frame.defect # "Accepted"
    BY DefectsAssumption DEF SubmitEnqueue, Frames
  <2> QED BY <2>1 DEF SubmissionCode
<1>3. RoomToRecord'
  BY <1>1, <1>2 DEF RoomToRecord, HistoryFull, HasEvictableFrame,
                    IsProtectedFromEviction
<1>4. history' \in Seq(FrameIds) /\ HistoryIndexed' /\ DoneIsRecorded'
  BY <1>1 DEF HInv, HistoryIndexed, DoneIsRecorded
<1> QED BY <1>3, <1>4 DEF HInv

\* The frame goes behind older ones; if that makes one too many, one goes.
LEMMA HistoryRecord ==
  ASSUME IInv, HInv, SubmitRecord
  PROVE  HInv'
<1> DEFINE id == producer.frame.frameId
           hist == Append(history, id)
           lc == AcceptedReady(lifecycle, id)
           V == Victims(hist, id, lc)
<1>1. /\ producer.pc # "idle" /\ producer'.pc = "idle"
      /\ latestFrame'.frameId = id /\ latestFrame' = producer.frame
      /\ EvictOldFrames(hist, framesById \cup {id}, id, lc)
  BY DEF SubmitRecord
<1>2. id \in FrameIds /\ id > latestFrame.frameId /\ latestFrame.frameId \in Int
  <2>1. id \in ToSet(queue) \cup InHand /\ id > latestFrame.frameId
    BY <1>1 DEF IInv, SubmissionAhead
  <2>2. ToSet(queue) \cup InHand \subseteq FrameIds
    BY DEF IInv, TypeOK, SetsMatchQueue, ToSet
  <2>3. latestFrame.frameId \in Int
    BY BoundsAssumption DEF IInv, TypeOK, Frames
  <2> QED BY <2>1, <2>2, <2>3
<1>3. FrameIds \in SUBSET Int /\ id \in Int /\ MaxStoredFrames \in Nat
  BY <1>2, BoundsAssumption, LimitsAssumption DEF FrameIds
<1>4. /\ history \in Seq(FrameIds) /\ Sorted(history) /\ ToSet(history) = framesById
      /\ Len(history) <= MaxStoredFrames
      /\ history # <<>> => Last(history) = latestFrame.frameId
  BY HistoryOrder DEF HInv, HistoryIndexed
<1>5. \A y \in ToSet(history) : y < id
  <2>1. CASE history = <<>>
    BY <2>1 DEF ToSet
  <2>2. CASE history # <<>>
    <3>1. \A y \in ToSet(history) : y <= latestFrame.frameId
      BY <1>3, <1>4, <2>2, LastIsLargest
    <3>2. ToSet(history) \subseteq FrameIds
      BY <1>4 DEF ToSet
    <3>3. \A y \in ToSet(history) : y \in Int
      BY <1>3, <3>2
    <3> HIDE DEF id
    <3> QED BY <1>2, <1>3, <3>1, <3>3
  <2> QED BY <2>1, <2>2
<1>6. /\ hist \in Seq(FrameIds) /\ Len(hist) = Len(history) + 1 /\ Len(history) \in Nat
      /\ \A i \in 1..Len(history) : hist[i] = history[i]
      /\ ToSet(hist) = framesById \cup {id}
      /\ Sorted(hist) /\ hist # <<>> /\ Last(hist) = id
  <2>1. /\ hist \in Seq(FrameIds) /\ Len(hist) = Len(history) + 1 /\ Len(history) \in Nat
        /\ \A i \in 1..Len(history) : hist[i] = history[i]
        /\ hist[Len(history) + 1] = id
        /\ ToSet(hist) = ToSet(history) \cup {id}
    BY <1>2, <1>4, AppendElement
  <2>2. Sorted(hist)
    BY <1>2, <1>3, <1>4, <1>5, AppendNewer
  <2> HIDE DEF hist
  <2> QED BY <1>4, <2>1, <2>2 DEF Last
<1>7. /\ lc[id].state = "ReadyForConsumer"
      /\ \A p \in FrameIds \ {id} : lc[p] = lifecycle[p]
  BY <1>2 DEF AcceptedReady, IInv, TypeOK
<1>8. Len(hist) > MaxStoredFrames => \E i \in DOMAIN hist : Evictable(hist, id, lc, i)
  <2> SUFFICES ASSUME Len(hist) > MaxStoredFrames
               PROVE  \E i \in DOMAIN hist : Evictable(hist, id, lc, i)
    OBVIOUS
  <2>1. HistoryFull
    <3> HIDE DEF hist
    <3> QED BY <1>3, <1>6 DEF HistoryFull
  <2>2. PICK x \in ToSet(history) : ~IsProtectedFromEviction(lifecycle, x)
    BY <1>1, <2>1 DEF HInv, RoomToRecord, HasEvictableFrame
  <2>3. PICK i \in DOMAIN history : history[i] = x
    BY DEF ToSet
  <2>4. x \in FrameIds /\ x # id
    BY <1>3, <1>4, <1>5, <2>3
  <2>5. i \in DOMAIN hist /\ hist[i] = x
    <3>1. i \in 1..Len(history)
      BY <1>4
    <3> HIDE DEF hist
    <3> QED BY <1>6, <2>3, <3>1
  <2>6. lc[x] = lifecycle[x]
    BY <1>7, <2>4
  <2> HIDE DEF hist, lc, id
  <2> QED BY <2>2, <2>4, <2>5, <2>6 DEF Evictable, IsProtectedFromEviction
<1> HIDE DEF id, hist, lc
<1>9. /\ history' = Without(hist, V)
      /\ framesById' = (framesById \cup {id}) \ V
      /\ lifecycle' = [p \in FrameIds |-> IF p \in V
                         THEN Marked(lc, p, "Dropped", {"dropped"})[p] ELSE lc[p]]
  BY <1>1 DEF EvictOldFrames, RemoveFromIndex
<1>10. /\ history' \in Seq(FrameIds) /\ Sorted(history')
       /\ ToSet(history') = ToSet(hist) \ V
       /\ history' # <<>> /\ Last(history') = id
       /\ Len(history') <= MaxStoredFrames
  <2>1. Len(hist) <= MaxStoredFrames + 1
    BY <1>3, <1>4, <1>6
  <2> QED BY <1>6, <1>8, <1>9, <2>1, EvictionKeepsHistory
<1>11. HistoryIndexed'
  BY <1>1, <1>6, <1>9, <1>10 DEF HistoryIndexed, Sorted
<1>12. DoneIsRecorded'
  <2> SUFFICES ASSUME NEW p \in FrameIds, lifecycle'[p].state \in Over
               PROVE  p <= id
    BY <1>1 DEF DoneIsRecorded
  <2>1. CASE p \in V
    <3>1. p \in ToSet(hist)
      BY <2>1, VictimsByRank DEF ToSet
    <3> QED BY <1>3, <1>4, <1>5, <1>6, <3>1
  <2>2. CASE p \notin V
    <3>1. lc[p].state \in Over
      BY <1>9, <2>2
    <3>2. p # id /\ lifecycle[p].state \in Over
      BY <1>7, <3>1 DEF Over
    <3>3. p <= latestFrame.frameId
      BY <3>2 DEF HInv, DoneIsRecorded
    <3> QED BY <1>2, <1>3, <3>3
  <2> QED BY <2>1, <2>2
<1> QED BY <1>1, <1>10, <1>11, <1>12 DEF HInv, RoomToRecord

\* A completion finds the history within its limit, and evicts nothing.
LEMMA CompletionEvictsNothing ==
  ASSUME HInv, NEW latestId, NEW lc, EvictOldFrames(history, framesById, latestId, lc),
         lc \in [FrameIds -> Entries]
  PROVE  history' = history /\ framesById' = framesById /\ lifecycle' = lc
<1>1. Victims(history, latestId, lc) = {}
  BY NoVictims DEF HInv, HistoryIndexed
<1>2. Without(history, {}) = history
  BY WithoutNone DEF HInv
<1> QED BY <1>1, <1>2 DEF EvictOldFrames, RemoveFromIndex

\* A completion marks a frame that was recorded before.
LEMMA HistoryComplete ==
  ASSUME IInv, HInv, NEW id \in FrameIds, NEW state \in {"Consumed", "Failed"},
         NEW flag \in Flags, MarkFrame(id, state, flag)
  PROVE  HInv'
<1> DEFINE lc == Marked(lifecycle, id, state, {"dispatched", flag})
<1>1. /\ producer.pc = "idle" /\ producer' = producer /\ latestFrame' = latestFrame
      /\ id \in inFlightFrameIds
      /\ EvictOldFrames(history, framesById, latestFrame.frameId, lc)
  BY DEF MarkFrame, MarkCompleted, StoreUnlocked
<1>2. /\ lc \in [FrameIds -> Entries]
      /\ \A p \in FrameIds \ {id} : lc[p] = lifecycle[p]
  <2>1. state \in States /\ {"dispatched", flag} \in SUBSET Flags
    BY DEF States, Flags
  <2> QED BY <2>1, MarkChangesOne DEF IInv, TypeOK
<1>3. id <= latestFrame.frameId
  BY <1>1 DEF IInv, QueueOrdered, Newest
<1> HIDE DEF lc
<1>4. history' = history /\ framesById' = framesById /\ lifecycle' = lc
  BY <1>1, <1>2, CompletionEvictsNothing
<1>5. DoneIsRecorded'
  BY <1>1, <1>2, <1>3, <1>4 DEF HInv, DoneIsRecorded
<1>6. history' \in Seq(FrameIds) /\ HistoryIndexed' /\ RoomToRecord'
  BY <1>1, <1>4 DEF HInv, HistoryIndexed, RoomToRecord
<1> QED BY <1>5, <1>6 DEF HInv

\* Every step of the store keeps its history.
LEMMA HistoryInvariant == IInv /\ HInv /\ [Next]_vars => HInv'
<1> SUFFICES ASSUME IInv, HInv, [Next]_vars PROVE HInv'
  OBVIOUS
<1> USE DEF historyVars, queueVars, countVars
<1>1. ASSUME NEW frame \in Frames, Submit(frame) PROVE HInv'
  <2>1. CASE SubmitInvalid(frame)
    BY <2>1, HistoryReject DEF SubmitInvalid
  <2>2. CASE SubmitQueueFull(frame)
    BY <2>2, HistoryReject DEF SubmitQueueFull
  <2>3. CASE SubmitEnqueue(frame)
    BY <2>3, HistoryEnqueue
  <2> QED BY <1>1, <2>1, <2>2, <2>3 DEF Submit
<1>2. CASE SubmitMarkReady
  BY <1>2, HistoryUntouched DEF SubmitMarkReady
<1>3. CASE SubmitRecord
  BY <1>3, HistoryRecord
<1>4. CASE DequeuePop
  BY <1>4, HistoryUntouched DEF DequeuePop
<1>5. CASE DequeueRegister
  BY <1>5, HistoryUntouched DEF DequeueRegister
<1>6. CASE DequeueDispatch
  <2> DEFINE id == consumer.id
  <2>1. /\ consumer.pc = "registered" /\ producer.pc = "idle" /\ producer' = producer
        /\ UNCHANGED <<history, framesById, latestFrame>>
        /\ lifecycle' = Marked(lifecycle, id, "DispatchedToConsumer", {"dispatched"})
    BY <1>6 DEF DequeueDispatch, StoreUnlocked
  <2>2. id \in FrameIds
    BY <2>1 DEF IInv, SetsMatchQueue, InHand
  <2> HIDE DEF id
  <2>3. /\ \A p \in FrameIds \ {id} : lifecycle'[p] = lifecycle[p]
        /\ lifecycle'[id].state \in {"DispatchedToConsumer", "Absent"}
    BY <2>1, <2>2, MarkChangesOne DEF IInv, TypeOK, States, Flags
  <2>4. \A p \in FrameIds : lifecycle'[p].state \in Over => lifecycle[p].state \in Over
    BY <2>3 DEF Over
  <2> QED BY <2>1, <2>4, HistoryMarked
<1>7. ASSUME NEW id \in FrameIds, NEW state \in {"Consumed", "Failed"}, NEW flag \in Flags,
             MarkFrame(id, state, flag)
      PROVE  HInv'
  BY <1>7, HistoryComplete
<1>8. ASSUME NEW id \in FrameIds, Complete(id) PROVE HInv'
  BY <1>7, <1>8 DEF Complete, MarkFrameConsumed, MarkFrameFailed, Flags
<1>9. CASE UNCHANGED vars
  BY <1>9, HistoryUntouched DEF vars
<1> QED BY <1>1, <1>2, <1>3, <1>4, <1>5, <1>6, <1>8, <1>9 DEF Next

\* The history is in order and within its limit, a submission that passed validation
\* finds room for its frame, and what is completed or dropped was recorded before.
THEOREM HistoryInvariance == Spec => [](IInv /\ HInv)
<1>1. Init => IInv /\ HInv
  BY InitInvariant, HistoryInit
<1>2. (IInv /\ HInv) /\ [Next]_vars => (IInv /\ HInv)'
  BY NextInvariant, HistoryInvariant
<1> QED BY <1>1, <1>2, PTL DEF Spec

\* The ordered history, the lookup by id and the latest frame agree, and the history
\* never outgrows its limit: whatever comes between a frame's validation and its
\* record, the eviction finds the victim that the validator counted on, and it is not
\* the new frame (FrameHistory.cpp:8-25, FrameStore.cpp:45-51 against 175-184).
THEOREM HistoryIsIndexed == Spec => []HistoryIndexed
<1>1. IInv /\ HInv => HistoryIndexed
  BY DEF HInv
<1> QED BY <1>1, HistoryInvariance, PTL

-----------------------------------------------------------------------------
(* Completed for good                                                      *)

\* What the step may do to a frame that is completed or dropped.
KeepsDone(id) ==
  lifecycle[id].state \in Over =>
    /\ lifecycle'[id].state \in {lifecycle[id].state, "Dropped"}
    /\ lifecycle'[id].flags \ {"dropped"} = lifecycle[id].flags \ {"dropped"}

\* A mark as dropped leaves the other flags alone.
LEMMA DropKeepsFlags ==
  ASSUME NEW lc \in [FrameIds -> Entries], NEW id \in FrameIds,
         NEW entry, entry = Marked(lc, id, "Dropped", {"dropped"})[id]
  PROVE  /\ entry.state \in {lc[id].state, "Dropped"}
         /\ entry.flags \ {"dropped"} = lc[id].flags \ {"dropped"}
<1>1. CASE lc[id] = Absent
  BY <1>1 DEF Marked
<1>2. CASE lc[id] # Absent
  <2>1. entry = [state |-> "Dropped", flags |-> lc[id].flags \cup {"dropped"}]
    BY <1>2 DEF Marked
  <2> QED BY <2>1
<1> QED BY <1>1, <1>2

\* No step changes a frame that is done with, but for the mark of its eviction.
LEMMA StepKeepsDone ==
  ASSUME IInv, HInv, [Next]_vars, NEW p \in FrameIds
  PROVE  KeepsDone(p)
<1> SUFFICES ASSUME lifecycle[p].state \in Over
             PROVE  /\ lifecycle'[p].state \in {lifecycle[p].state, "Dropped"}
                    /\ lifecycle'[p].flags \ {"dropped"} = lifecycle[p].flags \ {"dropped"}
  BY DEF KeepsDone
<1>1. CASE lifecycle'[p] = lifecycle[p]
  BY <1>1
<1>2. ASSUME NEW frame \in Frames, NEW code, Reject(frame, code)
      PROVE  lifecycle'[p] = lifecycle[p]
  BY <1>2 DEF Reject, RecordInvalid, IInv, TypeOK, Absent, Over
<1>3. ASSUME NEW frame \in Frames, Submit(frame)
      PROVE  lifecycle'[p] = lifecycle[p]
  BY <1>2, <1>3 DEF Submit, SubmitInvalid, SubmitQueueFull, SubmitEnqueue
<1>4. CASE SubmitRecord
  <2> DEFINE id == producer.frame.frameId
             lc == AcceptedReady(lifecycle, id)
             V == Victims(Append(history, id), id, lc)
  <2>1. /\ producer.pc # "idle"
        /\ lifecycle' = [q \in FrameIds |-> IF q \in V
                           THEN Marked(lc, q, "Dropped", {"dropped"})[q] ELSE lc[q]]
    BY <1>4 DEF SubmitRecord, EvictOldFrames
  <2>2. p # id
    <3>1. p <= latestFrame.frameId /\ id > latestFrame.frameId
      BY <2>1 DEF HInv, DoneIsRecorded, IInv, SubmissionAhead
    <3>2. p \in Int /\ id \in Int /\ latestFrame.frameId \in Int
      BY BoundsAssumption DEF IInv, TypeOK, Frames, FrameIds
    <3> QED BY <3>1, <3>2
  <2>3. lc \in [FrameIds -> Entries] /\ lc[p] = lifecycle[p]
    <3>1. [state |-> "ReadyForConsumer", flags |-> {"stored"}] \in Entries
      BY DEF Entries, States, Flags
    <3> QED BY <2>2, <3>1 DEF AcceptedReady, IInv, TypeOK
  <2> HIDE DEF id, lc, V
  <2>4. CASE p \in V
    <3>1. lifecycle'[p] = Marked(lc, p, "Dropped", {"dropped"})[p]
      BY <2>1, <2>4
    <3> QED BY <2>3, <3>1, DropKeepsFlags
  <2>5. CASE p \notin V
    BY <2>1, <2>3, <2>5
  <2> QED BY <2>4, <2>5
<1>5. CASE DequeueDispatch
  <2>1. /\ consumer.pc = "registered" /\ StoreUnlocked
        /\ lifecycle' = Marked(lifecycle, consumer.id, "DispatchedToConsumer", {"dispatched"})
    BY <1>5 DEF DequeueDispatch
  <2>2. consumer.id \in FrameIds /\ lifecycle[consumer.id].state = "ReadyForConsumer"
    BY <2>1 DEF IInv, SetsMatchQueue, LifecycleFollows, InHand, Submitting, StoreUnlocked
  <2>3. p # consumer.id
    BY <2>2 DEF Over
  <2> QED BY <1>1, <2>1, <2>2, <2>3, MarkChangesOne DEF IInv, TypeOK, States, Flags
<1>6. ASSUME NEW id \in FrameIds, NEW state \in {"Consumed", "Failed"}, NEW flag \in Flags,
             MarkFrame(id, state, flag)
      PROVE  lifecycle'[p] = lifecycle[p]
  <2> DEFINE lc == Marked(lifecycle, id, state, {"dispatched", flag})
  <2>1. /\ consumer.pc = "idle" /\ StoreUnlocked /\ id \in inFlightFrameIds
        /\ EvictOldFrames(history, framesById, latestFrame.frameId, lc)
    BY <1>6 DEF MarkFrame, MarkCompleted
  <2>2. lifecycle[id].state = "DispatchedToConsumer"
    BY <2>1 DEF IInv, LifecycleFollows, InHand, Submitting, StoreUnlocked
  <2>3. p # id
    BY <2>2 DEF Over
  <2>4. lc \in [FrameIds -> Entries] /\ lc[p] = lifecycle[p]
    <3>1. state \in States /\ {"dispatched", flag} \in SUBSET Flags
      BY DEF States, Flags
    <3> QED BY <2>3, <3>1, MarkChangesOne DEF IInv, TypeOK
  <2> HIDE DEF lc
  <2> QED BY <2>1, <2>4, CompletionEvictsNothing
<1>7. ASSUME NEW id \in FrameIds, Complete(id) PROVE lifecycle'[p] = lifecycle[p]
  BY <1>6, <1>7 DEF Complete, MarkFrameConsumed, MarkFrameFailed, Flags
<1>8. CASE SubmitMarkReady \/ DequeuePop \/ DequeueRegister \/ UNCHANGED vars
  BY <1>8 DEF SubmitMarkReady, DequeuePop, DequeueRegister, vars
<1> QED BY <1>1, <1>3, <1>4, <1>5, <1>7, <1>8 DEF Next

\* A frame once completed or dropped never becomes pending again, and no completion is
\* recorded twice or changed: its id is not accepted again, and neither a dispatch nor a
\* second completion reaches it (FrameLifecycleTracker.cpp:35, FrameStore.cpp:126-147).
THEOREM CompletionIsFinal == Spec => CompletedForGood
<1>1. ASSUME IInv, HInv, [Next]_vars
      PROVE  \A id \in FrameIds : KeepsDone(id)
  BY <1>1, StepKeepsDone
<1>2. IInv /\ HInv /\ [Next]_vars =>
        [\A id \in FrameIds :
           lifecycle[id].state \in {"Consumed", "Failed", "Dropped"} =>
             /\ lifecycle'[id].state \in {lifecycle[id].state, "Dropped"}
             /\ lifecycle'[id].flags \ {"dropped"} = lifecycle[id].flags \ {"dropped"}
        ]_vars
  BY <1>1 DEF KeepsDone, Over
<1> QED BY <1>2, HistoryInvariance, PTL DEF Spec, CompletedForGood
=============================================================================
