------------------------------ MODULE FrameStore ------------------------------
(***************************************************************************)
(* The bounded store that hands captured RGB-D frames from the ingestor to *)
(* the builder (src/model/src/frame: FrameStore, ReadyFrameQueue,          *)
(* FrameHistory, FrameLifecycleTracker, FrameValidator).                   *)
(*                                                                         *)
(* One producer thread submits, one consumer thread dequeues and completes *)
(* (the queue underneath is single-producer, single-consumer).  Two mutexes*)
(* are involved, and the pop itself takes neither:                         *)
(*   m_mutex of FrameStore is held by submitFrame from its first step to   *)
(*     its last, and by markDispatched, markFrameConsumed, markFrameFailed;*)
(*   m_mutex of ReadyFrameQueue guards the two id sets; submitFrame holds  *)
(*     it between try_enqueue and the insertion into readyFrameIds.        *)
(***************************************************************************)
EXTENDS FrameHistory, Integers, FiniteSets, SequencesExt

CONSTANTS
  MaxStoredFrames,  \* FrameStoreConfig, after the constructor's max(1, .)
  MaxReadyFrames,
  Defects,          \* the content defects FrameValidator can find in a frame
  MaxFrameId,       \* bound on the ids offered
  MaxTimestamp,     \* bound on the timestamps offered
  MaxRejected       \* bound on the rejections counted

ASSUME LimitsAssumption ==
  /\ MaxStoredFrames \in Nat \ {0}
  /\ MaxReadyFrames \in Nat \ {0}

\* A defect is named by the code of the rejection it causes.
ASSUME DefectsAssumption == "Accepted" \notin Defects

ASSUME BoundsAssumption ==
  /\ MaxFrameId \in Nat
  /\ MaxTimestamp \in Nat
  /\ MaxRejected \in Nat

VARIABLES
  history,             \* FrameHistory::m_history, the ids oldest first
  framesById,          \* FrameHistory::m_framesById, its keys
  latestFrame,         \* FrameHistory::m_latestFrame
  queue,               \* the ids in the ring buffer, oldest first
  readyFrameIds,
  inFlightFrameIds,
  lifecycle,           \* FrameLifecycleTracker::m_lifecyclesById
  acceptedFrameCount,
  rejectedFrameCount,
  droppedFrameCount,   \* and evictedFrameCount, which moves with it
  lastSubmissionCode,
  producer,            \* where submitFrame stands, and its frame
  consumer             \* where a dequeue stands, and its frame id

historyVars == <<history, framesById, latestFrame>>
queueVars == <<queue, readyFrameIds, inFlightFrameIds>>
countVars == <<acceptedFrameCount, rejectedFrameCount, droppedFrameCount,
               lastSubmissionCode>>
vars == <<historyVars, queueVars, lifecycle, countVars, producer, consumer>>

FrameIds == 1..MaxFrameId

\* A frame as the validator sees it: the first content defect it has, if any.
Frames == [frameId : 0..MaxFrameId, timestamp : 0..MaxTimestamp,
           defect : Defects \cup {"None"}]

\* No latest frame: ids and timestamps of stored frames are positive, so zero
\* stands for the empty optional in every comparison.
NoFrame == [frameId |-> 0, timestamp |-> 0, defect |-> "None"]

States == {"Absent", "ReadyForConsumer", "DispatchedToConsumer", "Consumed",
           "Failed", "Dropped", "Invalid"}
Flags == {"stored", "dispatched", "consumed", "failed", "dropped", "invalid"}

Absent == [state |-> "Absent", flags |-> {}]

Init ==
  /\ history = <<>>
  /\ framesById = {}
  /\ latestFrame = NoFrame
  /\ queue = <<>>
  /\ readyFrameIds = {}
  /\ inFlightFrameIds = {}
  /\ lifecycle = [id \in FrameIds |-> Absent]
  /\ acceptedFrameCount = 0
  /\ rejectedFrameCount = 0
  /\ droppedFrameCount = 0
  /\ lastSubmissionCode = "InvalidFrameId"
  /\ producer = [pc |-> "idle", frame |-> NoFrame]
  /\ consumer = [pc |-> "idle", id |-> 0]

StoreUnlocked == producer.pc = "idle"
QueueUnlocked == producer.pc # "enqueued"

-----------------------------------------------------------------------------
(* FrameLifecycleTracker                                                   *)

\* The mark* operations: they find an entry, and change its state and one flag.
Marked(lc, id, state, marks) ==
  IF lc[id] = Absent THEN lc
  ELSE [lc EXCEPT ![id] = [state |-> state, flags |-> @.flags \cup marks]]

\* Mutant: only one of the two pending states is protected.
ProtectReadyOnly(lc, id) == lc[id].state = "ReadyForConsumer"

IsProtectedFromEviction(lc, id) ==
  lc[id].state \in {"ReadyForConsumer", "DispatchedToConsumer"}

\* A rejected frame is recorded only when its id has no entry yet.
RecordInvalid(id) ==
  lifecycle' = IF id = 0 \/ lifecycle[id] # Absent THEN lifecycle
               ELSE [lifecycle EXCEPT ![id] =
                       [state |-> "Invalid", flags |-> {"invalid"}]]

\* An accepted frame overwrites whatever entry its id had.
AcceptedReady(lc, id) ==
  [lc EXCEPT ![id] = [state |-> "ReadyForConsumer", flags |-> {"stored"}]]

-----------------------------------------------------------------------------
(* FrameValidator                                                          *)

\* Mutant: off by one.
HistoryOverfull == Len(history) > MaxStoredFrames

HistoryFull == Len(history) >= MaxStoredFrames

HasEvictableFrame ==
  \E id \in ToSet(history) : ~IsProtectedFromEviction(lifecycle, id)

NotNewer(offered, latest) == offered <= latest

\* The first check a frame fails, in the order the validator makes them.
SubmissionCode(frame) ==
  IF frame.frameId = 0 THEN "InvalidFrameId"
  ELSE IF frame.timestamp <= 0 THEN "InvalidTimestamp"
  ELSE IF NotNewer(frame.frameId, latestFrame.frameId) THEN "FrameIdNotNewer"
  ELSE IF NotNewer(frame.timestamp, latestFrame.timestamp) THEN "TimestampNotNewer"
  ELSE IF frame.defect # "None" THEN frame.defect
  ELSE IF HistoryFull /\ ~HasEvictableFrame THEN "HistoryFull"
  ELSE "Accepted"

-----------------------------------------------------------------------------
(* FrameStore::submitFrame                                                 *)

\* The oldest frames evictOldFramesLocked drops: as many as exceed the limit,
\* fewer when the rest are protected or the latest.
Victims(hist, latestId, lc) ==
  LET Evictable(i) == hist[i] # latestId /\ ~IsProtectedFromEviction(lc, hist[i])
      rank(i) == Cardinality({j \in 1..i : Evictable(j)})
  IN  {hist[i] : i \in {j \in DOMAIN hist :
                          Evictable(j) /\ rank(j) <= Len(hist) - MaxStoredFrames}}

RemoveFromIndex(byId, victims) == byId \ victims

CountDropped(victims) == droppedFrameCount + Cardinality(victims)

EvictOldFrames(hist, byId, latestId, lc) ==
  LET victims == Victims(hist, latestId, lc)
  IN  /\ history' = Without(hist, victims)
      /\ framesById' = RemoveFromIndex(byId, victims)
      /\ lifecycle' = [id \in FrameIds |-> IF id \in victims
                         THEN Marked(lc, id, "Dropped", {"dropped"})[id]
                         ELSE lc[id]]
      /\ droppedFrameCount' = CountDropped(victims)

Reject(frame, code) ==
  /\ rejectedFrameCount < MaxRejected
  /\ rejectedFrameCount' = rejectedFrameCount + 1
  /\ lastSubmissionCode' = code
  /\ RecordInvalid(frame.frameId)
  /\ UNCHANGED <<historyVars, queueVars, acceptedFrameCount, droppedFrameCount,
                 producer, consumer>>

SubmitInvalid(frame) ==
  /\ StoreUnlocked
  /\ SubmissionCode(frame) # "Accepted"
  /\ Reject(frame, SubmissionCode(frame))

\* Mutant: the ring buffer has one slot too many.
QueueOverfull == Len(queue) > MaxReadyFrames

QueueFull == Len(queue) >= MaxReadyFrames

SubmitQueueFull(frame) ==
  /\ StoreUnlocked
  /\ SubmissionCode(frame) = "Accepted"
  /\ QueueFull
  /\ Reject(frame, "ReadyFrameQueueFull")

\* The validator's inputs are guarded by the store's mutex and cannot change
\* before try_enqueue, so validation and try_enqueue are one step.
SubmitEnqueue(frame) ==
  /\ StoreUnlocked
  /\ SubmissionCode(frame) = "Accepted"
  /\ ~QueueFull
  /\ queue' = Append(queue, frame.frameId)
  /\ producer' = [pc |-> "enqueued", frame |-> frame]
  /\ UNCHANGED <<historyVars, readyFrameIds, inFlightFrameIds, lifecycle,
                 countVars, consumer>>

\* The rest of ReadyFrameQueue::tryEnqueue.
SubmitMarkReady ==
  /\ producer.pc = "enqueued"
  /\ readyFrameIds' = readyFrameIds \cup {producer.frame.frameId}
  /\ producer' = [producer EXCEPT !.pc = "queued"]
  /\ UNCHANGED <<historyVars, queue, inFlightFrameIds, lifecycle, countVars,
                 consumer>>

\* The rest of submitFrame, eviction included.
SubmitRecord ==
  LET frame == producer.frame
      id == frame.frameId
  IN  /\ producer.pc = "queued"
      /\ EvictOldFrames(Append(history, id), framesById \cup {id}, id,
                        AcceptedReady(lifecycle, id))
      /\ latestFrame' = frame
      /\ acceptedFrameCount' = acceptedFrameCount + 1
      /\ lastSubmissionCode' = "Accepted"
      /\ producer' = [pc |-> "idle", frame |-> NoFrame]
      /\ UNCHANGED <<queueVars, rejectedFrameCount, consumer>>

-----------------------------------------------------------------------------
(* tryDequeueReadyFrame and the two waitDequeueReadyFrame: they differ in  *)
(* how long they wait for the pop, which a finite delay here stands for.   *)

DequeuePop ==
  /\ consumer.pc = "idle"
  /\ queue # <<>>
  /\ queue' = Tail(queue)
  /\ consumer' = [pc |-> "popped", id |-> Head(queue)]
  /\ UNCHANGED <<historyVars, readyFrameIds, inFlightFrameIds, lifecycle,
                 countVars, producer>>

DequeueRegister ==
  /\ consumer.pc = "popped"
  /\ QueueUnlocked
  /\ readyFrameIds' = readyFrameIds \ {consumer.id}
  /\ inFlightFrameIds' = inFlightFrameIds \cup {consumer.id}
  /\ consumer' = [consumer EXCEPT !.pc = "registered"]
  /\ UNCHANGED <<historyVars, queue, lifecycle, countVars, producer>>

\* Mutant: the dispatch is recorded without the store's mutex.
UnlockedDispatch ==
  /\ consumer.pc = "registered"
  /\ lifecycle' = Marked(lifecycle, consumer.id, "DispatchedToConsumer",
                         {"dispatched"})
  /\ consumer' = [pc |-> "idle", id |-> 0]
  /\ UNCHANGED <<historyVars, queueVars, countVars, producer>>

DequeueDispatch ==
  /\ consumer.pc = "registered"
  /\ StoreUnlocked
  /\ lifecycle' = Marked(lifecycle, consumer.id, "DispatchedToConsumer",
                         {"dispatched"})
  /\ consumer' = [pc |-> "idle", id |-> 0]
  /\ UNCHANGED <<historyVars, queueVars, countVars, producer>>

-----------------------------------------------------------------------------
(* markFrameConsumed and markFrameFailed; for an id that is not in flight  *)
(* both return false and change nothing.                                   *)

\* Mutants: completion without the in-flight check; a check of the wrong set.
CompleteUnchecked(id) ==
  inFlightFrameIds' = inFlightFrameIds \ {id} /\ UNCHANGED <<queue, readyFrameIds>>
CompleteReady(id) == id \in readyFrameIds /\ CompleteUnchecked(id)

MarkCompleted(id) ==
  /\ id \in inFlightFrameIds
  /\ inFlightFrameIds' = inFlightFrameIds \ {id}
  /\ UNCHANGED <<queue, readyFrameIds>>

MarkFrame(id, state, flag) ==
  /\ consumer.pc = "idle"
  /\ StoreUnlocked
  /\ MarkCompleted(id)
  /\ EvictOldFrames(history, framesById, latestFrame.frameId,
                    Marked(lifecycle, id, state, {"dispatched", flag}))
  /\ UNCHANGED <<latestFrame, acceptedFrameCount, rejectedFrameCount,
                 lastSubmissionCode, producer, consumer>>

MarkFrameConsumed(id) == MarkFrame(id, "Consumed", "consumed")
MarkFrameFailed(id) == MarkFrame(id, "Failed", "failed")

-----------------------------------------------------------------------------
Submit(frame) ==
  SubmitInvalid(frame) \/ SubmitQueueFull(frame) \/ SubmitEnqueue(frame)

Complete(id) == MarkFrameConsumed(id) \/ MarkFrameFailed(id)

Next ==
  \/ \E frame \in Frames : Submit(frame)
  \/ SubmitMarkReady
  \/ SubmitRecord
  \/ DequeuePop
  \/ DequeueRegister
  \/ DequeueDispatch
  \/ \E id \in FrameIds : Complete(id)

Spec == Init /\ [][Next]_vars

(***************************************************************************)
(* A submission that began ends; the consumer keeps dequeuing and completes*)
(* what it dequeued.  The steps that take the store's mutex compete with   *)
(* submissions for it, hence strong fairness: a thread that finds the mutex*)
(* free again and again gets it.  Nobody is obliged to submit.             *)
(***************************************************************************)
Fairness ==
  /\ WF_vars(SubmitMarkReady) /\ WF_vars(SubmitRecord)
  /\ WF_vars(DequeuePop) /\ WF_vars(DequeueRegister)
  /\ SF_vars(DequeueDispatch)
  /\ \A id \in FrameIds : SF_vars(Complete(id))

FairSpec == Spec /\ Fairness

-----------------------------------------------------------------------------
(* Properties                                                              *)

Entries == [state : States, flags : SUBSET Flags]

\* The type invariant: the state of the store, its queue and the two threads.
TypeOK ==
  /\ latestFrame \in Frames
  /\ queue \in Seq(FrameIds)
  /\ readyFrameIds \subseteq FrameIds
  /\ inFlightFrameIds \subseteq FrameIds
  /\ lifecycle \in [FrameIds -> Entries]
  /\ producer \in [pc : {"idle", "enqueued", "queued"}, frame : Frames]
  /\ consumer \in [pc : {"idle", "popped", "registered"}, id : 0..MaxFrameId]

InHand == IF consumer.pc = "idle" THEN {} ELSE {consumer.id}
Submitting == IF producer.pc = "idle" THEN {} ELSE {producer.frame.frameId}

\* The ordered history, the lookup by id and the latest frame agree, the latest
\* frame is never evicted (FrameHistory.cpp:8-25), and the history never outgrows
\* its limit: a frame is accepted into a full one only when the eviction that
\* follows finds a victim other than the frame just added (FrameStore.cpp:45-51
\* against 175-184).
HistoryIndexed ==
  /\ ToSet(history) = framesById
  /\ \A i, j \in DOMAIN history : i < j => history[i] < history[j]
  /\ history # <<>> => Last(history) = latestFrame.frameId
  /\ history = <<>> => latestFrame = NoFrame
  /\ Len(history) <= MaxStoredFrames

\* No frame the consumer has still to process is evicted, whichever of the two
\* threads runs first after the pop (FrameStore.cpp:58-72 and 114-121).
PendingFramesRetained ==
  (ToSet(queue) \cup InHand \cup inFlightFrameIds) \ Submitting \subseteq framesById

\* An accepted frame is in one place of the hand-off at a time, and whoever holds
\* the store's mutex sees lifecycle states that match it: a dispatch cannot overtake
\* the submission that records the frame as ready, nor a completion the dispatch
\* (FrameStore.cpp:68, 120, 131, 143).
LifecycleMatchesHandOff ==
  /\ ToSet(queue) \cap (InHand \cup inFlightFrameIds) = {}
  /\ QueueUnlocked =>
       readyFrameIds = ToSet(queue) \cup (InHand \ inFlightFrameIds)
  /\ StoreUnlocked => \A id \in FrameIds :
       /\ lifecycle[id].state = "ReadyForConsumer"
            <=> id \in ToSet(queue) \cup InHand
       /\ lifecycle[id].state = "DispatchedToConsumer"
            <=> id \in inFlightFrameIds \ InHand

\* A frame once completed or dropped never becomes pending again, and no
\* completion is recorded twice or changed (FrameLifecycleTracker.cpp:35).
CompletedForGood ==
  [][\A id \in FrameIds :
       lifecycle[id].state \in {"Consumed", "Failed", "Dropped"} =>
         /\ lifecycle'[id].state \in {lifecycle[id].state, "Dropped"}
         /\ lifecycle'[id].flags \ {"dropped"} = lifecycle[id].flags \ {"dropped"}
    ]_vars

\* The hand-off a client may rely on.
HandOff == INSTANCE FrameHandOff
             WITH waiting <- queue,
                  taken <- InHand \cup inFlightFrameIds,
                  newest <- IF producer.pc = "idle" THEN latestFrame.frameId
                            ELSE producer.frame.frameId

\* Frames are handed to the consumer oldest first, each once.
ImplementsHandOff == HandOff!Spec

\* Every accepted frame is eventually consumed or failed.
AcceptedFramesCompleted ==
  \A id \in FrameIds :
    lifecycle[id].state = "ReadyForConsumer" ~>
      lifecycle[id].flags \cap {"consumed", "failed"} # {}
=============================================================================
