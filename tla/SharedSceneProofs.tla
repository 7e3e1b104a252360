-------------------------- MODULE SharedSceneProofs --------------------------
(***************************************************************************)
(* Theorems of SharedScene, for any finite sets of readers and writers,    *)
(* both read policies and any bound on the publications.                   *)
(***************************************************************************)
EXTENDS SharedScene, FiniteSetTheorems, TLAPS

\* blockedPriorityReadPending is raised only for a reader that still waits, so
\* it cannot keep the writers out with nobody left to clear it.
PendingHasWaiter ==
  /\ promised \subseteq Waiting(Readers)
  /\ blockedPriorityReadPending => promised # {}

\* The inductive invariant: TypeOK is not inductive without the counters, the
\* counters not without exclusion, and nothing about admission without the flag.
IInv ==
  /\ TypeOK
  /\ CountersMatchThreads
  /\ MutualExclusion
  /\ LeaseVersionIsPublished
  /\ PendingHasWaiter
  /\ NoLostWakeup

-----------------------------------------------------------------------------
(* Counting threads                                                        *)

\* The sets of threads that are counted are finite.
LEMMA FiniteParts ==
  /\ IsFiniteSet(Reading)
  /\ IsFiniteSet(Waiting(Writers))
<1>1. Reading \subseteq Readers /\ Waiting(Writers) \subseteq Writers
  BY DEF Reading, Waiting
<1>2. QED
  BY <1>1, FS_Subset, ThreadsAssumption

\* A set of threads that a step leaves alone keeps its count.
LEMMA CountersStutter ==
  ASSUME CountersMatchThreads,
         Reading' = Reading, Waiting(Writers)' = Waiting(Writers),
         Writing' = Writing,
         UNCHANGED <<activeReaderCount, waitingWriterCount, writerActive>>
  PROVE  CountersMatchThreads'
BY DEF CountersMatchThreads

-----------------------------------------------------------------------------
\* At first nobody holds the scene or waits for it.
LEMMA InitInvariant == Init => IInv
<1> SUFFICES ASSUME Init PROVE IInv
  OBVIOUS
<1>1. TypeOK
  <2>1. sceneVersionId \in 0..MaxVersion /\ leaseVersion \in [Threads -> 0..MaxVersion]
    BY MaxVersionAssumption DEF MaxVersionAssumption, Init
  <2>2. activeReaderCount \in Nat /\ waitingWriterCount \in Nat
    BY DEF Init
  <2>3. pc \in [Threads -> PCs]
    BY DEF Init, PCs
  <2>4. /\ writerActive \in BOOLEAN
        /\ blockedPriorityReadPending \in BOOLEAN
        /\ uncommitted \in BOOLEAN
    BY DEF Init
  <2>5. QED
    BY <2>1, <2>2, <2>3, <2>4 DEF Init, TypeOK
<1>2. Reading = {} /\ Writing = {} /\ Waiting(Writers) = {}
  BY DEF Init, Reading, Writing, Waiting, Threads
<1>3. CountersMatchThreads
  BY <1>2, FS_EmptySet DEF Init, CountersMatchThreads
<1>4. MutualExclusion /\ LeaseVersionIsPublished
  BY <1>2 DEF MutualExclusion, LeaseVersionIsPublished
<1>5. PendingHasWaiter /\ NoLostWakeup
  BY DEF Init, PendingHasWaiter, NoLostWakeup, Threads
<1>6. QED
  BY <1>1, <1>3, <1>4, <1>5 DEF IInv

-----------------------------------------------------------------------------
(* Each kind of step preserves the invariant.                              *)

\* A reader that is let in.
LEMMA GrantReadPreserves ==
  ASSUME IInv, NEW r \in Readers, pc[r] \in {"idle", "awake"}, GrantRead(r)
  PROVE  IInv'
<1> USE DEF IInv
<1>1. r \in Threads /\ r \notin Writers
  BY ThreadsAssumption DEF Threads
<1>2. pc' = [pc EXCEPT ![r] = "reading"] /\ pc \in [Threads -> PCs]
  BY DEF GrantRead, MoveTo, TypeOK
<1>3. /\ Reading' = Reading \cup {r}
      /\ r \notin Reading
      /\ Writing' = Writing
      /\ Waiting(Writers)' = Waiting(Writers)
      /\ Waiting(Readers)' = Waiting(Readers) \ {r}
  BY <1>1, <1>2 DEF Reading, Writing, Waiting, Threads
<1>4. Writing = {}
  BY DEF GrantRead, CanAcquireRead, CountersMatchThreads
<1>5. TypeOK'
  <2>1. /\ activeReaderCount' \in Nat
        /\ pc' \in [Threads -> PCs]
        /\ leaseVersion' \in [Threads -> 0..MaxVersion]
    BY <1>1, <1>2 DEF GrantRead, TypeOK, PCs
  <2>2. QED
    BY <2>1 DEF GrantRead, TypeOK
<1>6. CountersMatchThreads'
  <2>1. Cardinality(Reading') = Cardinality(Reading) + 1
    BY <1>3, FiniteParts, FS_AddElement
  <2>2. QED
    BY <1>3, <2>1 DEF GrantRead, CountersMatchThreads
<1>7. MutualExclusion'
  BY <1>3, <1>4 DEF MutualExclusion
<1>8. LeaseVersionIsPublished'
  BY <1>1, <1>3, <1>4 DEF LeaseVersionIsPublished, GrantRead, TypeOK
<1>9. PendingHasWaiter'
  BY <1>3 DEF PendingHasWaiter, GrantRead
<1>10. NoLostWakeup'
  <2>1. ~CanAcquireWrite'
    BY DEF CanAcquireWrite, GrantRead, TypeOK
  <2>2. ASSUME CanAcquireRead', NEW s \in Readers, pc'[s] = "blocked"
        PROVE  \E t \in Threads : pc'[t] = "notifying"
    <3>1. pc[s] = "blocked"
      BY <1>1, <1>2, <2>2 DEF Threads
    <3>2. PICK t \in Threads : pc[t] = "notifying"
      BY <3>1 DEF NoLostWakeup, GrantRead
    <3>3. pc'[t] = "notifying"
      BY <1>2, <3>2
    <3>4. QED
      BY <3>3
  <2>3. QED
    BY <2>1, <2>2 DEF NoLostWakeup, Threads
<1>11. QED
  BY <1>5, <1>6, <1>7, <1>8, <1>9, <1>10

\* read() refused on entry: the only step that raises the flag.
LEMMA ReadBlocksPreserves ==
  ASSUME IInv, NEW r \in Readers, ReadEnter(r), ~CanAcquireRead
  PROVE  IInv'
<1> USE DEF IInv
<1>1. r \in Threads /\ r \notin Writers
  BY ThreadsAssumption DEF Threads
<1>2. /\ pc[r] = "idle"
      /\ blockedPriorityReadPending' =
           (blockedPriorityReadPending \/ writerActive)
      /\ promised' = IF writerActive THEN promised \cup {r} ELSE promised
      /\ pc' = [pc EXCEPT ![r] = "blocked"]
      /\ UNCHANGED <<readPolicy, activeReaderCount, waitingWriterCount,
                     writerActive, sceneVersionId, leaseVersion, uncommitted>>
  BY DEF ReadEnter, GrantRead, MoveTo
<1>3. /\ Reading' = Reading
      /\ Writing' = Writing
      /\ Waiting(Writers)' = Waiting(Writers)
      /\ Waiting(Readers)' = Waiting(Readers) \cup {r}
  BY <1>1, <1>2 DEF Reading, Writing, Waiting, Threads, TypeOK
<1>4. TypeOK'
  BY <1>1, <1>2 DEF TypeOK, PCs
<1>5. CountersMatchThreads'
  BY <1>2, <1>3, CountersStutter
<1>6. MutualExclusion' /\ LeaseVersionIsPublished'
  BY <1>2, <1>3 DEF MutualExclusion, LeaseVersionIsPublished
<1>7. PendingHasWaiter'
  BY <1>2, <1>3 DEF PendingHasWaiter
<1>8. NoLostWakeup'
  <2>1. ~CanAcquireRead'
    BY <1>2 DEF CanAcquireRead, TypeOK
  <2>2. ASSUME CanAcquireWrite', NEW w \in Writers, pc'[w] = "blocked"
        PROVE  \E t \in Threads : pc'[t] = "notifying"
    <3>1. CanAcquireWrite /\ pc[w] = "blocked"
      BY <1>1, <1>2, <2>2 DEF CanAcquireWrite, TypeOK, Threads
    <3>2. PICK t \in Threads : pc[t] = "notifying"
      BY <3>1 DEF NoLostWakeup
    <3>3. QED
      BY <1>2, <3>2 DEF TypeOK
  <2>3. QED
    BY <2>1, <2>2 DEF NoLostWakeup, Threads
<1>9. QED
  BY <1>4, <1>5, <1>6, <1>7, <1>8

\* A woken thread whose predicate is false goes back to sleep.
LEMMA BackToSleepPreserves ==
  ASSUME IInv, NEW t \in Threads, pc[t] = "awake",
         t \in Readers => ~CanAcquireRead,
         t \in Writers => ~CanAcquireWrite,
         MoveTo(t, "blocked"),
         UNCHANGED <<readPolicy, lockVars, sceneVersionId, leaseVersion,
                     uncommitted, promised>>
  PROVE  IInv'
<1> USE DEF IInv
<1>1. pc' = [pc EXCEPT ![t] = "blocked"] /\ pc \in [Threads -> PCs]
  BY DEF MoveTo, TypeOK
<1>2. /\ Reading' = Reading
      /\ Writing' = Writing
      /\ Waiting(Writers)' = Waiting(Writers)
      /\ Waiting(Readers)' = Waiting(Readers)
  BY <1>1 DEF Reading, Writing, Waiting, Threads
<1>3. TypeOK'
  <2>1. pc' \in [Threads -> PCs]
    BY <1>1 DEF PCs
  <2>2. QED
    BY <2>1 DEF TypeOK, lockVars
<1>4. CountersMatchThreads'
  BY <1>2, CountersStutter DEF lockVars
<1>5. MutualExclusion' /\ LeaseVersionIsPublished' /\ PendingHasWaiter'
  BY <1>2 DEF MutualExclusion, LeaseVersionIsPublished, PendingHasWaiter, lockVars
<1>6. NoLostWakeup'
  <2>1. /\ CanAcquireRead' <=> CanAcquireRead
        /\ CanAcquireWrite' <=> CanAcquireWrite
    BY DEF CanAcquireRead, CanAcquireWrite, lockVars
  <2>2. \A u \in Threads : u # t => pc'[u] = pc[u]
    BY <1>1
  <2>3. (\E u \in Threads : pc[u] = "notifying")
           => \E u \in Threads : pc'[u] = "notifying"
    BY <2>2
  <2>4. QED
    BY <2>1, <2>2, <2>3 DEF NoLostWakeup, Threads
<1>7. QED
  BY <1>3, <1>4, <1>5, <1>6

\* A reader that leaves.
LEMMA ReadReleasePreserves ==
  ASSUME IInv, NEW r \in Readers, ReadRelease(r)
  PROVE  IInv'
<1> USE DEF IInv
<1>1. r \in Threads /\ r \notin Writers
  BY ThreadsAssumption DEF Threads, ThreadsAssumption
<1>2. pc[r] = "reading" /\ pc' = [pc EXCEPT ![r] = "notifying"]
  BY DEF ReadRelease, MoveTo
<1>3. /\ Reading' = Reading \ {r}
      /\ r \in Reading
      /\ Writing' = Writing
      /\ Waiting(Writers)' = Waiting(Writers)
      /\ Waiting(Readers)' = Waiting(Readers)
  BY <1>1, <1>2 DEF Reading, Writing, Waiting, Threads, TypeOK
<1>4. /\ Cardinality(Reading') = Cardinality(Reading) - 1
      /\ Cardinality(Reading) \in Nat
  BY <1>3, FiniteParts, FS_RemoveElement, FS_CardinalityType
<1>5. activeReaderCount > 0
  <2>1. Cardinality(Reading) # 0
    BY <1>3, FiniteParts, FS_EmptySet
  <2>2. QED
    BY <1>4, <2>1 DEF CountersMatchThreads
<1>6. TypeOK'
  <2>1. activeReaderCount' \in Nat
    BY <1>5 DEF ReadRelease, TypeOK
  <2>2. pc' \in [Threads -> PCs]
    BY <1>1, <1>2 DEF TypeOK, PCs
  <2>3. QED
    BY <2>1, <2>2 DEF ReadRelease, TypeOK
<1>7. CountersMatchThreads'
  BY <1>3, <1>4, <1>5 DEF ReadRelease, CountersMatchThreads
<1>8. MutualExclusion' /\ LeaseVersionIsPublished' /\ PendingHasWaiter'
  BY <1>3 DEF MutualExclusion, LeaseVersionIsPublished, PendingHasWaiter, ReadRelease
<1>9. NoLostWakeup'
  BY <1>1, <1>2 DEF NoLostWakeup, TypeOK
<1>10. QED
  BY <1>6, <1>7, <1>8, <1>9

\* A writer that leaves.
LEMMA WriteReleasePreserves ==
  ASSUME IInv, NEW w \in Writers, WriteRelease(w)
  PROVE  IInv'
<1> USE DEF IInv
<1>1. w \in Threads /\ w \notin Readers
  BY ThreadsAssumption DEF Threads, ThreadsAssumption
<1>2. pc[w] = "writing" /\ pc' = [pc EXCEPT ![w] = "notifying"]
  BY DEF WriteRelease, MoveTo
<1>3. w \in Writing /\ Writing = {w} /\ Reading = {}
  BY <1>2 DEF Writing, MutualExclusion
<1>4. /\ Reading' = {}
      /\ Writing' = {}
      /\ Waiting(Writers)' = Waiting(Writers)
      /\ Waiting(Readers)' = Waiting(Readers)
  BY <1>1, <1>2, <1>3 DEF Reading, Writing, Waiting, Threads, TypeOK
<1>5. TypeOK'
  <2>1. pc' \in [Threads -> PCs]
    BY <1>1, <1>2 DEF TypeOK, PCs
  <2>2. QED
    BY <2>1 DEF WriteRelease, TypeOK
<1>6. CountersMatchThreads'
  BY <1>3, <1>4 DEF WriteRelease, CountersMatchThreads
<1>7. MutualExclusion' /\ LeaseVersionIsPublished' /\ PendingHasWaiter'
  BY <1>4 DEF MutualExclusion, LeaseVersionIsPublished, PendingHasWaiter, WriteRelease
<1>8. NoLostWakeup'
  BY <1>1, <1>2 DEF NoLostWakeup, TypeOK
<1>9. QED
  BY <1>5, <1>6, <1>7, <1>8

\* A writer that is let in.
LEMMA GrantWritePreserves ==
  ASSUME IInv, NEW w \in Writers, GrantWrite(w),
         \/ pc[w] = "idle" /\ UNCHANGED waitingWriterCount
         \/ pc[w] = "awake" /\ waitingWriterCount' = waitingWriterCount - 1
  PROVE  IInv'
<1> USE DEF IInv
<1>1. w \in Threads /\ w \notin Readers
  BY ThreadsAssumption DEF Threads, ThreadsAssumption
<1>2. pc' = [pc EXCEPT ![w] = "writing"] /\ pc \in [Threads -> PCs]
  BY DEF GrantWrite, MoveTo, TypeOK
<1>3. Reading = {} /\ Writing = {}
  BY FiniteParts, FS_EmptySet DEF GrantWrite, CanAcquireWrite, CountersMatchThreads
<1>4. /\ Reading' = {}
      /\ Writing' = {w}
      /\ Waiting(Writers)' = Waiting(Writers) \ {w}
      /\ Waiting(Readers)' = Waiting(Readers)
  BY <1>1, <1>2, <1>3 DEF Reading, Writing, Waiting, Threads
<1>5. /\ waitingWriterCount' = Cardinality(Waiting(Writers)')
      /\ waitingWriterCount' \in Nat
  <2>1. CASE pc[w] = "idle" /\ UNCHANGED waitingWriterCount
    BY <1>4, <2>1 DEF Waiting, CountersMatchThreads, TypeOK
  <2>2. CASE pc[w] = "awake" /\ waitingWriterCount' = waitingWriterCount - 1
    <3>1. w \in Waiting(Writers)
      BY <2>2 DEF Waiting
    <3>2. /\ Cardinality(Waiting(Writers)') = Cardinality(Waiting(Writers)) - 1
          /\ IsFiniteSet(Waiting(Writers)')
      BY <1>4, <3>1, FiniteParts, FS_RemoveElement
    <3>3. Cardinality(Waiting(Writers)') \in Nat
      BY <3>2, FS_CardinalityType
    <3>4. QED
      BY <2>2, <3>2, <3>3 DEF CountersMatchThreads
  <2>3. QED
    BY <2>1, <2>2
<1>6. TypeOK'
  <2>1. /\ pc' \in [Threads -> PCs]
        /\ leaseVersion' \in [Threads -> 0..MaxVersion]
    BY <1>1, <1>2 DEF GrantWrite, TypeOK, PCs
  <2>2. QED
    BY <1>5, <2>1 DEF GrantWrite, TypeOK
<1>7. CountersMatchThreads'
  BY <1>3, <1>4, <1>5 DEF GrantWrite, CountersMatchThreads
<1>8. MutualExclusion' /\ PendingHasWaiter'
  BY <1>4 DEF MutualExclusion, PendingHasWaiter, GrantWrite
<1>9. LeaseVersionIsPublished'
  BY <1>1, <1>4 DEF LeaseVersionIsPublished, GrantWrite, TypeOK
<1>10. NoLostWakeup'
  BY DEF NoLostWakeup, GrantWrite, CanAcquireRead, CanAcquireWrite
<1>11. QED
  BY <1>6, <1>7, <1>8, <1>9, <1>10

\* A writer that has to wait.
LEMMA WriteBlocksPreserves ==
  ASSUME IInv, NEW w \in Writers, WriteEnter(w), ~CanAcquireWrite
  PROVE  IInv'
<1> USE DEF IInv
<1>1. w \in Threads /\ w \notin Readers
  BY ThreadsAssumption DEF Threads, ThreadsAssumption
<1>2. /\ pc[w] = "idle"
      /\ waitingWriterCount' = waitingWriterCount + 1
      /\ pc' = [pc EXCEPT ![w] = "blocked"]
      /\ UNCHANGED <<readPolicy, activeReaderCount, writerActive,
                     blockedPriorityReadPending, sceneVersionId, leaseVersion,
                     uncommitted, promised>>
  BY DEF WriteEnter, GrantWrite, MoveTo
<1>3. /\ Reading' = Reading
      /\ Writing' = Writing
      /\ Waiting(Writers)' = Waiting(Writers) \cup {w}
      /\ w \notin Waiting(Writers)
      /\ Waiting(Readers)' = Waiting(Readers)
  BY <1>1, <1>2 DEF Reading, Writing, Waiting, Threads, TypeOK
<1>4. TypeOK'
  <2>1. pc' \in [Threads -> PCs] /\ waitingWriterCount' \in Nat
    BY <1>1, <1>2 DEF TypeOK, PCs
  <2>2. QED
    BY <1>2, <2>1 DEF TypeOK
<1>5. CountersMatchThreads'
  <2>1. Cardinality(Waiting(Writers)') = Cardinality(Waiting(Writers)) + 1
    BY <1>3, FiniteParts, FS_AddElement
  <2>2. QED
    BY <1>2, <1>3, <2>1 DEF CountersMatchThreads
<1>6. MutualExclusion' /\ LeaseVersionIsPublished' /\ PendingHasWaiter'
  BY <1>2, <1>3 DEF MutualExclusion, LeaseVersionIsPublished, PendingHasWaiter
<1>7. NoLostWakeup'
  <2>1. ~CanAcquireWrite'
    BY <1>2 DEF CanAcquireWrite
  <2>2. CanAcquireRead' => CanAcquireRead
    BY <1>2 DEF CanAcquireRead, TypeOK
  <2>3. \A u \in Threads : u # w => pc'[u] = pc[u]
    BY <1>2 DEF TypeOK
  <2>4. (\E u \in Threads : pc[u] = "notifying")
           => \E u \in Threads : pc'[u] = "notifying"
    BY <1>2, <2>3
  <2>5. QED
    BY <1>1, <2>1, <2>2, <2>3, <2>4 DEF NoLostWakeup, Threads
<1>8. QED
  BY <1>4, <1>5, <1>6, <1>7

\* A writer that publishes a version.
LEMMA PublishPreserves ==
  ASSUME IInv, NEW w \in Writers, Publish(w)
  PROVE  IInv'
<1> USE DEF IInv
<1>1. w \in Threads /\ w \in Writing /\ Writing = {w} /\ Reading = {}
  BY DEF Publish, Writing, MutualExclusion, Threads
<1>2. /\ Reading' = Reading
      /\ Writing' = Writing
      /\ Waiting(Writers)' = Waiting(Writers)
      /\ Waiting(Readers)' = Waiting(Readers)
  BY DEF Reading, Writing, Waiting, Publish
<1>3. sceneVersionId' \in 0..MaxVersion
  BY MaxVersionAssumption DEF MaxVersionAssumption, Publish, TypeOK
<1>4. TypeOK'
  <2>1. leaseVersion' \in [Threads -> 0..MaxVersion]
    BY <1>1, <1>3 DEF Publish, TypeOK
  <2>2. QED
    BY <1>3, <2>1 DEF Publish, TypeOK, lockVars
<1>5. CountersMatchThreads'
  BY <1>2, CountersStutter DEF Publish, lockVars
<1>6. MutualExclusion' /\ PendingHasWaiter'
  BY <1>2 DEF MutualExclusion, PendingHasWaiter, Publish, lockVars
<1>7. LeaseVersionIsPublished'
  BY <1>1, <1>2 DEF LeaseVersionIsPublished, Publish, TypeOK
<1>8. NoLostWakeup'
  BY DEF NoLostWakeup, CanAcquireRead, CanAcquireWrite, Publish, lockVars
<1>9. QED
  BY <1>4, <1>5, <1>6, <1>7, <1>8

\* A notification wakes all that wait.
LEMMA NotifyAllPreserves ==
  ASSUME IInv, NEW t \in Threads, NotifyAll(t)
  PROVE  IInv'
<1> USE DEF IInv
<1>1. /\ pc[t] = "notifying"
      /\ pc' = [u \in Threads |-> IF u = t THEN "idle"
                   ELSE IF pc[u] = "blocked" THEN "awake" ELSE pc[u]]
      /\ UNCHANGED <<readPolicy, lockVars, sceneVersionId, leaseVersion,
                     uncommitted, promised>>
  BY DEF NotifyAll
<1>2. /\ Reading' = Reading
      /\ Writing' = Writing
      /\ Waiting(Writers)' = Waiting(Writers)
      /\ Waiting(Readers)' = Waiting(Readers)
  BY <1>1 DEF Reading, Writing, Waiting, Threads
<1>3. TypeOK'
  <2>1. pc' \in [Threads -> PCs]
    BY <1>1 DEF TypeOK, PCs
  <2>2. QED
    BY <1>1, <2>1 DEF TypeOK, lockVars
<1>4. CountersMatchThreads'
  BY <1>1, <1>2, CountersStutter DEF lockVars
<1>5. MutualExclusion' /\ LeaseVersionIsPublished' /\ PendingHasWaiter'
  BY <1>1, <1>2 DEF MutualExclusion, LeaseVersionIsPublished, PendingHasWaiter, lockVars
<1>6. \A u \in Threads : pc'[u] # "blocked"
  BY <1>1
<1>7. NoLostWakeup'
  BY <1>6 DEF NoLostWakeup, Threads
<1>8. QED
  BY <1>3, <1>4, <1>5, <1>7

\* A thread that wakes for no reason.
LEMMA SpuriousWakePreserves ==
  ASSUME IInv, NEW t \in Threads, SpuriousWake(t)
  PROVE  IInv'
<1> USE DEF IInv
<1>1. /\ pc[t] = "blocked"
      /\ pc' = [pc EXCEPT ![t] = "awake"]
      /\ pc \in [Threads -> PCs]
      /\ UNCHANGED <<readPolicy, lockVars, sceneVersionId, leaseVersion,
                     uncommitted, promised>>
  BY DEF SpuriousWake, MoveTo, TypeOK
<1>2. /\ Reading' = Reading
      /\ Writing' = Writing
      /\ Waiting(Writers)' = Waiting(Writers)
      /\ Waiting(Readers)' = Waiting(Readers)
  BY <1>1 DEF Reading, Writing, Waiting, Threads
<1>3. TypeOK'
  <2>1. pc' \in [Threads -> PCs]
    BY <1>1 DEF PCs
  <2>2. QED
    BY <1>1, <2>1 DEF TypeOK, lockVars
<1>4. CountersMatchThreads'
  BY <1>1, <1>2, CountersStutter DEF lockVars
<1>5. MutualExclusion' /\ LeaseVersionIsPublished' /\ PendingHasWaiter'
  BY <1>1, <1>2 DEF MutualExclusion, LeaseVersionIsPublished, PendingHasWaiter, lockVars
<1>6. NoLostWakeup'
  <2>1. /\ CanAcquireRead' <=> CanAcquireRead
        /\ CanAcquireWrite' <=> CanAcquireWrite
    BY <1>1 DEF CanAcquireRead, CanAcquireWrite, lockVars
  <2>2. \A u \in Threads : u # t => pc'[u] = pc[u]
    BY <1>1
  <2>3. (\E u \in Threads : pc[u] = "notifying")
           => \E u \in Threads : pc'[u] = "notifying"
    BY <1>1, <2>2
  <2>4. \A u \in Threads : pc'[u] = "blocked" => pc[u] = "blocked"
    BY <1>1
  <2>5. QED
    BY <2>1, <2>3, <2>4 DEF NoLostWakeup, Threads
<1>7. QED
  BY <1>3, <1>4, <1>5, <1>6

-----------------------------------------------------------------------------
(* The invariant                                                           *)

\* Every step of a reader preserves the invariant.
LEMMA ReaderStepPreserves ==
  ASSUME IInv, NEW r \in Readers, ReaderStep(r)
  PROVE  IInv'
<1>1. r \in Threads /\ r \notin Writers
  BY ThreadsAssumption DEF Threads, ThreadsAssumption
<1>2. CASE ReadEnter(r)
  <2>1. CASE CanAcquireRead
    BY <1>2, <2>1, GrantReadPreserves DEF ReadEnter
  <2>2. CASE ~CanAcquireRead
    BY <1>2, <2>2, ReadBlocksPreserves
  <2>3. QED
    BY <2>1, <2>2
<1>3. CASE ReadRetry(r)
  <2>1. CASE GrantRead(r)
    BY <1>3, <2>1, GrantReadPreserves DEF ReadRetry
  <2>2. CASE ~GrantRead(r)
    BY <1>1, <1>3, <2>2, BackToSleepPreserves DEF ReadRetry
  <2>3. QED
    BY <2>1, <2>2
<1>4. CASE ReadRelease(r)
  BY <1>4, ReadReleasePreserves
<1>5. QED
  BY <1>2, <1>3, <1>4 DEF ReaderStep

\* Every step of a writer preserves the invariant.
LEMMA WriterStepPreserves ==
  ASSUME IInv, NEW w \in Writers, WriterStep(w)
  PROVE  IInv'
<1>1. w \in Threads /\ w \notin Readers
  BY ThreadsAssumption DEF Threads, ThreadsAssumption
<1>2. CASE WriteEnter(w)
  <2>1. CASE CanAcquireWrite
    BY <1>2, <2>1, GrantWritePreserves DEF WriteEnter
  <2>2. CASE ~CanAcquireWrite
    BY <1>2, <2>2, WriteBlocksPreserves
  <2>3. QED
    BY <2>1, <2>2
<1>3. CASE WriteRetry(w)
  <2>1. CASE GrantWrite(w)
    <3>1. pc[w] = "awake" /\ waitingWriterCount' = waitingWriterCount - 1
      BY <1>3, <2>1 DEF WriteRetry, GrantWrite
    <3>2. QED
      BY <2>1, <3>1, GrantWritePreserves
  <2>2. CASE ~GrantWrite(w)
    BY <1>1, <1>3, <2>2, BackToSleepPreserves DEF WriteRetry
  <2>3. QED
    BY <2>1, <2>2
<1>4. CASE Mutate(w)
  BY <1>4 DEF Mutate, lockVars, IInv, TypeOK, CountersMatchThreads,
    MutualExclusion, LeaseVersionIsPublished, PendingHasWaiter, NoLostWakeup,
    CanAcquireRead, CanAcquireWrite, Reading, Writing, Waiting
<1>5. CASE Publish(w)
  BY <1>5, PublishPreserves
<1>6. CASE WriteRelease(w)
  BY <1>6, WriteReleasePreserves
<1>7. QED
  BY <1>2, <1>3, <1>4, <1>5, <1>6 DEF WriterStep

\* Every step preserves the invariant.
LEMMA StepPreserves == IInv /\ [Next]_vars => IInv'
<1> SUFFICES ASSUME IInv, [Next]_vars PROVE IInv'
  OBVIOUS
<1>1. CASE \E r \in Readers : ReaderStep(r)
  BY <1>1, ReaderStepPreserves
<1>2. CASE \E w \in Writers : WriterStep(w)
  BY <1>2, WriterStepPreserves
<1>3. CASE \E t \in Threads : NotifyAll(t) \/ SpuriousWake(t)
  BY <1>3, NotifyAllPreserves, SpuriousWakePreserves
<1>4. CASE UNCHANGED vars
  BY <1>4 DEF vars, lockVars, IInv, TypeOK, CountersMatchThreads,
    MutualExclusion, LeaseVersionIsPublished, PendingHasWaiter, NoLostWakeup,
    CanAcquireRead, CanAcquireWrite, Reading, Writing, Waiting
<1>5. QED
  BY <1>1, <1>2, <1>3, <1>4 DEF Next

\* The strengthened invariant holds in every reachable state.
THEOREM Invariance == Spec => []IInv
BY InitInvariant, StepPreserves, PTL DEF Spec

\* The variables keep their types; the decrement of waitingWriterCount never
\* wraps below zero.
THEOREM TypeCorrect == Spec => []TypeOK
BY Invariance, PTL DEF IInv

\* The counters and the flag the admission predicates read are exact.
THEOREM CountersExact == Spec => []CountersMatchThreads
BY Invariance, PTL DEF IInv

\* A write lease excludes every other lease.
THEOREM Exclusion == Spec => []MutualExclusion
BY Invariance, PTL DEF IInv

\* A lease shows the published version for as long as it is held.
THEOREM LeaseVersion == Spec => []LeaseVersionIsPublished
BY Invariance, PTL DEF IInv

\* Releases are the only steps that have to notify.
THEOREM WakeupsSuffice == Spec => []NoLostWakeup
BY Invariance, PTL DEF IInv

\* The admission predicates alone cannot leave every waiting thread refused.
LEMMA InvariantAdmits == IInv => SomeoneAdmissible
<1> SUFFICES ASSUME IInv, Reading = {}, Writing = {}, Waiting(Threads) # {}
             PROVE  \/ CanAcquireRead /\ Waiting(Readers) # {}
                    \/ CanAcquireWrite /\ Waiting(Writers) # {}
  BY DEF SomeoneAdmissible
<1>1. ~writerActive /\ activeReaderCount = 0
  BY FS_EmptySet DEF IInv, CountersMatchThreads
<1>2. CASE blockedPriorityReadPending
  BY <1>1, <1>2 DEF CanAcquireRead, IInv, PendingHasWaiter
<1>3. CASE ~blockedPriorityReadPending /\ Waiting(Writers) # {}
  BY <1>1, <1>3 DEF CanAcquireWrite
<1>4. CASE Waiting(Writers) = {}
  <2>1. waitingWriterCount = 0
    BY <1>4, FS_EmptySet DEF IInv, CountersMatchThreads
  <2>2. Waiting(Readers) # {}
    BY <1>4 DEF Waiting, Threads
  <2>3. QED
    BY <1>1, <2>1, <2>2 DEF CanAcquireRead
<1>5. QED
  BY <1>2, <1>3, <1>4

\* When nobody holds the scene and somebody waits, some waiting thread is admissible,
\* whatever the flag and the count of waiting writers were left at.
THEOREM NobodyStuck == Spec => []SomeoneAdmissible
BY Invariance, InvariantAdmits, PTL

-----------------------------------------------------------------------------
(* Refinement: every step of SharedScene is a step of SceneLock or leaves  *)
(* its state alone.                                                        *)

\* At first the lock is free.
LEMMA InitRefines == Init => Lock!Init
BY DEF Init, Lock!Init, Reading, Writing, Threads, Lock!Threads

\* A reader's step is a step of the lock, or changes nothing of it.
LEMMA ReaderStepRefines ==
  ASSUME IInv, NEW r \in Readers, ReaderStep(r)
  PROVE  [Lock!Next]_(Lock!vars)
<1> USE DEF IInv
<1>1. r \in Threads /\ r \notin Writers /\ pc \in [Threads -> PCs]
  BY ThreadsAssumption DEF Threads, ThreadsAssumption, TypeOK
<1>2. CASE GrantRead(r) /\ pc[r] \in {"idle", "awake"}
  <2>1. /\ Reading' = Reading \cup {r}
        /\ r \notin Reading
        /\ Writing' = Writing
    BY <1>1, <1>2 DEF GrantRead, MoveTo, Reading, Writing, Threads
  <2>2. Writing = {}
    BY <1>2 DEF GrantRead, CanAcquireRead, CountersMatchThreads
  <2>3. Lock!GrantRead(r)
    BY <1>2, <2>1, <2>2 DEF Lock!GrantRead, GrantRead
  <2>4. QED
    BY <2>3 DEF Lock!Next
<1>3. CASE ReadRelease(r)
  <2>1. /\ Reading' = Reading \ {r}
        /\ r \in Reading
        /\ Writing' = Writing
    BY <1>1, <1>3 DEF ReadRelease, MoveTo, Reading, Writing, Threads
  <2>2. Lock!DropRead(r)
    BY <1>3, <2>1 DEF Lock!DropRead, ReadRelease
  <2>3. QED
    BY <2>2 DEF Lock!Next
<1>4. CASE ~GrantRead(r) /\ (ReadEnter(r) \/ ReadRetry(r))
  <2>1. /\ pc[r] \in {"idle", "awake"}
        /\ pc' = [pc EXCEPT ![r] = "blocked"]
        /\ UNCHANGED <<sceneVersionId, leaseVersion>>
    BY <1>4 DEF ReadEnter, ReadRetry, MoveTo
  <2>2. Reading' = Reading /\ Writing' = Writing
    BY <1>1, <2>1 DEF Reading, Writing, Threads
  <2>3. QED
    BY <2>1, <2>2 DEF Lock!vars
<1>5. QED
  BY <1>2, <1>3, <1>4 DEF ReaderStep, ReadEnter, ReadRetry

\* A writer's step is a step of the lock, or changes nothing of it.
LEMMA WriterStepRefines ==
  ASSUME IInv, NEW w \in Writers, WriterStep(w)
  PROVE  [Lock!Next]_(Lock!vars)
<1> USE DEF IInv
<1>1. w \in Threads /\ w \notin Readers /\ pc \in [Threads -> PCs]
  BY ThreadsAssumption DEF Threads, ThreadsAssumption, TypeOK
<1>2. CASE GrantWrite(w)
  <2>1. Reading = {} /\ Writing = {}
    BY <1>2, FiniteParts, FS_EmptySet
    DEF GrantWrite, CanAcquireWrite, CountersMatchThreads
  <2>2. Reading' = Reading /\ Writing' = {w}
    BY <1>1, <1>2, <2>1 DEF GrantWrite, MoveTo, Reading, Writing, Threads
  <2>3. Lock!GrantWrite(w)
    BY <1>2, <2>1, <2>2 DEF Lock!GrantWrite, GrantWrite
  <2>4. QED
    BY <2>3 DEF Lock!Next
<1>3. CASE ~GrantWrite(w) /\ (WriteEnter(w) \/ WriteRetry(w))
  <2>1. /\ pc[w] \in {"idle", "awake"}
        /\ pc' = [pc EXCEPT ![w] = "blocked"]
        /\ UNCHANGED <<sceneVersionId, leaseVersion>>
    BY <1>3 DEF WriteEnter, WriteRetry, MoveTo
  <2>2. Reading' = Reading /\ Writing' = Writing
    BY <1>1, <2>1 DEF Reading, Writing, Threads
  <2>3. QED
    BY <2>1, <2>2 DEF Lock!vars
<1>4. CASE Mutate(w)
  BY <1>4 DEF Mutate, Lock!vars, Reading, Writing
<1>5. CASE Publish(w)
  <2>1. w \in Writing /\ Reading' = Reading /\ Writing' = Writing
    BY <1>5 DEF Publish, Reading, Writing
  <2>2. Lock!Publish(w)
    BY <1>5, <2>1 DEF Lock!Publish, Publish
  <2>3. QED
    BY <2>2 DEF Lock!Next
<1>6. CASE WriteRelease(w)
  <2>1. w \in Writing /\ Writing = {w}
    BY <1>6 DEF WriteRelease, Writing, MutualExclusion
  <2>2. Reading' = Reading /\ Writing' = {}
    BY <1>1, <1>6, <2>1 DEF WriteRelease, MoveTo, Reading, Writing, Threads
  <2>3. Lock!DropWrite(w)
    BY <1>6, <2>1, <2>2 DEF Lock!DropWrite, WriteRelease
  <2>4. QED
    BY <2>3 DEF Lock!Next
<1>7. QED
  BY <1>2, <1>3, <1>4, <1>5, <1>6 DEF WriterStep

\* Every step is a step of the lock, or changes nothing of it.
LEMMA StepRefines == IInv /\ [Next]_vars => [Lock!Next]_(Lock!vars)
<1> SUFFICES ASSUME IInv, [Next]_vars PROVE [Lock!Next]_(Lock!vars)
  OBVIOUS
<1>1. CASE \E r \in Readers : ReaderStep(r)
  BY <1>1, ReaderStepRefines
<1>2. CASE \E w \in Writers : WriterStep(w)
  BY <1>2, WriterStepRefines
<1>3. ASSUME NEW t \in Threads, NotifyAll(t) \/ SpuriousWake(t)
      PROVE  UNCHANGED Lock!vars
  <2>1. UNCHANGED <<sceneVersionId, leaseVersion>>
    BY <1>3 DEF NotifyAll, SpuriousWake
  <2>2. \A u \in Threads :
          /\ pc'[u] = "reading" <=> pc[u] = "reading"
          /\ pc'[u] = "writing" <=> pc[u] = "writing"
    BY <1>3 DEF NotifyAll, SpuriousWake, MoveTo, IInv, TypeOK
  <2>3. Reading' = Reading /\ Writing' = Writing
    BY <2>2 DEF Reading, Writing, Threads
  <2>4. QED
    BY <2>1, <2>3 DEF Lock!vars
<1>4. CASE UNCHANGED vars
  BY <1>4 DEF vars, Lock!vars, Reading, Writing
<1>5. QED
  BY <1>1, <1>2, <1>3, <1>4 DEF Next

\* SharedScene implements the readers-writer lock its callers are promised.
THEOREM Refinement == Spec => ImplementsSceneLock
<1>1. Spec => Lock!Init /\ [][Lock!Next]_(Lock!vars)
  BY Invariance, InitRefines, StepRefines, PTL DEF Spec
<1>2. QED
  BY <1>1 DEF ImplementsSceneLock, Lock!Spec

-----------------------------------------------------------------------------
(* The priority of a blocked read, with one reader: the application's case *)

OneReader == \A r, s \in Readers : r = s

\* With one reader the flag is down only when no promise is open.
PromiseFlagged == promised # {} => blockedPriorityReadPending

\* With one reader, no step lowers the flag while a promise is open.
LEMMA PromiseStep ==
  ASSUME OneReader, IInv, PromiseFlagged, [Next]_vars
  PROVE  PromiseFlagged'
<1> USE DEF PromiseFlagged
<1>1. ASSUME NEW r \in Readers, ReaderStep(r)
      PROVE  PromiseFlagged'
  <2>1. CASE GrantRead(r)
    <3>1. promised \subseteq {r}
      BY DEF OneReader, IInv, TypeOK
    <3>2. QED
      BY <2>1, <3>1 DEF GrantRead
  <2>2. CASE ~GrantRead(r)
    BY <1>1, <2>2 DEF ReaderStep, ReadEnter, ReadRetry, ReadRelease, lockVars
  <2>3. QED
    BY <2>1, <2>2
<1>2. ASSUME NEW w \in Writers, WriterStep(w)
      PROVE  PromiseFlagged'
  BY <1>2 DEF WriterStep, WriteEnter, WriteRetry, GrantWrite, Mutate, Publish,
    WriteRelease, lockVars
<1>3. ASSUME NEW t \in Threads, NotifyAll(t) \/ SpuriousWake(t)
      PROVE  PromiseFlagged'
  BY <1>3 DEF NotifyAll, SpuriousWake, lockVars
<1>4. CASE UNCHANGED vars
  BY <1>4 DEF vars, lockVars
<1>5. QED
  BY <1>1, <1>2, <1>3, <1>4 DEF Next

\* Only GrantWrite takes the write lease, and it refuses while the flag is up.
LEMMA WriteTakenUnflagged ==
  ASSUME IInv, [Next]_vars, Writing = {}, Writing' # {}
  PROVE  ~blockedPriorityReadPending
<1>1. ASSUME NEW r \in Readers, ReaderStep(r)
      PROVE  FALSE
  <2>1. /\ r \in Threads /\ r \notin Writers
        /\ \E place \in PCs : pc' = [pc EXCEPT ![r] = place]
    BY <1>1, ThreadsAssumption
    DEF Threads, ThreadsAssumption, ReaderStep, ReadEnter, ReadRetry,
      ReadRelease, GrantRead, MoveTo, PCs
  <2>2. Writing' = Writing
    BY <2>1 DEF Writing, IInv, TypeOK, Threads
  <2>3. QED
    BY <2>2
<1>2. ASSUME NEW w \in Writers, WriterStep(w)
      PROVE  ~blockedPriorityReadPending
  <2>1. CASE GrantWrite(w)
    BY <2>1 DEF GrantWrite, CanAcquireWrite
  <2>2. CASE ~GrantWrite(w)
    <3>1. pc[w] # "writing"
      BY DEF Writing
    <3>2. pc' = [pc EXCEPT ![w] = "blocked"]
      BY <1>2, <2>2, <3>1 DEF WriterStep, WriteEnter, WriteRetry, Mutate,
        Publish, WriteRelease, MoveTo
    <3>3. Writing' = Writing
      BY <3>1, <3>2 DEF Writing, IInv, TypeOK, Threads
    <3>4. QED
      BY <3>3
  <2>3. QED
    BY <2>1, <2>2
<1>3. ASSUME NEW t \in Threads, NotifyAll(t) \/ SpuriousWake(t)
      PROVE  FALSE
  <2>1. \A u \in Threads : pc'[u] = "writing" => pc[u] = "writing"
    BY <1>3 DEF NotifyAll, SpuriousWake, MoveTo, IInv, TypeOK
  <2>2. QED
    BY <2>1 DEF Writing, Threads
<1>4. CASE UNCHANGED vars
  BY <1>4 DEF vars, Writing
<1>5. QED
  BY <1>1, <1>2, <1>3, <1>4 DEF Next

\* With one reader, a read that blocked behind an active writer is granted
\* before the next writer, under both policies and with any number of writers.
THEOREM BlockedReadPriority ==
  OneReader => (Spec => BlockedReadBeforeNextWriter)
<1> SUFFICES ASSUME OneReader PROVE Spec => BlockedReadBeforeNextWriter
  OBVIOUS
<1>1. Init => PromiseFlagged
  BY DEF Init, PromiseFlagged
<1>2. IInv /\ PromiseFlagged /\ [Next]_vars => PromiseFlagged'
  BY PromiseStep
<1>3. IInv /\ PromiseFlagged /\ [Next]_vars
        => [Writing = {} /\ Writing' # {} => promised = {}]_vars
  BY WriteTakenUnflagged DEF PromiseFlagged
<1>4. QED
  BY <1>1, <1>2, <1>3, Invariance, PTL DEF Spec, BlockedReadBeforeNextWriter
=============================================================================
