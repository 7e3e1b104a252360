----------------------------- MODULE SharedScene -----------------------------
(***************************************************************************)
(* The central voxel scene and its blocking read/write access              *)
(* (src/model/src/scene: SharedScene, SceneAccessLease, SharedSceneState). *)
(* Each action is one critical section of SharedSceneState::mutex, except  *)
(* NotifyAll, which runs after the releasing thread has unlocked it.       *)
(***************************************************************************)
EXTENDS Naturals, FiniteSets

CONSTANTS
  Readers,     \* threads that call SharedScene::read()
  Writers,     \* threads that call SharedScene::write()
  Policies,    \* the read policies a scene may be constructed with
  MaxVersion   \* bound on the number of publications

\* The code gives every call its own stack, so a thread is either inside read()
\* or inside write(); threads are finitely many.
ASSUME ThreadsAssumption ==
  /\ IsFiniteSet(Readers)
  /\ IsFiniteSet(Writers)
  /\ Readers \cap Writers = {}

ASSUME PoliciesAssumption == Policies \subseteq {"Greedy", "Balanced"}

ASSUME MaxVersionAssumption == MaxVersion \in Nat

VARIABLES
  readPolicy,                  \* chosen by the constructor, never changed
  activeReaderCount,
  waitingWriterCount,
  writerActive,
  blockedPriorityReadPending,
  sceneVersionId,
  pc,                          \* where each thread stands in its call
  leaseVersion,                \* SceneAccessLease::m_version of its last lease
  uncommitted,                 \* the voxel scene holds changes not published
  promised                     \* history: the readers whose entry raised
                               \* blockedPriorityReadPending and that still wait

lockVars == <<activeReaderCount, waitingWriterCount, writerActive,
              blockedPriorityReadPending>>

vars == <<readPolicy, lockVars, sceneVersionId, pc, leaseVersion, uncommitted,
          promised>>

Threads == Readers \cup Writers

(***************************************************************************)
(* "blocked": inside condition.wait, not notified; "awake": notified (or   *)
(* woken spuriously), about to re-evaluate its predicate under the mutex;  *)
(* "notifying": the lease destructor between its unlock and notify_all.    *)
(***************************************************************************)
PCs == {"idle", "blocked", "awake", "reading", "writing", "notifying"}

Reading == {r \in Readers : pc[r] = "reading"}
Writing == {w \in Writers : pc[w] = "writing"}
Waiting(S) == {t \in S : pc[t] \in {"blocked", "awake"}}

MoveTo(t, place) == pc' = [pc EXCEPT ![t] = place]

Init ==
  /\ readPolicy \in Policies
  /\ activeReaderCount = 0
  /\ waitingWriterCount = 0
  /\ writerActive = FALSE
  /\ blockedPriorityReadPending = FALSE
  /\ sceneVersionId = 0
  /\ pc = [t \in Threads |-> "idle"]
  /\ leaseVersion = [t \in Threads |-> 0]
  /\ uncommitted = FALSE
  /\ promised = {}

-----------------------------------------------------------------------------
(* Admission predicates: what the condition variable waits for.            *)

\* Mutants: readers under every policy like Greedy ones; Balanced without the
\* priority of a reader that blocked behind a writer.
AlwaysGreedy == ~writerActive
BalancedWithoutPriority ==
  ~writerActive /\ (readPolicy = "Balanced" => waitingWriterCount = 0)

CanAcquireRead ==
  /\ ~writerActive
  /\ readPolicy = "Balanced" =>
       waitingWriterCount = 0 \/ blockedPriorityReadPending

\* Mutants: admission that forgets one of its conditions.
WriteDespiteReaders == ~writerActive /\ ~blockedPriorityReadPending
WriteDespiteBlockedRead == ~writerActive /\ activeReaderCount = 0

CanAcquireWrite ==
  /\ ~writerActive
  /\ activeReaderCount = 0
  /\ ~blockedPriorityReadPending

-----------------------------------------------------------------------------
(* SharedScene::read()                                                     *)

GrantRead(r) ==
  /\ CanAcquireRead
  /\ activeReaderCount' = activeReaderCount + 1
  /\ leaseVersion' = [leaseVersion EXCEPT ![r] = sceneVersionId]
  /\ blockedPriorityReadPending' = FALSE
  /\ promised' = promised \ {r}
  /\ MoveTo(r, "reading")
  /\ UNCHANGED <<readPolicy, waitingWriterCount, writerActive, sceneVersionId,
                 uncommitted>>

\* The call enters the mutex; only here, and only behind an active writer, does
\* it raise blockedPriorityReadPending.
ReadEnter(r) ==
  /\ pc[r] = "idle"
  /\ \/ GrantRead(r)
     \/ /\ ~CanAcquireRead
        /\ blockedPriorityReadPending' =
             (blockedPriorityReadPending \/ writerActive)
        /\ promised' = IF writerActive THEN promised \cup {r} ELSE promised
        /\ MoveTo(r, "blocked")
        /\ UNCHANGED <<readPolicy, activeReaderCount, waitingWriterCount,
                       writerActive, sceneVersionId, leaseVersion, uncommitted>>

ReadRetry(r) ==
  /\ pc[r] = "awake"
  /\ \/ GrantRead(r)
     \/ /\ ~CanAcquireRead
        /\ MoveTo(r, "blocked")
        /\ UNCHANGED <<readPolicy, lockVars, sceneVersionId, leaseVersion,
                       uncommitted, promised>>

\* Mutant: the destructor returns without notify_all.
SilentReadRelease(r) ==
  /\ pc[r] = "reading"
  /\ activeReaderCount' = activeReaderCount - 1
  /\ MoveTo(r, "idle")
  /\ UNCHANGED <<readPolicy, waitingWriterCount, writerActive,
                 blockedPriorityReadPending, sceneVersionId, leaseVersion,
                 uncommitted, promised>>

ReadRelease(r) ==
  /\ pc[r] = "reading"
  /\ activeReaderCount' =
       IF activeReaderCount > 0 THEN activeReaderCount - 1 ELSE activeReaderCount
  /\ MoveTo(r, "notifying")
  /\ UNCHANGED <<readPolicy, waitingWriterCount, writerActive,
                 blockedPriorityReadPending, sceneVersionId, leaseVersion,
                 uncommitted, promised>>

-----------------------------------------------------------------------------
(* SharedScene::write()                                                    *)

GrantWrite(w) ==
  /\ CanAcquireWrite
  /\ writerActive' = TRUE
  /\ leaseVersion' = [leaseVersion EXCEPT ![w] = sceneVersionId]
  /\ MoveTo(w, "writing")
  /\ UNCHANGED <<readPolicy, activeReaderCount, blockedPriorityReadPending,
                 sceneVersionId, uncommitted, promised>>

\* waitingWriterCount is raised on entry and lowered on admission: a writer that
\* need not wait leaves it as it found it.
WriteEnter(w) ==
  /\ pc[w] = "idle"
  /\ \/ GrantWrite(w) /\ UNCHANGED waitingWriterCount
     \/ /\ ~CanAcquireWrite
        /\ waitingWriterCount' = waitingWriterCount + 1
        /\ MoveTo(w, "blocked")
        /\ UNCHANGED <<readPolicy, activeReaderCount, writerActive,
                       blockedPriorityReadPending, sceneVersionId, leaseVersion,
                       uncommitted, promised>>

WriteRetry(w) ==
  /\ pc[w] = "awake"
  /\ \/ GrantWrite(w) /\ waitingWriterCount' = waitingWriterCount - 1
     \/ /\ ~CanAcquireWrite
        /\ MoveTo(w, "blocked")
        /\ UNCHANGED <<readPolicy, lockVars, sceneVersionId, leaseVersion,
                       uncommitted, promised>>

\* The holder changes the scene in place through SceneWriteAccess::scene().
Mutate(w) ==
  /\ pc[w] = "writing"
  /\ uncommitted' = TRUE
  /\ UNCHANGED <<readPolicy, lockVars, sceneVersionId, pc, leaseVersion, promised>>

Publish(w) ==
  /\ pc[w] = "writing"
  /\ sceneVersionId < MaxVersion
  /\ sceneVersionId' = sceneVersionId + 1
  /\ leaseVersion' = [leaseVersion EXCEPT ![w] = sceneVersionId + 1]
  /\ uncommitted' = FALSE
  /\ UNCHANGED <<readPolicy, lockVars, pc, promised>>

WriteRelease(w) ==
  /\ pc[w] = "writing"
  /\ writerActive' = FALSE
  /\ MoveTo(w, "notifying")
  /\ UNCHANGED <<readPolicy, activeReaderCount, waitingWriterCount,
                 blockedPriorityReadPending, sceneVersionId, leaseVersion,
                 uncommitted, promised>>

-----------------------------------------------------------------------------
(* The condition variable                                                  *)

NotifyAll(t) ==
  /\ pc[t] = "notifying"
  /\ pc' = [u \in Threads |-> IF u = t THEN "idle"
                              ELSE IF pc[u] = "blocked" THEN "awake" ELSE pc[u]]
  /\ UNCHANGED <<readPolicy, lockVars, sceneVersionId, leaseVersion, uncommitted,
                 promised>>

\* std::condition_variable::wait may return without a notification.
SpuriousWake(t) ==
  /\ pc[t] = "blocked"
  /\ MoveTo(t, "awake")
  /\ UNCHANGED <<readPolicy, lockVars, sceneVersionId, leaseVersion, uncommitted,
                 promised>>

-----------------------------------------------------------------------------
ReaderStep(r) == ReadEnter(r) \/ ReadRetry(r) \/ ReadRelease(r)

WriterStep(w) ==
  WriteEnter(w) \/ WriteRetry(w) \/ Mutate(w) \/ Publish(w) \/ WriteRelease(w)

Next ==
  \/ \E r \in Readers : ReaderStep(r)
  \/ \E w \in Writers : WriterStep(w)
  \/ \E t \in Threads : NotifyAll(t) \/ SpuriousWake(t)

Spec == Init /\ [][Next]_vars

(***************************************************************************)
(* A thread that is runnable gets to run: a woken thread re-evaluates its  *)
(* predicate, a holder's render or integration ends, and the destructor    *)
(* reaches notify_all.  No thread is obliged to ask for a lease, and no    *)
(* progress may depend on a spurious wakeup.                               *)
(***************************************************************************)
Fairness ==
  /\ \A r \in Readers : WF_vars(ReadRetry(r)) /\ WF_vars(ReadRelease(r))
  /\ \A w \in Writers : WF_vars(WriteRetry(w)) /\ WF_vars(WriteRelease(w))
  /\ \A t \in Threads : WF_vars(NotifyAll(t))

FairSpec == Spec /\ Fairness

-----------------------------------------------------------------------------
(* Properties                                                              *)

TypeOK ==
  /\ readPolicy \in Policies
  /\ activeReaderCount \in Nat
  /\ waitingWriterCount \in Nat
  /\ writerActive \in BOOLEAN
  /\ blockedPriorityReadPending \in BOOLEAN
  /\ sceneVersionId \in 0..MaxVersion
  /\ pc \in [Threads -> PCs]
  /\ leaseVersion \in [Threads -> 0..MaxVersion]
  /\ uncommitted \in BOOLEAN
  /\ promised \subseteq Readers

\* The two counters and the flag the admission predicates read are exactly the
\* threads that hold and wait: no path through acquire and release, with however
\* many wakeups in between, leaks or double-counts one
\* (SceneAccessLease.cpp:33-42, 56, 71-74).
CountersMatchThreads ==
  /\ activeReaderCount = Cardinality(Reading)
  /\ waitingWriterCount = Cardinality(Waiting(Writers))
  /\ writerActive <=> Writing # {}

\* A write lease excludes every other lease (SharedScene.hpp:32-36).
MutualExclusion ==
  \A w \in Writing : Reading = {} /\ Writing = {w}

\* For as long as a thread holds a lease, the version the lease shows is the
\* published one: no publication happens under a reader, and a writer's handle
\* follows its own publications (SharedScene.cpp:47-50).
LeaseVersionIsPublished ==
  \A t \in Reading \cup Writing : leaseVersion[t] = sceneVersionId

\* No lost wakeup: a thread that sleeps although its predicate holds is one that a
\* notify_all still to come will wake.  Acquisitions change the predicates and
\* notify nobody (SceneAccessLease.cpp:56-59, 73-77); only releases do.
NoLostWakeup ==
  (\/ CanAcquireRead /\ \E r \in Readers : pc[r] = "blocked"
   \/ CanAcquireWrite /\ \E w \in Writers : pc[w] = "blocked")
     => \E t \in Threads : pc[t] = "notifying"

\* The admission predicates never refuse everybody: when nobody holds the scene
\* and somebody waits, some waiting thread is admissible, whatever
\* blockedPriorityReadPending and waitingWriterCount were left at.
SomeoneAdmissible ==
  (Reading = {} /\ Writing = {} /\ Waiting(Threads) # {}) =>
     \/ CanAcquireRead /\ Waiting(Readers) # {}
     \/ CanAcquireWrite /\ Waiting(Writers) # {}

\* A read that blocked behind an active writer is granted before the next writer
\* (tests/model/scene/SharedScene.cpp:147-149).
BlockedReadBeforeNextWriter ==
  [][Writing = {} /\ Writing' # {} => promised = {}]_vars

\* The README of the API: readers observe the latest committed scene state.
ReadersSeeCommittedState == Reading # {} => ~uncommitted

\* The detailed lock implements the readers-writer lock of SceneLock.
Lock == INSTANCE SceneLock
          WITH reading <- Reading, writing <- Writing,
               committed <- sceneVersionId, visible <- leaseVersion

\* SharedScene's counters, flag and condition variable implement SceneLock.
ImplementsSceneLock == Lock!Spec

\* A blocked reader acquires after the waiting writer releases
\* (tests/model/scene/SharedScene.cpp:437-438): every read() returns.
ReadersEventuallyAdmitted ==
  \A r \in Readers : (r \in Waiting(Readers)) ~> (r \in Reading)

\* Under Greedy the one reader of the system, the viewer, is always admitted,
\* however fast writers come back.
GreedyReaderAdmitted == readPolicy = "Greedy" => ReadersEventuallyAdmitted

\* Under Balanced readers that keep coming back do not shut the writers out.
BalancedWritersAdmitted ==
  readPolicy = "Balanced" => (Waiting(Writers) # {} ~> Writing # {})
=============================================================================
