------------------------------ MODULE SceneLock ------------------------------
(***************************************************************************)
(* What SharedScene promises its callers (src/model/include/model/scene):  *)
(* a readers-writer lock over one scene whose committed version moves only *)
(* under the write lease.  There are no counters, no condition variable    *)
(* and no read policy here: a lease is granted in one step, and SharedScene*)
(* is shown to implement it.                                               *)
(***************************************************************************)
EXTENDS Naturals

CONSTANTS
  Readers,     \* threads that call SharedScene::read()
  Writers,     \* threads that call SharedScene::write()
  MaxVersion   \* bound on the number of publications

VARIABLES
  reading,     \* the readers that hold a lease
  writing,     \* the writers that hold a lease
  committed,   \* the last published scene version
  visible      \* the version each thread's last lease shows

vars == <<reading, writing, committed, visible>>

Threads == Readers \cup Writers

Init ==
  /\ reading = {}
  /\ writing = {}
  /\ committed = 0
  /\ visible = [t \in Threads |-> 0]

GrantRead(r) ==
  /\ r \notin reading
  /\ writing = {}
  /\ reading' = reading \cup {r}
  /\ visible' = [visible EXCEPT ![r] = committed]
  /\ UNCHANGED <<writing, committed>>

GrantWrite(w) ==
  /\ reading = {}
  /\ writing = {}
  /\ writing' = {w}
  /\ visible' = [visible EXCEPT ![w] = committed]
  /\ UNCHANGED <<reading, committed>>

Publish(w) ==
  /\ w \in writing
  /\ committed < MaxVersion
  /\ committed' = committed + 1
  /\ visible' = [visible EXCEPT ![w] = committed + 1]
  /\ UNCHANGED <<reading, writing>>

DropRead(r) ==
  /\ r \in reading
  /\ reading' = reading \ {r}
  /\ UNCHANGED <<writing, committed, visible>>

DropWrite(w) ==
  /\ w \in writing
  /\ writing' = {}
  /\ UNCHANGED <<reading, committed, visible>>

Next ==
  \/ \E r \in Readers : GrantRead(r) \/ DropRead(r)
  \/ \E w \in Writers : GrantWrite(w) \/ Publish(w) \/ DropWrite(w)

Spec == Init /\ [][Next]_vars
=============================================================================
