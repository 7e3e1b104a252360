----------------------------- MODULE FrameHandOff -----------------------------
(***************************************************************************)
(* What FrameStore promises the ingestor and the builder: a bounded queue  *)
(* of frames with ever newer ids, each handed out once, oldest first, and  *)
(* each completed at most once, after it was handed out.                   *)
(***************************************************************************)
EXTENDS Integers, SequencesExt

CONSTANTS
  MaxReadyFrames,
  MaxFrameId       \* bound on the ids

VARIABLES
  waiting,         \* accepted and not handed out, oldest first
  taken,           \* handed out and not completed
  newest           \* the newest id accepted

vars == <<waiting, taken, newest>>

Init == waiting = <<>> /\ taken = {} /\ newest = 0

Accept(id) ==
  /\ id > newest
  /\ Len(waiting) < MaxReadyFrames
  /\ waiting' = Append(waiting, id)
  /\ newest' = id
  /\ UNCHANGED taken

Take ==
  /\ waiting # <<>>
  /\ \A id \in taken : id < Head(waiting)
  /\ waiting' = Tail(waiting)
  /\ taken' = taken \cup {Head(waiting)}
  /\ UNCHANGED newest

Complete(id) ==
  /\ id \in taken
  /\ taken' = taken \ {id}
  /\ UNCHANGED <<waiting, newest>>

Next ==
  \/ \E id \in 1..MaxFrameId : Accept(id) \/ Complete(id)
  \/ Take

Spec == Init /\ [][Next]_vars
=============================================================================
