----------------------------- MODULE FrameHistory -----------------------------
(***************************************************************************)
(* The ordered part of FrameHistory                                        *)
(* (src/model/src/frame/state/FrameHistory.cpp):                           *)
(* frames are added at the end and removed wherever they are, the others   *)
(* keeping their order.  The filter is a recursive function rather than    *)
(* the library's SelectSeq, about which nothing can be proved.             *)
(***************************************************************************)
EXTENDS Naturals, Sequences

\* The ids that remove(id) leaves, once called for every id in removed.
Without(ids, removed) ==
  LET kept[i \in 0..Len(ids)] ==
        IF i = 0 THEN <<>>
        ELSE IF ids[i] \in removed THEN kept[i - 1]
        ELSE Append(kept[i - 1], ids[i])
  IN  kept[Len(ids)]
=============================================================================
