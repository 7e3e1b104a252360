---------------------------- MODULE MCSharedScene ----------------------------
(* Symmetry of the interchangeable threads, for the safety runs only.      *)
EXTENDS SharedScene, TLC

ThreadSymmetry == Permutations(Readers) \cup Permutations(Writers)
=============================================================================
