---------------------------- MODULE MCPointerUse ----------------------------
(* Model-checking instance of PointerUse: one chunk of a class, one of numbers. *)
EXTENDS PointerUse, TLC

Symmetry == Permutations(Threads) \cup Permutations(Ptrs) \cup Permutations(Glues)
=============================================================================
