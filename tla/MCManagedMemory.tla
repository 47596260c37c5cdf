-------------------------- MODULE MCManagedMemory --------------------------
(* Instances of ManagedMemory in which all chunks have the same size.       *)
EXTENDS ManagedMemory, TLC

SameSize == [c \in Chunks |-> 5]

Symmetry == Permutations(Threads) \cup Permutations(Chunks) \cup Permutations(Vals)
=============================================================================
