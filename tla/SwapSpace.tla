------------------------------ MODULE SwapSpace -----------------------------
(***************************************************************************)
(* What the swap promises the manager: a chunk that is swapped out has as  *)
(* many bytes as it needs, for itself, and keeps them until it is wanted   *)
(* back.  PageFile implements it.                                          *)
(***************************************************************************)
EXTENDS Integers, FiniteSets

CONSTANTS Chunks, Size

VARIABLES bytes,    \* the bytes a chunk has
          kept      \* chunks whose content is, or is about to be, in the swap alone

Init == bytes = [c \in Chunks |-> {}] /\ kept = {}

Disjoint == \A c, d \in Chunks : c # d => bytes[c] \cap bytes[d] = {}

Next ==
    /\ Disjoint'
    /\ \A c \in Chunks :
          \/ bytes'[c] \subseteq bytes[c]
          \/ Cardinality(bytes'[c]) = Size[c]
    /\ \A c \in kept' : Cardinality(bytes'[c]) = Size[c]
    /\ \A c \in kept \cap kept' : bytes'[c] = bytes[c]

Spec == Init /\ [][Next]_<<bytes, kept>>
=============================================================================
