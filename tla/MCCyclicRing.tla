---------------------------- MODULE MCCyclicRing ----------------------------
(* Model-checking instance of CyclicRing: chunks of nearly all the memory, of about half  *)
(* of it, and small ones.                                                                 *)
EXTENDS CyclicRing, TLC

CONSTANTS Huge, Large, Small

Sizes == [c \in Huge |-> 20] @@ [c \in Large |-> 10] @@ [c \in Small |-> 1]

Mode(a, p, n) == [asynchronous |-> a, preemptiveSwapIn |-> p, most |-> n]

\* managedFileSwap without guesses; managedDummySwap without and with them.
PlainOrDummy == {Mode(TRUE, FALSE, 4), Mode(FALSE, FALSE, 4), Mode(FALSE, TRUE, 4)}

\* managedFileSwap with guesses, the default.
FileSwapGuesses == {Mode(TRUE, TRUE, 4)}

\* With guesses the ring is followed up to the step in which a corner case happens: it may be
\* torn afterwards, and there is no telling where the walks of the code go.
Followed == Orderly

\* The ring is not torn by a deletion.
NoneDeleted == "deleteSole" \notin corners

Symmetry == Permutations(Huge) \cup Permutations(Large) \cup Permutations(Small) \cup Permutations(Threads)
=============================================================================
