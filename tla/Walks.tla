------------------------------- MODULE Walks -------------------------------
(***************************************************************************)
(* Loops along a sequence, for the proofs about the models that write them *)
(* as FoldLeft.  Folds are defined by recursion over the set of positions; *)
(* the lemmas show that this function exists and that its value is where   *)
(* one comes to step by step, so that what holds of a loop can be shown by *)
(* induction on the number of steps.                                       *)
(*                                                                         *)
(* Step(walk, x, a, e) is what the loop named walk makes of a when it      *)
(* meets e; x stands for the other values the loop reads.                  *)
(***************************************************************************)
EXTENDS Sums

CONSTANT Step(_, _, _, _)

\* A set of natural numbers has a least element.
LEMMA MinIs ==
    ASSUME NEW S \in SUBSET Int, S # {}, NEW low \in Int, \A x \in S : x >= low
    PROVE  Min(S) \in S /\ \A y \in S : Min(S) <= y
  <1> DEFINE D == {n \in Nat : low + n \in S}
  <1>1. PICK x \in S : TRUE
    OBVIOUS
  <1>2. x - low \in D
    <2>1. x - low \in Nat /\ low + (x - low) = x
      OBVIOUS
    <2> QED BY <2>1
  <1>3. PICK n \in D : \A m \in D : <<m, n>> \notin OpToRel(<, Nat)
    <2>1. D # {} /\ D \subseteq Nat
      BY <1>2
    <2> HIDE DEF D
    <2> QED BY <2>1, WFMin, NatLessThanWellFounded
  <1>4. n \in Nat /\ low + n \in S
    BY <1>3
  <1>5. ASSUME NEW y \in S PROVE low + n <= y
    <2>1. SUFFICES ASSUME y < low + n PROVE FALSE
      BY <1>4
    <2>2. y - low \in Nat /\ low + (y - low) = y /\ y - low < n
      BY <1>4, <2>1
    <2>3. y - low \in D
      BY <2>2
    <2> HIDE DEF D
    <2> QED BY <1>3, <1>4, <2>2, <2>3 DEF OpToRel
  <1>6. \E z \in S : \A y \in S : z <= y
    BY <1>4, <1>5
  <1> QED BY <1>6 DEF Min

\* A set of integers with an upper bound has a greatest element.
LEMMA MaxIs ==
    ASSUME NEW S \in SUBSET Int, S # {}, NEW high \in Int, \A x \in S : x <= high
    PROVE  Max(S) \in S /\ \A y \in S : Max(S) >= y
  <1> DEFINE D == {n \in Nat : high - n \in S}
  <1>1. PICK x \in S : TRUE
    OBVIOUS
  <1>2. high - x \in D
    <2>1. high - x \in Nat /\ high - (high - x) = x
      OBVIOUS
    <2> QED BY <2>1
  <1>3. PICK n \in D : \A m \in D : <<m, n>> \notin OpToRel(<, Nat)
    <2>1. D # {} /\ D \subseteq Nat
      BY <1>2
    <2> HIDE DEF D
    <2> QED BY <2>1, WFMin, NatLessThanWellFounded
  <1>4. n \in Nat /\ high - n \in S
    BY <1>3
  <1>5. ASSUME NEW y \in S PROVE high - n >= y
    <2>1. SUFFICES ASSUME y > high - n PROVE FALSE
      BY <1>4
    <2>2. high - y \in Nat /\ high - (high - y) = y /\ high - y < n
      BY <1>4, <2>1
    <2>3. high - y \in D
      BY <2>2
    <2> HIDE DEF D
    <2> QED BY <1>3, <1>4, <2>2, <2>3 DEF OpToRel
  <1>6. \E z \in S : \A y \in S : z >= y
    BY <1>4, <1>5
  <1> QED BY <1>6 DEF Max

-----------------------------------------------------------------------------
(* The recursive function *)

\* g is the recursive function behind such a walk along q, on the sets of D.
Walks(g, walk, x, base, q, D) ==
    g = [u \in D |-> IF u = {} THEN base ELSE Step(walk, x, g[u \ {Max(u)}], q[Max(u)])]

\* The greatest of some positions.
LEMMA MaxOfPositions ==
    ASSUME NEW n \in Nat, NEW u \in SUBSET (1..n), u # {}
    PROVE  Max(u) \in u /\ \A y \in u : Max(u) >= y
  <1>1. u \in SUBSET Int /\ n \in Int /\ \A x \in u : x <= n
    OBVIOUS
  <1> QED BY <1>1, MaxIs

\* The recursion is well-founded: there is such a function.
LEMMA WalksExist ==
    ASSUME NEW n \in Nat, NEW walk, NEW x, NEW base, NEW q
    PROVE  \E g : Walks(g, walk, x, base, q, SUBSET (1..n))
  <1> DEFINE G == {k \in Nat : \E g : Walks(g, walk, x, base, q, {u \in SUBSET (1..n) : Cardinality(u) <= k})}
  <1>1. IsFiniteSet(1..n) /\ Cardinality(1..n) \in Nat
        /\ \A u \in SUBSET (1..n) : /\ IsFiniteSet(u) /\ Cardinality(u) \in Nat
                                   /\ Cardinality(u) <= Cardinality(1..n)
    <2>1. IsFiniteSet(1..n)
      BY FS_Interval
    <2>2. \A u \in SUBSET (1..n) : IsFiniteSet(u) /\ Cardinality(u) <= Cardinality(1..n)
      BY <2>1, FS_Subset
    <2> QED BY <2>1, <2>2, FS_CardinalityType
  <1>2. 0 \in G
    <2> DEFINE D == {u \in SUBSET (1..n) : Cardinality(u) <= 0}
               g == [u \in D |-> base]
    <2>1. \A u \in D : u = {}
      BY <1>1, FS_EmptySet
    <2>2. Walks(g, walk, x, base, q, D)
      BY <2>1 DEF Walks
    <2> QED BY <2>2
  <1>3. ASSUME NEW k \in Nat, k \in G PROVE k + 1 \in G
    <2> DEFINE C == {u \in SUBSET (1..n) : Cardinality(u) <= k}
               D == {u \in SUBSET (1..n) : Cardinality(u) <= k + 1}
    <2>1. PICK g : Walks(g, walk, x, base, q, C)
      BY <1>3
    <2> DEFINE h == [u \in D |-> IF u = {} THEN base ELSE Step(walk, x, g[u \ {Max(u)}], q[Max(u)])]
    <2>2. ASSUME NEW u \in D, u # {} PROVE u \ {Max(u)} \in C
      <3>1. Max(u) \in u
        BY <2>2, MaxOfPositions
      <3>2. IsFiniteSet(u) /\ Cardinality(u) \in Nat /\ Cardinality(u) <= k + 1
        BY <1>1
      <3>3. Cardinality(u \ {Max(u)}) = Cardinality(u) - 1
        BY <3>1, <3>2, FS_RemoveElement
      <3>4. u \ {Max(u)} \in SUBSET (1..n)
        BY <2>2
      <3>5. Cardinality(u \ {Max(u)}) <= k
        BY <3>2, <3>3
      <3> QED BY <3>4, <3>5
    <2>3. \A u \in C : u \in D
      BY <1>1
    <2>4. \A u \in C : h[u] = g[u]
      <3> HIDE DEF C, D
      <3> QED BY <2>1, <2>3 DEF Walks
    <2>5. Walks(h, walk, x, base, q, D)
      <3> HIDE DEF C, D
      <3> QED BY <2>2, <2>4 DEF Walks
    <2>6. k + 1 \in Nat /\ \E f : Walks(f, walk, x, base, q, D)
      <3> HIDE DEF h, D
      <3> QED BY <2>5
    <2> QED BY <2>6
  <1>4. Cardinality(1..n) \in G
    <2> HIDE DEF G
    <2> QED BY <1>1, <1>2, <1>3, NumberInduction
  <1>5. {u \in SUBSET (1..n) : Cardinality(u) <= Cardinality(1..n)} = SUBSET (1..n)
    BY <1>1
  <1> QED BY <1>4, <1>5

\* h[i] is what the walk has come to after i steps.
Course(h, walk, x, base, q, n) ==
    h[0] = base /\ \A i \in 1..n : h[i] = Step(walk, x, h[i - 1], q[i])

\* y is where the walk ends.
Arrives(walk, x, base, q, n, y) == \E h : Course(h, walk, x, base, q, n) /\ h[n] = y

\* What it gives for the first i positions is what the walk has come to after i steps.
LEMMA WalkGoes ==
    ASSUME NEW n \in Nat, NEW walk, NEW x, NEW base, NEW q, NEW g,
           Walks(g, walk, x, base, q, SUBSET (1..n))
    PROVE  Arrives(walk, x, base, q, n, g[1..n])
  <1> DEFINE h == [i \in 0..n |-> g[1..i]]
  <1>1. h[0] = base
    <2>1. 1..0 = {} /\ {} \in SUBSET (1..n) /\ 0 \in 0..n
      OBVIOUS
    <2> QED BY <2>1 DEF Walks
  <1>2. ASSUME NEW i \in 1..n PROVE h[i] = Step(walk, x, h[i - 1], q[i])
    <2>1. 1..i \in SUBSET (1..n) /\ 1..i # {} /\ i \in 0..n /\ i - 1 \in 0..n
      OBVIOUS
    <2>2. Max(1..i) = i
      <3>1. Max(1..i) \in 1..i /\ \A y \in 1..i : Max(1..i) >= y
        BY <2>1, MaxOfPositions
      <3> QED BY <2>1, <3>1
    <2>3. (1..i) \ {i} = 1..(i - 1)
      OBVIOUS
    <2>4. g[1..i] = Step(walk, x, g[(1..i) \ {Max(1..i)}], q[Max(1..i)])
      BY <2>1 DEF Walks
    <2> QED BY <2>1, <2>2, <2>3, <2>4
  <1>3. h[n] = g[1..n]
    OBVIOUS
  <1> HIDE DEF h
  <1> QED BY <1>1, <1>2, <1>3 DEF Course, Arrives
=============================================================================
