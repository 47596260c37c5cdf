------------------------------- MODULE Sums -------------------------------
(***************************************************************************)
(* Sums over finite sets, for the proofs about the byte counters of the    *)
(* manager and the use counts of adhereTo.                                 *)
(*                                                                         *)
(* MapThenSumSet takes the elements of a set in the order CHOOSE gives     *)
(* them, by a recursive function.  The lemmas say what does not depend on  *)
(* that order: how a sum changes when an element joins or leaves the set,  *)
(* or when the summed function changes at one element.                     *)
(*                                                                         *)
(* Induction is well-founded induction over the subsets of a finite set,   *)
(* carried out on the set of counterexamples.                              *)
(***************************************************************************)
EXTENDS Integers, FiniteSets, FiniteSetsExt, FiniteSetTheorems, TLAPS

SumOver(f, S) == MapThenSumSet(LAMBDA x : f[x], S)

First(S) == CHOOSE x \in S : TRUE

\* g is the recursive function behind the sum of f, on the sets of D.
Sums(g, f, D) ==
    g = [s \in D |-> IF s = {} THEN 0 ELSE f[First(s)] + g[s \ {First(s)}]]

-----------------------------------------------------------------------------
(* Induction *)

\* Every subset of S is in G if a set is in G whenever its proper subsets are.
LEMMA SubsetInduction ==
    ASSUME NEW S, IsFiniteSet(S), NEW G,
           \A T \in SUBSET S : (\A U \in SUBSET T : U # T => U \in G) => T \in G
    PROVE  \A T \in SUBSET S : T \in G
  <1> DEFINE Bad == (SUBSET S) \ G
  <1>1. IsWellFoundedOn(StrictSubsetOrdering(S), SUBSET S)
    BY FS_StrictSubsetOrderingWellFounded, FS_FiniteSubsetsOfFinite
  <1>2. SUFFICES ASSUME Bad # {} PROVE FALSE
    OBVIOUS
  <1>3. PICK T \in Bad : \A U \in Bad : <<U, T>> \notin StrictSubsetOrdering(S)
    <2> HIDE DEF Bad
    <2>1. Bad \subseteq SUBSET S
      BY DEF Bad
    <2> QED BY <1>1, <1>2, <2>1, WFMin
  <1>4. ASSUME NEW U \in SUBSET T, U # T
        PROVE  U \in G
    <2>1. T \in SUBSET S /\ U \in SUBSET S
      BY <1>3
    <2>2. <<U, T>> \in StrictSubsetOrdering(S)
      BY <1>4, <2>1 DEF StrictSubsetOrdering
    <2> QED BY <1>3, <2>1, <2>2
  <1> QED BY <1>3, <1>4

\* Every natural number is in G if 0 is and n + 1 is whenever n is.
LEMMA NumberInduction ==
    ASSUME NEW G, 0 \in G, \A n \in Nat : n \in G => n + 1 \in G
    PROVE  \A n \in Nat : n \in G
  <1> DEFINE Bad == Nat \ G
  <1>1. SUFFICES ASSUME Bad # {} PROVE FALSE
    OBVIOUS
  <1>2. PICK n \in Bad : \A m \in Bad : <<m, n>> \notin OpToRel(<, Nat)
    <2> HIDE DEF Bad
    <2>1. Bad \subseteq Nat
      BY DEF Bad
    <2> QED BY <1>1, <2>1, WFMin, NatLessThanWellFounded
  <1>3. n - 1 \in Bad
    <2>1. n \in Nat /\ n # 0 /\ n \notin G
      BY <1>2
    <2>2. n - 1 \in Nat /\ (n - 1) + 1 = n
      BY <2>1
    <2> QED BY <2>1, <2>2
  <1>4. <<n - 1, n>> \in OpToRel(<, Nat)
    BY <1>2, <1>3 DEF OpToRel
  <1> QED BY <1>2, <1>3, <1>4

-----------------------------------------------------------------------------
(* The recursive function *)

\* The recursion is well-founded: there is such a function.
LEMMA SumsExists ==
    ASSUME NEW S, IsFiniteSet(S), NEW f
    PROVE  \E g : Sums(g, f, SUBSET S)
  <1> DEFINE Small(n) == {s \in SUBSET S : Cardinality(s) <= n}
             G == {n \in Nat : \E g : Sums(g, f, Small(n))}
  <1>1. \A s \in SUBSET S : IsFiniteSet(s) /\ Cardinality(s) \in Nat
    BY FS_Subset, FS_CardinalityType
  <1>2. 0 \in G
    <2> DEFINE g == [s \in Small(0) |-> 0]
    <2>1. \A s \in Small(0) : s = {}
      BY <1>1, FS_EmptySet
    <2>2. Sums(g, f, Small(0))
      BY <2>1 DEF Sums
    <2> QED BY <2>2
  <1>3. ASSUME NEW n \in Nat, n \in G
        PROVE  n + 1 \in G
    <2>1. PICK g : Sums(g, f, Small(n))
      BY <1>3
    <2> DEFINE h == [s \in Small(n + 1) |->
                        IF s = {} THEN 0 ELSE f[First(s)] + g[s \ {First(s)}]]
    <2>2. \A s \in Small(n + 1) : s # {} => s \ {First(s)} \in Small(n)
      <3>1. ASSUME NEW s \in Small(n + 1), s # {}
            PROVE  s \ {First(s)} \in Small(n)
        <4>1. First(s) \in s
          BY <3>1 DEF First
        <4>2. IsFiniteSet(s) /\ Cardinality(s) \in Nat /\ Cardinality(s) <= n + 1
          BY <1>1
        <4>3. Cardinality(s \ {First(s)}) = Cardinality(s) - 1
          BY <4>1, <4>2, FS_RemoveElement
        <4> QED BY <4>2, <4>3
      <3> QED BY <3>1
    <2>3. \A s \in Small(n) : s \in Small(n + 1)
      BY <1>1
    <2>4. \A s \in Small(n) : h[s] = g[s]
      <3> HIDE DEF Small
      <3> QED BY <2>1, <2>3 DEF Sums
    <2>5. Sums(h, f, Small(n + 1))
      <3> HIDE DEF Small
      <3> QED BY <2>2, <2>4 DEF Sums
    <2> QED BY <2>5
  <1>4. Cardinality(S) \in G
    <2> HIDE DEF G
    <2> QED BY <1>1, <1>2, <1>3, NumberInduction
  <1>5. Small(Cardinality(S)) = SUBSET S
    BY FS_Subset
  <1> QED BY <1>4, <1>5

\* The recursion has one solution on the subsets of both domains.
LEMMA SumsAgree ==
    ASSUME NEW S, IsFiniteSet(S), NEW T \in SUBSET S, NEW f, NEW g, NEW h,
           Sums(g, f, SUBSET T), Sums(h, f, SUBSET S)
    PROVE  g[T] = h[T]
  <1> DEFINE G == {s \in SUBSET T : g[s] = h[s]}
  <1>1. IsFiniteSet(T)
    BY FS_Subset
  <1>2. ASSUME NEW s \in SUBSET T, \A u \in SUBSET s : u # s => u \in G
        PROVE  s \in G
    <2>1. CASE s = {}
      BY <2>1 DEF Sums
    <2>2. CASE s # {}
      <3>1. First(s) \in s
        BY <2>2 DEF First
      <3>2. g[s \ {First(s)}] = h[s \ {First(s)}]
        BY <1>2, <3>1
      <3>3. s \in SUBSET S
        OBVIOUS
      <3> QED BY <2>2, <3>2, <3>3 DEF Sums
    <2> QED BY <2>1, <2>2
  <1>3. \A s \in SUBSET T : s \in G
    <2> HIDE DEF G
    <2> QED BY <1>1, <1>2, SubsetInduction
  <1> QED BY <1>3

\* A sum is what the recursive function gives.
LEMMA SumIsSums ==
    ASSUME NEW S, IsFiniteSet(S), NEW f, NEW g, Sums(g, f, SUBSET S)
    PROVE  \A T \in SUBSET S : SumOver(f, T) = g[T]
  <1> SUFFICES ASSUME NEW T \in SUBSET S
               PROVE  SumOver(f, T) = g[T]
    OBVIOUS
  <1>1. SumOver(f, T) = (CHOOSE h : Sums(h, f, SUBSET T))[T]
    BY DEF SumOver, MapThenSumSet, MapThenFoldSet, Sums, First
  <1>2. IsFiniteSet(T)
    BY FS_Subset
  <1>3. PICK h : h = CHOOSE k : Sums(k, f, SUBSET T)
    OBVIOUS
  <1>4. Sums(h, f, SUBSET T)
    BY <1>2, <1>3, SumsExists
  <1> QED BY <1>1, <1>3, <1>4, SumsAgree

-----------------------------------------------------------------------------
(* Laws of sums *)

\* The sum over no element.
LEMMA SumEmpty ==
    ASSUME NEW f
    PROVE  SumOver(f, {}) = 0
  <1>1. IsFiniteSet({})
    BY FS_EmptySet
  <1>2. PICK g : Sums(g, f, SUBSET {})
    BY <1>1, SumsExists
  <1>3. g[{}] = 0 /\ {} \in SUBSET {}
    BY <1>2 DEF Sums
  <1> QED BY <1>1, <1>2, <1>3, SumIsSums

\* A sum of integers is an integer, and a sum of natural numbers is one.
LEMMA SumType ==
    ASSUME NEW S, IsFiniteSet(S), NEW f
    PROVE  /\ (\A x \in S : f[x] \in Int) => SumOver(f, S) \in Int
           /\ (\A x \in S : f[x] \in Nat) => SumOver(f, S) \in Nat
  <1>1. PICK g : Sums(g, f, SUBSET S)
    BY SumsExists
  <1>2. ASSUME NEW N, 0 \in N, \A a, b \in N : a + b \in N, \A x \in S : f[x] \in N
        PROVE  SumOver(f, S) \in N
    <2> DEFINE G == {T \in SUBSET S : g[T] \in N}
    <2>1. ASSUME NEW T \in SUBSET S, \A U \in SUBSET T : U # T => U \in G
          PROVE  T \in G
      <3>1. CASE T = {}
        BY <1>1, <1>2, <3>1 DEF Sums
      <3>2. CASE T # {}
        <4>1. First(T) \in T
          BY <3>2 DEF First
        <4>2. g[T \ {First(T)}] \in N
          BY <2>1, <4>1
        <4>3. g[T] = f[First(T)] + g[T \ {First(T)}]
          BY <1>1, <3>2 DEF Sums
        <4> QED BY <1>2, <4>1, <4>2, <4>3
      <3> QED BY <3>1, <3>2
    <2>2. S \in G
      <3> HIDE DEF G
      <3> QED BY <2>1, SubsetInduction
    <2> QED BY <1>1, <2>2, SumIsSums
  <1>3. (\A x \in S : f[x] \in Int) => SumOver(f, S) \in Int
    <2>1. 0 \in Int /\ \A a, b \in Int : a + b \in Int
      OBVIOUS
    <2> QED BY <1>2, <2>1
  <1>4. (\A x \in S : f[x] \in Nat) => SumOver(f, S) \in Nat
    <2>1. 0 \in Nat /\ \A a, b \in Nat : a + b \in Nat
      OBVIOUS
    <2> QED BY <1>2, <2>1
  <1> QED BY <1>3, <1>4

\* The element CHOOSE takes first can be taken out of the sum.
LEMMA SumFirst ==
    ASSUME NEW S, IsFiniteSet(S), S # {}, NEW f
    PROVE  First(S) \in S /\ SumOver(f, S) = f[First(S)] + SumOver(f, S \ {First(S)})
  <1>1. PICK g : Sums(g, f, SUBSET S)
    BY SumsExists
  <1>2. First(S) \in S
    BY DEF First
  <1>3. g[S] = f[First(S)] + g[S \ {First(S)}]
    BY <1>1 DEF Sums
  <1> QED BY <1>1, <1>2, <1>3, SumIsSums

\* So can every other.
LEMMA SumRemove ==
    ASSUME NEW S, IsFiniteSet(S), NEW f, \A x \in S : f[x] \in Int, NEW x \in S
    PROVE  SumOver(f, S \ {x}) = SumOver(f, S) - f[x]
  <1> DEFINE G == {T \in SUBSET S : \A y \in T : SumOver(f, T) = f[y] + SumOver(f, T \ {y})}
  <1>1. \A T \in SUBSET S : IsFiniteSet(T) /\ SumOver(f, T) \in Int
    BY FS_Subset, SumType
  <1>2. ASSUME NEW T \in SUBSET S, \A U \in SUBSET T : U # T => U \in G
        PROVE  T \in G
    <2>1. SUFFICES ASSUME NEW y \in T PROVE SumOver(f, T) = f[y] + SumOver(f, T \ {y})
      OBVIOUS
    <2>2. PICK z \in T : SumOver(f, T) = f[z] + SumOver(f, T \ {z})
      BY <1>1, SumFirst
    <2>3. CASE y = z
      BY <2>2, <2>3
    <2>4. CASE y # z
      <3>1. T \ {z} \in G /\ T \ {y} \in G
        BY <1>2
      <3>2. PICK R \in SUBSET S : R = (T \ {y}) \ {z} /\ R = (T \ {z}) \ {y}
        OBVIOUS
      <3>3. SumOver(f, T \ {z}) = f[y] + SumOver(f, R)
        BY <2>4, <3>1, <3>2
      <3>4. SumOver(f, T \ {y}) = f[z] + SumOver(f, R)
        BY <2>4, <3>1, <3>2
      <3>5. f[y] \in Int /\ f[z] \in Int /\ SumOver(f, R) \in Int
        BY <1>1
      <3> HIDE DEF G
      <3> QED BY <2>2, <3>3, <3>4, <3>5
    <2> QED BY <2>3, <2>4
  <1>3. S \in G
    <2> HIDE DEF G
    <2> QED BY <1>2, SubsetInduction
  <1>4. SumOver(f, S) \in Int /\ SumOver(f, S \ {x}) \in Int /\ f[x] \in Int
    BY <1>1
  <1> QED BY <1>3, <1>4

\* An element that joins adds its value.
LEMMA SumAdd ==
    ASSUME NEW S, IsFiniteSet(S), NEW f, \A y \in S : f[y] \in Int,
           NEW x, x \notin S, f[x] \in Int
    PROVE  SumOver(f, S \cup {x}) = SumOver(f, S) + f[x]
  <1> DEFINE T == S \cup {x}
  <1>1. IsFiniteSet(T)
    BY FS_AddElement
  <1>2. x \in T /\ T \ {x} = S /\ \A y \in T : f[y] \in Int
    OBVIOUS
  <1>3. SumOver(f, T) \in Int
    BY <1>1, <1>2, SumType
  <1>4. SumOver(f, T \ {x}) = SumOver(f, T) - f[x]
    <2> HIDE DEF T
    <2> QED BY <1>1, <1>2, SumRemove
  <1>5. SumOver(f, S) = SumOver(f, T) - f[x]
    <2> HIDE DEF T
    <2> QED BY <1>2, <1>4
  <1> QED BY <1>3, <1>5

\* Only the values at the elements count.
LEMMA SumSame ==
    ASSUME NEW S, IsFiniteSet(S), NEW f, NEW g, \A x \in S : f[x] = g[x]
    PROVE  SumOver(f, S) = SumOver(g, S)
  <1> DEFINE G == {T \in SUBSET S : SumOver(f, T) = SumOver(g, T)}
  <1>1. ASSUME NEW T \in SUBSET S, \A U \in SUBSET T : U # T => U \in G
        PROVE  T \in G
    <2>1. IsFiniteSet(T)
      BY FS_Subset
    <2>2. CASE T = {}
      BY <2>2, SumEmpty
    <2>3. CASE T # {}
      <3>1. /\ First(T) \in T
            /\ SumOver(f, T) = f[First(T)] + SumOver(f, T \ {First(T)})
            /\ SumOver(g, T) = g[First(T)] + SumOver(g, T \ {First(T)})
        BY <2>1, <2>3, SumFirst
      <3>2. T \ {First(T)} \in G
        BY <1>1, <3>1
      <3> QED BY <3>1, <3>2
    <2> QED BY <2>2, <2>3
  <1>2. S \in G
    <2> HIDE DEF G
    <2> QED BY <1>1, SubsetInduction
  <1> QED BY <1>2

\* The sum over two sets that share nothing.
LEMMA SumUnion ==
    ASSUME NEW S, IsFiniteSet(S), NEW T \in SUBSET S, NEW f, \A x \in S : f[x] \in Int
    PROVE  SumOver(f, S) = SumOver(f, T) + SumOver(f, S \ T)
  <1> DEFINE G == {U \in SUBSET T : SumOver(f, S \ (T \ U)) = SumOver(f, U) + SumOver(f, S \ T)}
  <1>1. IsFiniteSet(T) /\ \A U \in SUBSET S : IsFiniteSet(U) /\ SumOver(f, U) \in Int
    BY FS_Subset, SumType
  <1>2. ASSUME NEW U \in SUBSET T, \A V \in SUBSET U : V # U => V \in G
        PROVE  U \in G
    <2>1. CASE U = {}
      <3>1. S \ (T \ U) = S \ T /\ S \ T \in SUBSET S
        BY <2>1
      <3> QED BY <1>1, <2>1, <3>1, SumEmpty
    <2>2. CASE U # {}
      <3>1. PICK x \in U : TRUE
        BY <2>2
      <3> DEFINE V == U \ {x}
                 W == S \ (T \ U)
      <3>2. V \in G
        BY <1>2, <3>1
      <3>3. S \ (T \ V) = W \ {x} /\ x \in W
        BY <3>1
      <3>4. W \in SUBSET S /\ V \in SUBSET S /\ U \in SUBSET S /\ S \ T \in SUBSET S
        OBVIOUS
      <3>5. SumOver(f, W \ {x}) = SumOver(f, W) - f[x]
        BY <1>1, <3>3, <3>4, SumRemove
      <3>6. SumOver(f, V) = SumOver(f, U) - f[x]
        BY <1>1, <3>1, <3>4, SumRemove
      <3>7. SumOver(f, W \ {x}) = SumOver(f, V) + SumOver(f, S \ T)
        BY <3>2, <3>3
      <3>8. /\ SumOver(f, W) \in Int /\ SumOver(f, U) \in Int /\ SumOver(f, S \ T) \in Int
            /\ f[x] \in Int /\ SumOver(f, W \ {x}) \in Int /\ SumOver(f, V) \in Int
        <4>1. W \ {x} \in SUBSET S
          OBVIOUS
        <4> QED BY <1>1, <3>1, <3>4, <4>1
      <3>9. SumOver(f, W) = SumOver(f, U) + SumOver(f, S \ T)
        <4> HIDE DEF V, W
        <4> QED BY <3>5, <3>6, <3>7, <3>8
      <3> QED BY <3>9
    <2> QED BY <2>1, <2>2
  <1>3. T \in G
    <2> HIDE DEF G
    <2> QED BY <1>1, <1>2, SubsetInduction
  <1>4. S \ (T \ T) = S
    OBVIOUS
  <1> QED BY <1>3, <1>4

\* A sum of natural numbers over part of a set is at most the sum over all of it.
LEMMA SumMonotone ==
    ASSUME NEW S, IsFiniteSet(S), NEW T \in SUBSET S, NEW f, \A x \in S : f[x] \in Nat
    PROVE  SumOver(f, T) <= SumOver(f, S) /\ SumOver(f, S \ T) = SumOver(f, S) - SumOver(f, T)
  <1>1. \A U \in SUBSET S : SumOver(f, U) \in Nat
    BY FS_Subset, SumType
  <1>2. SumOver(f, S) = SumOver(f, T) + SumOver(f, S \ T)
    BY SumUnion
  <1>3. SumOver(f, S) \in Nat /\ SumOver(f, T) \in Nat /\ SumOver(f, S \ T) \in Nat
    <2>1. S \ T \in SUBSET S /\ S \in SUBSET S
      OBVIOUS
    <2> QED BY <1>1, <2>1
  <1> QED BY <1>2, <1>3

\* A sum of zeros is zero.
LEMMA SumZero ==
    ASSUME NEW S, IsFiniteSet(S), NEW f, \A x \in S : f[x] = 0
    PROVE  SumOver(f, S) = 0
  <1> DEFINE G == {T \in SUBSET S : SumOver(f, T) = 0}
  <1>1. ASSUME NEW T \in SUBSET S, \A U \in SUBSET T : U # T => U \in G
        PROVE  T \in G
    <2>1. CASE T = {}
      BY <2>1, SumEmpty
    <2>2. CASE T # {}
      <3>1. IsFiniteSet(T)
        BY FS_Subset
      <3>2. First(T) \in T /\ SumOver(f, T) = f[First(T)] + SumOver(f, T \ {First(T)})
        BY <2>2, <3>1, SumFirst
      <3>3. T \ {First(T)} \in G
        BY <1>1, <3>2
      <3> QED BY <3>2, <3>3
    <2> QED BY <2>1, <2>2
  <1> HIDE DEF G
  <1>2. S \in G
    BY <1>1, SubsetInduction
  <1> QED BY <1>2 DEF G

\* What is zero can be left out of a sum.
LEMMA SumSupport ==
    ASSUME NEW S, IsFiniteSet(S), NEW T \in SUBSET S, NEW f, \A x \in S : f[x] \in Int,
           \A x \in S \ T : f[x] = 0
    PROVE  SumOver(f, S) = SumOver(f, T)
  <1>1. IsFiniteSet(T) /\ IsFiniteSet(S \ T)
    BY FS_Subset
  <1>2. SumOver(f, S \ T) = 0
    BY <1>1, SumZero
  <1>3. SumOver(f, T) \in Int
    BY <1>1, SumType
  <1>4. SumOver(f, S) = SumOver(f, T) + SumOver(f, S \ T)
    BY SumUnion
  <1> QED BY <1>2, <1>3, <1>4

\* The sum of a function that is zero but in one place.
LEMMA SumOnly ==
    ASSUME NEW S, IsFiniteSet(S), NEW f, NEW x \in S, f[x] \in Int,
           \A y \in S : y # x => f[y] = 0
    PROVE  SumOver(f, S) = f[x]
  <1>1. \A y \in S : f[y] \in Int
    OBVIOUS
  <1>2. SumOver(f, S \ {x}) = SumOver(f, S) - f[x]
    BY <1>1, SumRemove
  <1>3. IsFiniteSet(S \ {x})
    BY FS_Subset
  <1>4. SumOver(f, S \ {x}) = 0
    BY <1>3, SumZero
  <1>5. SumOver(f, S) \in Int
    BY <1>1, SumType
  <1> QED BY <1>2, <1>4, <1>5

\* The summed function changes at one element.
LEMMA SumChange ==
    ASSUME NEW S, IsFiniteSet(S), NEW f, NEW g,
           \A y \in S : f[y] \in Int /\ g[y] \in Int,
           NEW x \in S, \A y \in S : y # x => g[y] = f[y]
    PROVE  SumOver(g, S) = SumOver(f, S) - f[x] + g[x]
  <1>1. SumOver(f, S \ {x}) = SumOver(f, S) - f[x] /\ SumOver(g, S \ {x}) = SumOver(g, S) - g[x]
    BY SumRemove
  <1>2. IsFiniteSet(S \ {x})
    BY FS_Subset
  <1>3. SumOver(f, S \ {x}) = SumOver(g, S \ {x})
    BY <1>2, SumSame
  <1>4. SumOver(f, S) \in Int /\ SumOver(g, S) \in Int
    BY SumType
  <1> QED BY <1>1, <1>3, <1>4

\* No member of a sum of naturals exceeds it.
LEMMA SumBounds ==
    ASSUME NEW S, IsFiniteSet(S), NEW f, \A y \in S : f[y] \in Nat, NEW x \in S
    PROVE  SumOver(f, S) \in Nat /\ f[x] <= SumOver(f, S)
  <1>1. SumOver(f, S \ {x}) = SumOver(f, S) - f[x]
    BY SumRemove
  <1>2. IsFiniteSet(S \ {x})
    BY FS_Subset
  <1>3. SumOver(f, S) \in Nat /\ SumOver(f, S \ {x}) \in Nat
    BY <1>2, SumType
  <1> QED BY <1>1, <1>3

\* Sums add up, element by element.
LEMMA SumPlus ==
    ASSUME NEW S, IsFiniteSet(S), NEW f, NEW g, NEW h,
           \A x \in S : f[x] \in Int /\ g[x] \in Int /\ h[x] = f[x] + g[x]
    PROVE  SumOver(h, S) = SumOver(f, S) + SumOver(g, S)
  <1> DEFINE G == {T \in SUBSET S : SumOver(h, T) = SumOver(f, T) + SumOver(g, T)}
  <1>1. ASSUME NEW T \in SUBSET S, \A U \in SUBSET T : U # T => U \in G
        PROVE  T \in G
    <2>1. CASE T = {}
      BY <2>1, SumEmpty
    <2>2. CASE T # {}
      <3>1. IsFiniteSet(T)
        BY FS_Subset
      <3> DEFINE e == First(T)
                 R == T \ {e}
      <3>2. /\ e \in T
            /\ SumOver(f, T) = f[e] + SumOver(f, R)
            /\ SumOver(g, T) = g[e] + SumOver(g, R)
            /\ SumOver(h, T) = h[e] + SumOver(h, R)
        BY <2>2, <3>1, SumFirst
      <3>3. SumOver(h, R) = SumOver(f, R) + SumOver(g, R)
        BY <1>1, <3>2
      <3>4. IsFiniteSet(R)
        BY <3>1, FS_Subset
      <3>5. SumOver(f, R) \in Int /\ SumOver(g, R) \in Int
        BY <3>4, SumType
      <3> HIDE DEF e, R
      <3> QED BY <3>2, <3>3, <3>5
    <2> QED BY <2>1, <2>2
  <1> HIDE DEF G
  <1>2. S \in G
    BY <1>1, SubsetInduction
  <1> QED BY <1>2 DEF G

\* A table is summed by rows or by columns.
LEMMA SumByColumns ==
    ASSUME NEW S, IsFiniteSet(S), NEW T, IsFiniteSet(T), NEW m,
           \A x \in S, y \in T : m[x][y] \in Int
    PROVE  SumOver([x \in S |-> SumOver(m[x], T)], S)
             = SumOver([y \in T |-> SumOver([x \in S |-> m[x][y]], S)], T)
  <1> DEFINE Row      == [x \in S |-> SumOver(m[x], T)]
             Col(U)   == [y \in T |-> SumOver([x \in S |-> m[x][y]], U)]
             G        == {U \in SUBSET S : SumOver(Row, U) = SumOver(Col(U), T)}
  <1>1. ASSUME NEW U \in SUBSET S, \A V \in SUBSET U : V # U => V \in G
        PROVE  U \in G
    <2>1. CASE U = {}
      <3>1. \A y \in T : Col({})[y] = 0
        BY SumEmpty
      <3> HIDE DEF Col, Row
      <3>2. SumOver(Col({}), T) = 0
        BY <3>1, SumZero
      <3> QED BY <2>1, <3>2, SumEmpty
    <2>2. CASE U # {}
      <3>1. IsFiniteSet(U)
        BY FS_Subset
      <3> DEFINE e == First(U)
                 R == U \ {e}
      <3>2. e \in U /\ SumOver(Row, U) = Row[e] + SumOver(Row, R)
        BY <2>2, <3>1, SumFirst
      <3>3. SumOver(Row, R) = SumOver(Col(R), T)
        <4>1. R \in SUBSET U /\ R # U
          BY <3>2
        <4> QED BY <1>1, <4>1
      <3>4. IsFiniteSet(R)
        BY <3>1, FS_Subset
      <3>5. \A y \in T : /\ m[e][y] \in Int /\ Col(R)[y] \in Int
                         /\ Col(U)[y] = m[e][y] + Col(R)[y]
        <4> SUFFICES ASSUME NEW y \in T
                     PROVE  /\ m[e][y] \in Int /\ Col(R)[y] \in Int
                            /\ Col(U)[y] = m[e][y] + Col(R)[y]
          OBVIOUS
        <4> DEFINE col == [x \in S |-> m[x][y]]
        <4>1. \A x \in S : col[x] \in Int
          OBVIOUS
        <4>2. e \in S /\ col[e] = m[e][y] /\ R \subseteq S /\ m[e][y] \in Int
          BY <3>2
        <4> HIDE DEF col
        <4>3. SumOver(col, U) = col[e] + SumOver(col, R)
          BY <2>2, <3>1, SumFirst
        <4>4. SumOver(col, R) \in Int
          <5>1. \A x \in R : col[x] \in Int
            BY <4>1, <4>2
          <5> QED BY <3>4, <5>1, SumType
        <4>5. Col(U)[y] = SumOver(col, U) /\ Col(R)[y] = SumOver(col, R)
          BY DEF col
        <4> QED BY <4>2, <4>3, <4>4, <4>5
      <3>6. SumOver(Col(U), T) = SumOver(m[e], T) + SumOver(Col(R), T)
        <4> HIDE DEF Col, R, e
        <4> QED BY <3>5, SumPlus
      <3>7. Row[e] = SumOver(m[e], T)
        BY <3>2
      <3> HIDE DEF Col, Row, e, R
      <3>8. U \in G <=> SumOver(Row, U) = SumOver(Col(U), T)
        OBVIOUS
      <3> QED BY <3>2, <3>3, <3>6, <3>7, <3>8
    <2> QED BY <2>1, <2>2
  <1> HIDE DEF G
  <1>2. S \in G
    BY <1>1, SubsetInduction
  <1> QED BY <1>2 DEF G

\* A set has as many members as the sum of what each of them counts for.
LEMMA SumCounts ==
    ASSUME NEW S, IsFiniteSet(S), NEW f, \A x \in S : f[x] \in {0, 1}
    PROVE  Cardinality({x \in S : f[x] = 1}) = SumOver(f, S)
  <1> DEFINE Ones(T) == {x \in T : f[x] = 1}
             G       == {T \in SUBSET S : Cardinality(Ones(T)) = SumOver(f, T)}
  <1>1. ASSUME NEW T \in SUBSET S, \A U \in SUBSET T : U # T => U \in G
        PROVE  T \in G
    <2>1. CASE T = {}
      <3>1. Ones(T) = {}
        BY <2>1
      <3> QED BY <2>1, <3>1, SumEmpty, FS_EmptySet
    <2>2. CASE T # {}
      <3>1. IsFiniteSet(T)
        BY FS_Subset
      <3> DEFINE e == First(T)
                 R == T \ {e}
      <3>2. e \in T /\ SumOver(f, T) = f[e] + SumOver(f, R)
        BY <2>2, <3>1, SumFirst
      <3>3. Cardinality(Ones(R)) = SumOver(f, R)
        <4>1. R \in SUBSET T /\ R # T
          BY <3>2
        <4> QED BY <1>1, <4>1
      <3>4. IsFiniteSet(Ones(R)) /\ Cardinality(Ones(R)) \in Nat
        BY <3>1, FS_Subset, FS_CardinalityType
      <3>5. CASE f[e] = 1
        <4>1. Ones(T) = Ones(R) \cup {e} /\ e \notin Ones(R)
          BY <3>2, <3>5
        <4> HIDE DEF Ones, e, R
        <4>2. Cardinality(Ones(R) \cup {e}) = Cardinality(Ones(R)) + 1
          BY <3>4, <4>1, FS_AddElement
        <4>3. Cardinality(Ones(T)) = Cardinality(Ones(R)) + 1
          BY <4>1, <4>2
        <4>4. SumOver(f, T) = 1 + SumOver(f, R)
          BY <3>2, <3>5
        <4>5. Cardinality(Ones(T)) = SumOver(f, T)
          BY <3>3, <3>4, <4>3, <4>4
        <4> QED BY <4>5
      <3>6. CASE f[e] = 0
        <4>1. Ones(T) = Ones(R)
          BY <3>2, <3>6
        <4> HIDE DEF Ones, e, R
        <4> QED BY <3>2, <3>3, <3>4, <3>6, <4>1
      <3> QED BY <3>2, <3>5, <3>6
    <2> QED BY <2>1, <2>2
  <1> HIDE DEF G
  <1>2. S \in G
    BY <1>1, SubsetInduction
  <1> QED BY <1>2 DEF G
=============================================================================
