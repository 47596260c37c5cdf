-------------------------- MODULE CyclicRing_proofs --------------------------
(***************************************************************************)
(* Managers that swap nothing in on a guess, over either swap and for any  *)
(* number and size of threads and chunks: the ring of chunks stays whole,  *)
(* the chunks in memory stay within memory_max, swapOut misses no          *)
(* candidate, and where a swap transfers at once counterActive is the      *)
(* border between the chunks in memory and the others.                     *)
(*                                                                         *)
(* That the links form one ring is said without naming an order: next and  *)
(* prev undo each other on the chunks of the ring, and no part of the ring *)
(* but all of it is closed under next (OneRing).  The links the code cuts  *)
(* and joins are followed in this form: a chunk is put in (RingPut), cut   *)
(* out (RingCut), and a stretch of the ring is put into another order      *)
(* (RingReordered), which is what swapOut does (GatherAwayIs).             *)
(*                                                                         *)
(* Each operator of the model then has a lemma on whole states: swapOut,   *)
(* touch and swapIn leave the ring its members (Works), schedulerRegister  *)
(* and schedulerDelete change them by one (Recast).  Sound is the          *)
(* inductive invariant: who is in the ring follows from what calls wait    *)
(* for.  Within, for the memory taken, and Sectioned, for the order of the *)
(* ring, are inductive next to it.                                         *)
(***************************************************************************)
EXTENDS CyclicRing, Sums

\* One step of the loop of swapOut: a is what it has come to, c the chunk it looks at.
VictimStep(s, want, a, c) ==
    IF a.bytes >= want THEN a
    ELSE IF Candidate(s, c) /\ a.bytes + Size[c] <= SwapFree(s)
         THEN [bytes |-> a.bytes + Size[c], list |-> Append(a.list, c),
               passed |-> a.passed + 1, last |-> a.passed + 1]
         ELSE [a EXCEPT !.passed = @ + 1]

\* The loops of the model: linking up a sequence, sorting chunks by their status, choosing
\* what to unload, and moving a pointer back.
LoopStep(walk, x, a, e) ==
    CASE walk = "link"    -> Connect(a, x[e], x[e + 1])
      [] walk = "those"   -> IF x.s.status[e] \in x.S THEN Append(a, e) ELSE a
      [] walk = "victims" -> VictimStep(x.s, x.want, a, e)
      [] walk = "back"    -> IF a = e THEN x[a] ELSE a

INSTANCE Walks WITH Step <- LoopStep

-----------------------------------------------------------------------------
(* One ring *)

OneRing(nx, pv, R) ==
    /\ \A c \in R : nx[c] \in R /\ pv[c] \in R /\ pv[nx[c]] = c /\ nx[pv[c]] = c
    /\ \A S \in SUBSET R : S # {} /\ (\A c \in S : nx[c] \in S) => S = R

\* nx2 and pv2 are nx and pv with c between a and b.
Between(nx, pv, nx2, pv2, R, a, c, b) ==
    /\ nx2[a] = c /\ nx2[c] = b /\ \A x \in R \ {a, c} : nx2[x] = nx[x]
    /\ pv2[b] = c /\ pv2[c] = a /\ \A x \in R \ {b, c} : pv2[x] = pv[x]

\* A chunk is put into the ring before p.
LEMMA RingPut ==
    ASSUME NEW nx, NEW pv, NEW nx2, NEW pv2, NEW R, NEW c, c \notin R, NEW p \in R,
           OneRing(nx, pv, R), Between(nx, pv, nx2, pv2, R, pv[p], c, p)
    PROVE  OneRing(nx2, pv2, R \cup {c})
  <1>1. PICK a \in R : a = pv[p] /\ nx[a] = p
    BY DEF OneRing
  <1>2. \A x \in R : nx[x] \in R /\ pv[x] \in R /\ pv[nx[x]] = x /\ nx[pv[x]] = x
    BY DEF OneRing
  <1>3. /\ nx2[a] = c /\ nx2[c] = p /\ \A x \in R : x # a => nx2[x] = nx[x]
        /\ pv2[p] = c /\ pv2[c] = a /\ \A x \in R : x # p => pv2[x] = pv[x]
    BY <1>1 DEF Between
  <1>4. \A x \in R \cup {c} : nx2[x] \in R \cup {c} /\ pv2[x] \in R \cup {c} /\ pv2[nx2[x]] = x /\ nx2[pv2[x]] = x
    BY <1>1, <1>2, <1>3
  <1>5. ASSUME NEW S \in SUBSET (R \cup {c}), S # {}, \A x \in S : nx2[x] \in S
        PROVE  S = R \cup {c}
    <2>1. S \ {c} # {}
      BY <1>3, <1>5
    <2>2. ASSUME NEW x \in S \ {c} PROVE nx[x] \in S \ {c}
      <3>1. CASE x = a
        BY <1>1, <1>3, <1>5, <2>2, <3>1
      <3>2. CASE x # a
        BY <1>2, <1>3, <1>5, <2>2, <3>2
      <3> QED BY <3>1, <3>2
    <2>3. S \ {c} = R
      <3>1. S \ {c} \in SUBSET R
        OBVIOUS
      <3> QED BY <2>1, <2>2, <3>1 DEF OneRing
    <2>4. c \in S
      BY <1>1, <1>3, <1>5, <2>3
    <2> QED BY <2>3, <2>4
  <1> QED BY <1>4, <1>5 DEF OneRing

\* A chunk alone is a ring.
LEMMA RingOfOne ==
    ASSUME NEW nx, NEW pv, NEW c, nx[c] = c, pv[c] = c
    PROVE  OneRing(nx, pv, {c})
  <1>1. \A S \in SUBSET {c} : S # {} => S = {c}
    OBVIOUS
  <1> QED BY <1>1 DEF OneRing

\* The links nx2 and pv2 go past chunk c, and are those of nx and pv everywhere else.
CutOut(nx, pv, nx2, pv2, R, c) ==
    /\ nx2[pv[c]] = nx[c] /\ \A x \in R : x # pv[c] => nx2[x] = nx[x]
    /\ pv2[nx[c]] = pv[c] /\ \A x \in R : x # nx[c] => pv2[x] = pv[x]

\* The ring without the chunk is one ring.
LEMMA RingCut ==
    ASSUME NEW nx, NEW pv, NEW nx2, NEW pv2, NEW R, NEW c \in R, nx[c] # c, OneRing(nx, pv, R),
           CutOut(nx, pv, nx2, pv2, R, c)
    PROVE  OneRing(nx2, pv2, R \ {c})
  <1>1. \A x \in R : nx[x] \in R /\ pv[x] \in R /\ pv[nx[x]] = x /\ nx[pv[x]] = x
    BY DEF OneRing
  <1>2. PICK a \in R, b \in R : a = pv[c] /\ b = nx[c] /\ a # c /\ b # c /\ nx[a] = c /\ pv[b] = c
    BY <1>1
  <1>3. /\ nx2[a] = b /\ \A x \in R : x # a => nx2[x] = nx[x]
        /\ pv2[b] = a /\ \A x \in R : x # b => pv2[x] = pv[x]
    BY <1>2 DEF CutOut
  <1>4. ASSUME NEW x \in R \ {c}
        PROVE  nx2[x] \in R \ {c} /\ pv2[x] \in R \ {c} /\ pv2[nx2[x]] = x /\ nx2[pv2[x]] = x
    <2>1. nx2[x] \in R \ {c} /\ pv2[nx2[x]] = x
      BY <1>1, <1>2, <1>3
    <2>2. pv2[x] \in R \ {c} /\ nx2[pv2[x]] = x
      BY <1>1, <1>2, <1>3
    <2> QED BY <2>1, <2>2
  <1>5. ASSUME NEW S \in SUBSET (R \ {c}), S # {}, \A x \in S : nx2[x] \in S
        PROVE  S = R \ {c}
    <2> DEFINE T == S \cup {x \in {c} : a \in S}
    <2>1. T \in SUBSET R /\ T # {}
      BY <1>5
    <2>2. ASSUME NEW x \in T PROVE nx[x] \in T
      <3>1. CASE x = c
        BY <1>2, <1>3, <1>5, <2>2, <3>1
      <3>2. CASE x = a
        BY <1>2, <2>2, <3>2
      <3>3. CASE x # a /\ x # c
        BY <1>3, <1>5, <2>2, <3>3
      <3> QED BY <3>1, <3>2, <3>3
    <2>3. T = R
      <3> HIDE DEF T
      <3> QED BY <2>1, <2>2 DEF OneRing
    <2> QED BY <2>3
  <1> QED BY <1>4, <1>5 DEF OneRing

\* No part of the ring but all of it is closed under prev either.
LEMMA RingBack ==
    ASSUME NEW nx, NEW pv, NEW R, OneRing(nx, pv, R)
    PROVE  OneRing(pv, nx, R)
  <1>1. \A x \in R : nx[x] \in R /\ pv[x] \in R /\ pv[nx[x]] = x /\ nx[pv[x]] = x
    BY DEF OneRing
  <1>2. ASSUME NEW S \in SUBSET R, S # {}, \A x \in S : pv[x] \in S
        PROVE  S = R
    <2> DEFINE T == R \ S
    <2>1. T \in SUBSET R /\ \A x \in T : nx[x] \in T
      BY <1>1, <1>2
    <2>2. T = {} \/ T = R
      <3> HIDE DEF T
      <3> QED BY <2>1 DEF OneRing
    <2> QED BY <1>2, <2>2
  <1> QED BY <1>1, <1>2 DEF OneRing

\* C, of length m, lists chunks of R that follow each other; J lists the same in another order.
Listed(R, C, m) == /\ \A i \in 1..m : C[i] \in R
                   /\ \A i, j \in 1..m : C[i] = C[j] => i = j
Stretch(nx, R, C, m) == Listed(R, C, m) /\ \A i \in 1..(m - 1) : nx[C[i]] = C[i + 1]
Alike(C, J, m) == /\ \A i \in 1..m : \E j \in 1..m : C[i] = J[j]
                  /\ \A i \in 1..m : \E j \in 1..m : J[i] = C[j]

Part(C, m) == {C[i] : i \in 1..m}

\* nx2 follows J where nx follows C.
Reordered(nx, nx2, R, C, J, m, before, after) ==
    /\ \A i \in 1..(m - 1) : nx2[J[i]] = J[i + 1]
    /\ nx2[J[m]] = IF after = C[1] THEN J[1] ELSE after
    /\ after # C[1] => nx2[before] = J[1]
    /\ \A x \in R \ Part(C, m) : x # before => nx2[x] = nx[x]

\* Likewise for the way back.
ReorderedBack(pv, pv2, R, C, J, m, before, after) ==
    /\ \A i \in 1..(m - 1) : pv2[J[i + 1]] = J[i]
    /\ pv2[J[1]] = IF after = C[1] THEN J[m] ELSE before
    /\ after # C[1] => pv2[after] = J[m]
    /\ \A x \in R \ Part(C, m) : x # after => pv2[x] = pv[x]

\* The ends of a stretch: the chunks beside it are not in it, unless it is the whole ring.
LEMMA StretchEnds ==
    ASSUME NEW nx, NEW pv, NEW R, OneRing(nx, pv, R), NEW m \in Nat \ {0}, NEW C,
           Stretch(nx, R, C, m), NEW before \in R, before = pv[C[1]], NEW after \in R, after = nx[C[m]]
    PROVE  /\ Part(C, m) \subseteq R
           /\ after = C[1] => Part(C, m) = R
           /\ after # C[1] => before \notin Part(C, m) /\ after \notin Part(C, m)
           /\ \A x \in R \ Part(C, m) : nx[x] \in Part(C, m) => x = before
           /\ \A x \in R \ Part(C, m) : pv[x] \in Part(C, m) => x = after
  <1>1. \A x \in R : nx[x] \in R /\ pv[x] \in R /\ pv[nx[x]] = x /\ nx[pv[x]] = x
    BY DEF OneRing
  <1>2. /\ 1 \in 1..m /\ m \in 1..m
        /\ \A i \in 1..m : i = m \/ (i \in 1..(m - 1) /\ i + 1 \in 1..m)
        /\ \A i \in 1..m : i = 1 \/ (i - 1 \in 1..(m - 1) /\ i - 1 \in 1..m /\ (i - 1) + 1 = i)
    OBVIOUS
  <1>3. \A i \in 1..m : C[i] \in R
    BY DEF Stretch, Listed
  <1>4. \A i \in 1..m : i # m => i + 1 \in 1..m /\ nx[C[i]] = C[i + 1]
    BY <1>2 DEF Stretch
  <1>5. \A i \in 1..m : i # 1 => i - 1 \in 1..m /\ pv[C[i]] = C[i - 1]
    <2> SUFFICES ASSUME NEW i \in 1..m, i # 1 PROVE i - 1 \in 1..m /\ pv[C[i]] = C[i - 1]
      OBVIOUS
    <2>1. i - 1 \in 1..m /\ i - 1 # m /\ (i - 1) + 1 = i
      OBVIOUS
    <2>2. nx[C[i - 1]] = C[i]
      BY <1>4, <2>1
    <2> QED BY <1>1, <1>3, <2>1, <2>2
  <1>6. \A i, j \in 1..m : C[i] = C[j] => i = j
    BY DEF Stretch, Listed
  <1>7. Part(C, m) \subseteq R /\ \A i \in 1..m : C[i] \in Part(C, m)
    BY <1>3 DEF Part
  <1>8. ASSUME after = C[1] PROVE Part(C, m) = R
    <2>1. C[1] \in Part(C, m)
      BY <1>2, <1>7
    <2>2. ASSUME NEW x \in Part(C, m) PROVE nx[x] \in Part(C, m)
      <3>1. PICK i \in 1..m : x = C[i]
        BY DEF Part
      <3>2. CASE i = m
        BY <1>8, <2>1, <3>1, <3>2
      <3>3. CASE i # m
        BY <1>4, <1>7, <3>1, <3>3
      <3> QED BY <3>2, <3>3
    <2> QED BY <1>7, <2>1, <2>2 DEF OneRing
  <1>9. ASSUME after # C[1] PROVE before \notin Part(C, m)
    <2>1. SUFFICES ASSUME NEW i \in 1..m, before = C[i] PROVE FALSE
      BY DEF Part
    <2>2. nx[C[i]] = C[1]
      <3>1. C[1] \in R /\ before = pv[C[1]]
        BY <1>2, <1>3
      <3> QED BY <1>1, <2>1, <3>1
    <2>3. CASE i = m
      BY <1>9, <2>2, <2>3
    <2>4. CASE i # m
      <3>1. i + 1 = 1
        BY <1>2, <1>4, <1>6, <2>2, <2>4
      <3> QED BY <3>1
    <2> QED BY <2>3, <2>4
  <1>10. ASSUME after # C[1] PROVE after \notin Part(C, m)
    <2>1. SUFFICES ASSUME NEW i \in 1..m, after = C[i] PROVE FALSE
      BY DEF Part
    <2>2. i # 1
      BY <1>10, <2>1
    <2>3. pv[after] = C[m] /\ m \in 1..m
      BY <1>1, <1>2, <1>3
    <2>4. PICK k \in 1..m : k = i - 1 /\ pv[C[i]] = C[k]
      BY <1>5, <2>2
    <2>5. k = m
      BY <1>6, <2>1, <2>3, <2>4
    <2>6. i - 1 = m
      BY <2>4, <2>5
    <2> QED BY <2>6
  <1>11. ASSUME NEW x \in R \ Part(C, m), nx[x] \in Part(C, m) PROVE x = before
    <2>1. PICK i \in 1..m : nx[x] = C[i]
      BY <1>11 DEF Part
    <2>2. CASE i = 1
      BY <1>1, <2>1, <2>2
    <2>3. CASE i # 1
      <3>1. x = C[i - 1]
        BY <1>1, <1>5, <2>1, <2>3
      <3> QED BY <1>5, <1>7, <2>3, <3>1
    <2> QED BY <2>2, <2>3
  <1>12. ASSUME NEW x \in R \ Part(C, m), pv[x] \in Part(C, m) PROVE x = after
    <2>1. PICK i \in 1..m : pv[x] = C[i]
      BY <1>12 DEF Part
    <2>2. CASE i = m
      BY <1>1, <2>1, <2>2
    <2>3. CASE i # m
      <3>1. x = C[i + 1]
        BY <1>1, <1>4, <2>1, <2>3
      <3> QED BY <1>4, <1>7, <2>3, <3>1
    <2> QED BY <2>2, <2>3
  <1> QED BY <1>7, <1>8, <1>9, <1>10, <1>11, <1>12

\* The links of the reordered ring still undo each other.
LEMMA ReorderedMutual ==
    ASSUME NEW nx, NEW pv, NEW R, OneRing(nx, pv, R), NEW m \in Nat \ {0}, NEW C,
           Stretch(nx, R, C, m), NEW before \in R, before = pv[C[1]], NEW after \in R, after = nx[C[m]],
           NEW J, Listed(R, J, m), Alike(C, J, m), NEW nx2, NEW pv2,
           Reordered(nx, nx2, R, C, J, m, before, after),
           ReorderedBack(pv, pv2, R, C, J, m, before, after)
    PROVE  \A x \in R : nx2[x] \in R /\ pv2[x] \in R /\ pv2[nx2[x]] = x /\ nx2[pv2[x]] = x
  <1>1. \A x \in R : nx[x] \in R /\ pv[x] \in R /\ pv[nx[x]] = x /\ nx[pv[x]] = x
    BY DEF OneRing
  <1>2. /\ Part(C, m) \subseteq R
        /\ after = C[1] => Part(C, m) = R
        /\ after # C[1] => before \notin Part(C, m) /\ after \notin Part(C, m)
        /\ \A x \in R \ Part(C, m) : nx[x] \in Part(C, m) => x = before
        /\ \A x \in R \ Part(C, m) : pv[x] \in Part(C, m) => x = after
    BY StretchEnds
  <1>3. /\ \A x \in Part(C, m) : \E j \in 1..m : x = J[j]
        /\ \A j \in 1..m : J[j] \in Part(C, m) /\ J[j] \in R
    <2>1. \A x \in Part(C, m) : \E j \in 1..m : x = J[j]
      BY DEF Part, Alike
    <2>2. \A j \in 1..m : J[j] \in Part(C, m)
      BY DEF Part, Alike
    <2>3. \A j \in 1..m : J[j] \in R
      BY DEF Listed
    <2> QED BY <2>1, <2>2, <2>3
  <1>4. /\ 1 \in 1..m /\ m \in 1..m
        /\ \A i \in 1..m : i = m \/ (i \in 1..(m - 1) /\ i + 1 \in 1..m)
        /\ \A i \in 1..m : i = 1 \/ (i - 1 \in 1..(m - 1) /\ i - 1 \in 1..m /\ (i - 1) + 1 = i)
    OBVIOUS
  <1>5. ASSUME NEW i \in 1..m PROVE nx2[J[i]] \in R /\ pv2[nx2[J[i]]] = J[i]
    <2>1. CASE i # m
      <3>1. nx2[J[i]] = J[i + 1] /\ pv2[J[i + 1]] = J[i] /\ i + 1 \in 1..m
        BY <1>4, <2>1 DEF Reordered, ReorderedBack
      <3> QED BY <1>3, <3>1
    <2>2. CASE i = m
      BY <1>3, <1>4, <2>2 DEF Reordered, ReorderedBack
    <2> QED BY <2>1, <2>2
  <1>6. ASSUME NEW i \in 1..m PROVE pv2[J[i]] \in R /\ nx2[pv2[J[i]]] = J[i]
    <2>1. CASE i # 1
      <3>1. PICK k \in 1..(m - 1) : i = k + 1 /\ k \in 1..m
        BY <1>4, <2>1
      <3>2. pv2[J[i]] = J[k] /\ nx2[J[k]] = J[i]
        BY <3>1 DEF Reordered, ReorderedBack
      <3> QED BY <1>3, <3>1, <3>2
    <2>2. CASE i = 1
      BY <1>3, <1>4, <2>2 DEF Reordered, ReorderedBack
    <2> QED BY <2>1, <2>2
  <1>7. ASSUME NEW x \in R \ Part(C, m) PROVE nx2[x] \in R /\ pv2[nx2[x]] = x
    <2>1. after # C[1]
      BY <1>2
    <2>2. CASE x = before
      <3>1. nx2[x] = J[1] /\ pv2[J[1]] = before
        BY <2>1, <2>2 DEF Reordered, ReorderedBack
      <3> QED BY <1>3, <1>4, <2>2, <3>1
    <2>3. CASE x # before
      <3>1. nx2[x] = nx[x] /\ nx[x] \in R \ Part(C, m)
        BY <1>1, <1>2, <2>3 DEF Reordered
      <3>2. nx[x] # after
        <4>1. SUFFICES ASSUME nx[x] = after PROVE FALSE
          OBVIOUS
        <4>2. C[m] \in R /\ C[m] \in Part(C, m)
          BY <1>4 DEF Stretch, Listed, Part
        <4>3. x = C[m]
          BY <1>1, <4>1, <4>2
        <4> QED BY <4>2, <4>3
      <3>3. pv2[nx[x]] = pv[nx[x]]
        BY <3>1, <3>2 DEF ReorderedBack
      <3> QED BY <1>1, <3>1, <3>3
    <2> QED BY <2>2, <2>3
  <1>8. ASSUME NEW x \in R \ Part(C, m) PROVE pv2[x] \in R /\ nx2[pv2[x]] = x
    <2>1. after # C[1]
      BY <1>2
    <2>2. CASE x = after
      <3>1. pv2[x] = J[m] /\ nx2[J[m]] = after
        BY <2>1, <2>2 DEF Reordered, ReorderedBack
      <3> QED BY <1>3, <1>4, <2>2, <3>1
    <2>3. CASE x # after
      <3>1. pv2[x] = pv[x] /\ pv[x] \in R \ Part(C, m)
        BY <1>1, <1>2, <2>3 DEF ReorderedBack
      <3>2. pv[x] # before
        <4>1. SUFFICES ASSUME pv[x] = before PROVE FALSE
          OBVIOUS
        <4>2. C[1] \in R /\ C[1] \in Part(C, m)
          BY <1>4 DEF Stretch, Listed, Part
        <4>3. x = C[1]
          BY <1>1, <4>1, <4>2
        <4> QED BY <4>2, <4>3
      <3>3. nx2[pv[x]] = nx[pv[x]]
        BY <3>1, <3>2 DEF Reordered
      <3> QED BY <1>1, <3>1, <3>3
    <2> QED BY <2>2, <2>3
  <1> QED BY <1>3, <1>5, <1>6, <1>7, <1>8

\* In whatever order a stretch of the ring is put, what comes out is one ring.
LEMMA RingReordered ==
    ASSUME NEW nx, NEW pv, NEW R, OneRing(nx, pv, R), NEW m \in Nat \ {0}, NEW C,
           Stretch(nx, R, C, m), NEW before \in R, before = pv[C[1]], NEW after \in R, after = nx[C[m]],
           NEW J, Listed(R, J, m), Alike(C, J, m), NEW nx2, NEW pv2,
           Reordered(nx, nx2, R, C, J, m, before, after),
           ReorderedBack(pv, pv2, R, C, J, m, before, after)
    PROVE  OneRing(nx2, pv2, R)
  <1>1. \A x \in R : nx[x] \in R /\ pv[x] \in R /\ pv[nx[x]] = x /\ nx[pv[x]] = x
    BY DEF OneRing
  <1> DEFINE X == Part(C, m)
  <1>2. /\ X \subseteq R
        /\ after = C[1] => X = R
        /\ after # C[1] => before \notin X /\ after \notin X
        /\ \A x \in R \ X : nx[x] \in X => x = before
    BY StretchEnds
  <1>3. \A x \in X : \E j \in 1..m : x = J[j]
    BY DEF Part, Alike
  <1>4. \A j \in 1..m : J[j] \in X
    BY DEF Part, Alike
  <1>5. 1 \in 1..m /\ m \in 1..m /\ C[1] \in X
    BY DEF Part
  <1>6. ASSUME NEW x \in X PROVE nx[x] \in X \/ nx[x] = after
    <2>1. PICK i \in 1..m : x = C[i]
      BY DEF Part
    <2>2. CASE i = m
      BY <2>1, <2>2
    <2>3. CASE i # m
      <3>1. i \in 1..(m - 1) /\ i + 1 \in 1..m
        BY <2>3
      <3>2. nx[x] = C[i + 1]
        BY <2>1, <3>1 DEF Stretch
      <3> QED BY <3>1, <3>2 DEF Part
    <2> QED BY <2>2, <2>3
  <1> HIDE DEF X
  <1>7. ASSUME NEW S \in SUBSET R, S # {}, \A x \in S : nx2[x] \in S
        PROVE  S = R
    <2>1. ASSUME NEW i \in 1..m, J[i] \in S PROVE \A j \in i..m : J[j] \in S
      <3> DEFINE G == {k \in Nat : i + k <= m => J[i + k] \in S}
      <3>1. 0 \in G
        BY <2>1
      <3>2. ASSUME NEW k \in Nat, k \in G PROVE k + 1 \in G
        <4>1. SUFFICES ASSUME i + (k + 1) <= m PROVE J[i + (k + 1)] \in S
          OBVIOUS
        <4>2. PICK l \in 1..(m - 1) : l = i + k /\ l + 1 = i + (k + 1)
          BY <4>1
        <4>3. J[l] \in S
          BY <3>2, <4>1, <4>2
        <4>4. nx2[J[l]] = J[l + 1]
          BY <4>2 DEF Reordered
        <4> QED BY <1>7, <4>2, <4>3, <4>4
      <3>3. \A k \in Nat : k \in G
        <4> HIDE DEF G
        <4> QED BY <3>1, <3>2, NumberInduction
      <3>4. ASSUME NEW j \in i..m PROVE J[j] \in S
        <4>1. PICK k \in Nat : j = i + k /\ i + k <= m
          <5>1. j - i \in Nat /\ j = i + (j - i) /\ j <= m
            OBVIOUS
          <5> QED BY <5>1
        <4> QED BY <3>3, <4>1
      <3> QED BY <3>4
    <2>2. ASSUME J[1] \in S PROVE X \subseteq S
      <3>1. \A j \in 1..m : J[j] \in S
        BY <1>5, <2>1, <2>2
      <3> QED BY <1>3, <3>1
    <2>3. ASSUME S \cap X # {} PROVE J[m] \in S
      <3>1. PICK i \in 1..m : J[i] \in S
        BY <1>3, <2>3
      <3>2. m \in i..m
        OBVIOUS
      <3> QED BY <2>1, <3>1, <3>2
    <2>4. CASE after = C[1]
      <3>1. S \cap X # {} /\ X = R
        BY <1>2, <1>7, <2>4
      <3>2. J[1] \in S
        BY <1>7, <2>3, <2>4, <3>1 DEF Reordered
      <3> QED BY <2>2, <3>1, <3>2
    <2>5. CASE after # C[1]
      <3>1. before \in R \ X /\ after \in R \ X
        BY <1>2, <2>5
      <3>2. S \ X # {}
        <4>1. SUFFICES ASSUME S \cap X # {} PROVE S \ X # {}
          BY <1>7
        <4>2. nx2[J[m]] = after
          BY <2>5 DEF Reordered
        <4>3. after \in S
          BY <1>7, <2>3, <4>1, <4>2
        <4> QED BY <3>1, <4>3
      <3>3. before \in S
        <4>1. SUFFICES ASSUME before \notin S PROVE FALSE
          OBVIOUS
        <4>2. ASSUME NEW x \in S \ X PROVE nx[x] \in S \ X
          <5>1. x # before /\ x \in R \ X
            BY <4>1, <4>2
          <5>2. nx2[x] = nx[x]
            BY <5>1 DEF Reordered, X
          <5>3. nx[x] \notin X
            BY <1>2, <5>1
          <5> QED BY <1>7, <4>2, <5>2, <5>3
        <4>3. S \ X \in SUBSET R
          OBVIOUS
        <4>4. S \ X = R
          BY <3>2, <4>2, <4>3 DEF OneRing
        <4> QED BY <3>1, <4>1, <4>4
      <3>4. nx2[before] = J[1]
        BY <2>5 DEF Reordered
      <3>5. X \subseteq S
        BY <1>7, <2>2, <3>3, <3>4
      <3>6. after \in S
        <4>1. nx2[J[m]] = after
          BY <2>5 DEF Reordered
        <4> QED BY <1>4, <1>5, <1>7, <3>5, <4>1
      <3>7. ASSUME NEW x \in S PROVE nx[x] \in S
        <4>1. CASE x \in X
          BY <1>6, <3>5, <3>6, <4>1
        <4>2. CASE x = before
          BY <1>1, <1>5, <3>1, <3>5, <4>2 DEF Stretch, Listed
        <4>3. CASE x \notin X /\ x # before
          <5>1. nx2[x] = nx[x]
            BY <4>3 DEF Reordered, X
          <5> QED BY <1>7, <5>1
        <4> QED BY <4>1, <4>2, <4>3
      <3> QED BY <1>7, <3>7 DEF OneRing
    <2> QED BY <2>4, <2>5
  <1>8. \A x \in R : nx2[x] \in R /\ pv2[x] \in R /\ pv2[nx2[x]] = x /\ nx2[pv2[x]] = x
    BY ReorderedMutual
  <1> QED BY <1>7, <1>8 DEF OneRing

-----------------------------------------------------------------------------
(* Going along the links *)

\* w is the walk of k elements from e on.
Goes(w, f, e, k) == w = [i \in 1..k |-> IF i = 1 THEN e ELSE f[w[i - 1]]]

\* There is such a function.
LEMMA WalkExists ==
    ASSUME NEW f, NEW e, NEW k \in Nat
    PROVE  \E w : Goes(w, f, e, k)
  <1> DEFINE G == {n \in Nat : \E w : Goes(w, f, e, n)}
  <1>1. 0 \in G
    <2>1. Goes([i \in 1..0 |-> e], f, e, 0)
      BY DEF Goes
    <2> QED BY <2>1
  <1>2. ASSUME NEW n \in Nat, n \in G PROVE n + 1 \in G
    <2>1. PICK w : Goes(w, f, e, n)
      BY <1>2
    <2> DEFINE v == [i \in 1..(n + 1) |-> IF i = 1 THEN e ELSE f[w[i - 1]]]
    <2>2. ASSUME NEW i \in 1..n PROVE v[i] = w[i] /\ i \in 1..(n + 1)
      BY <2>1 DEF Goes
    <2>3. \A i \in 1..(n + 1) : i = 1 \/ i - 1 \in 1..n
      OBVIOUS
    <2>4. v = [i \in 1..(n + 1) |-> IF i = 1 THEN e ELSE f[v[i - 1]]]
      BY <2>2, <2>3
    <2>5. Goes(v, f, e, n + 1)
      BY <2>4 DEF Goes
    <2> HIDE DEF v
    <2> QED BY <2>5
  <1>3. \A n \in Nat : n \in G
    <2> HIDE DEF G
    <2> QED BY <1>1, <1>2, NumberInduction
  <1> QED BY <1>3

\* Walk goes from an element to the next.
LEMMA WalkIs ==
    ASSUME NEW f, NEW e, NEW k \in Nat
    PROVE  /\ DOMAIN Walk(f, e, k) = 1..k /\ Walk(f, e, k) = [i \in 1..k |-> Walk(f, e, k)[i]]
           /\ k > 0 => Walk(f, e, k)[1] = e
           /\ \A i \in 1..(k - 1) : Walk(f, e, k)[i + 1] = f[Walk(f, e, k)[i]]
  <1>1. Walk(f, e, k) = CHOOSE w : Goes(w, f, e, k)
    BY DEF Walk, Goes
  <1>2. PICK w : w = Walk(f, e, k) /\ Goes(w, f, e, k)
    BY <1>1, WalkExists
  <1>3. DOMAIN w = 1..k /\ w = [i \in 1..k |-> w[i]]
    BY <1>2 DEF Goes
  <1>4. k > 0 => w[1] = e
    BY <1>2 DEF Goes
  <1>5. ASSUME NEW i \in 1..(k - 1) PROVE w[i + 1] = f[w[i]]
    <2>1. i + 1 \in 1..k /\ i + 1 # 1 /\ (i + 1) - 1 = i
      OBVIOUS
    <2> QED BY <1>2, <2>1 DEF Goes
  <1> QED BY <1>2, <1>3, <1>4, <1>5

\* It stays in a set that is closed under f.
LEMMA WalkStays ==
    ASSUME NEW f, NEW R, \A c \in R : f[c] \in R, NEW e \in R, NEW k \in Nat
    PROVE  \A i \in 1..k : Walk(f, e, k)[i] \in R
  <1>1. PICK w : w = Walk(f, e, k)
    OBVIOUS
  <1>2. (k > 0 => w[1] = e) /\ \A i \in 1..(k - 1) : w[i + 1] = f[w[i]]
    BY <1>1, WalkIs
  <1> DEFINE G == {i \in Nat : i < k => w[i + 1] \in R}
  <1>3. 0 \in G
    BY <1>2
  <1>4. ASSUME NEW i \in Nat, i \in G PROVE i + 1 \in G
    <2>1. SUFFICES ASSUME i + 1 < k PROVE w[(i + 1) + 1] \in R
      OBVIOUS
    <2>2. i + 1 \in 1..(k - 1) /\ w[i + 1] \in R
      BY <1>4, <2>1
    <2> QED BY <1>2, <2>2
  <1>5. \A i \in Nat : i \in G
    <2> HIDE DEF G
    <2> QED BY <1>3, <1>4, NumberInduction
  <1>6. ASSUME NEW i \in 1..k PROVE w[i] \in R
    <2>1. i - 1 \in Nat /\ i - 1 < k /\ (i - 1) + 1 = i
      OBVIOUS
    <2> QED BY <1>5, <2>1
  <1> QED BY <1>1, <1>6

\* A walk round the ring that comes to an element a second time has been everywhere.
LEMMA WalkReturns ==
    ASSUME NEW nx, NEW pv, NEW R, OneRing(nx, pv, R), NEW e \in R, NEW k \in Nat,
           NEW n \in 1..(k - 1), NEW i \in 1..n, Walk(nx, e, k)[n + 1] = Walk(nx, e, k)[i]
    PROVE  \A c \in R : \E j \in 1..n : Walk(nx, e, k)[j] = c
  <1>1. PICK w : w = Walk(nx, e, k)
    OBVIOUS
  <1>2. \A j \in 1..(k - 1) : w[j + 1] = nx[w[j]]
    BY <1>1, WalkIs
  <1>3. \A j \in 1..k : w[j] \in R
    BY <1>1, WalkStays DEF OneRing
  <1> DEFINE S == {w[j] : j \in 1..n}
  <1>4. S \in SUBSET R /\ S # {}
    <2>1. n \in 1..n /\ \A j \in 1..n : j \in 1..k
      OBVIOUS
    <2> QED BY <1>3, <2>1
  <1>5. ASSUME NEW x \in S PROVE nx[x] \in S
    <2>1. PICK j \in 1..n : x = w[j]
      OBVIOUS
    <2>2. j \in 1..(k - 1) /\ nx[x] = w[j + 1]
      BY <1>2, <2>1
    <2>3. CASE j = n
      BY <1>1, <2>2, <2>3
    <2>4. CASE j # n
      <3>1. j + 1 \in 1..n
        BY <2>4
      <3> QED BY <2>2, <3>1
    <2> QED BY <2>3, <2>4
  <1>6. S = R
    <2> HIDE DEF S
    <2> QED BY <1>4, <1>5 DEF OneRing
  <1> QED BY <1>1, <1>6

\* A walk as long as the ring has chunks meets all of them.
LEMMA WalkCovers ==
    ASSUME NEW nx, NEW pv, NEW R, OneRing(nx, pv, R), IsFiniteSet(R), NEW e \in R,
           NEW k \in Nat, k >= Cardinality(R)
    PROVE  \A c \in R : \E j \in 1..Cardinality(R) : Walk(nx, e, k)[j] = c
  <1>1. PICK w : w = Walk(nx, e, k)
    OBVIOUS
  <1>2. \A j \in 1..k : w[j] \in R
    BY <1>1, WalkStays DEF OneRing
  <1>3. PICK r \in Nat : r = Cardinality(R)
    BY FS_CardinalityType
  <1> DEFINE S(n) == {w[j] : j \in 1..n}
             G == {n \in Nat : n <= r => S(n) = R \/ Cardinality(S(n)) = n}
  <1>4. \A n \in Nat : n <= r => S(n) \in SUBSET R
    <2>1. \A n \in Nat : n <= r => \A j \in 1..n : j \in 1..k
      BY <1>3
    <2> QED BY <1>2, <2>1
  <1>5. 0 \in G
    <2>1. S(0) = {}
      OBVIOUS
    <2> QED BY <2>1, FS_EmptySet
  <1>6. ASSUME NEW n \in Nat, n \in G PROVE n + 1 \in G
    <2>1. SUFFICES ASSUME n + 1 <= r PROVE S(n + 1) = R \/ Cardinality(S(n + 1)) = n + 1
      OBVIOUS
    <2>2. S(n + 1) = S(n) \cup {w[n + 1]}
      <3>1. 1..(n + 1) = 1..n \cup {n + 1}
        OBVIOUS
      <3> QED BY <3>1
    <2>3. S(n) \in SUBSET R /\ S(n + 1) \in SUBSET R
      BY <1>4, <2>1
    <2>4. CASE S(n) = R
      BY <2>2, <2>3, <2>4
    <2>5. CASE S(n) # R /\ w[n + 1] \in S(n)
      <3>1. PICK i \in 1..n : w[n + 1] = w[i]
        BY <2>5
      <3>2. n \in 1..(k - 1)
        BY <1>3, <2>1, <3>1
      <3>3. \A c \in R : \E j \in 1..n : w[j] = c
        BY <1>1, <3>1, <3>2, WalkReturns
      <3> QED BY <2>3, <2>5, <3>3
    <2>6. CASE S(n) # R /\ w[n + 1] \notin S(n)
      <3>1. Cardinality(S(n)) = n
        BY <1>6, <2>1, <2>6
      <3>2. IsFiniteSet(S(n))
        BY <2>3, FS_Subset
      <3> HIDE DEF S
      <3>3. Cardinality(S(n + 1)) = n + 1
        BY <2>2, <2>6, <3>1, <3>2, FS_AddElement
      <3> QED BY <3>3
    <2> QED BY <2>4, <2>5, <2>6
  <1>7. r \in G
    <2> HIDE DEF G
    <2> QED BY <1>5, <1>6, NumberInduction
  <1>8. S(r) = R
    <2>1. S(r) \in SUBSET R /\ (S(r) = R \/ Cardinality(S(r)) = r)
      BY <1>4, <1>7
    <2> HIDE DEF S
    <2> QED BY <1>3, <2>1, FS_Subset
  <1> QED BY <1>1, <1>3, <1>8

\* A shorter walk is the beginning of a longer one.
LEMMA WalkPrefix ==
    ASSUME NEW f, NEW e, NEW k \in Nat, NEW m \in 0..k
    PROVE  \A i \in 1..m : Walk(f, e, m)[i] = Walk(f, e, k)[i]
  <1>1. PICK v, w : v = Walk(f, e, m) /\ w = Walk(f, e, k)
    OBVIOUS
  <1>2. (m > 0 => v[1] = e) /\ \A i \in 1..(m - 1) : v[i + 1] = f[v[i]]
    BY <1>1, WalkIs
  <1>3. (k > 0 => w[1] = e) /\ \A i \in 1..(k - 1) : w[i + 1] = f[w[i]]
    BY <1>1, WalkIs
  <1> DEFINE G == {i \in Nat : i < m => v[i + 1] = w[i + 1]}
  <1>4. 0 \in G
    BY <1>2, <1>3
  <1>5. ASSUME NEW i \in Nat, i \in G PROVE i + 1 \in G
    <2>1. SUFFICES ASSUME i + 1 < m PROVE v[(i + 1) + 1] = w[(i + 1) + 1]
      OBVIOUS
    <2>2. i + 1 \in 1..(m - 1) /\ i + 1 \in 1..(k - 1) /\ v[i + 1] = w[i + 1]
      BY <1>5, <2>1
    <2> QED BY <1>2, <1>3, <2>2
  <1>6. \A i \in Nat : i \in G
    <2> HIDE DEF G
    <2> QED BY <1>4, <1>5, NumberInduction
  <1>7. ASSUME NEW i \in 1..m PROVE v[i] = w[i]
    <2>1. i - 1 \in Nat /\ i - 1 < m /\ (i - 1) + 1 = i
      OBVIOUS
    <2> QED BY <1>6, <2>1
  <1> QED BY <1>1, <1>7

\* A walk is a sequence of what it stays in.
LEMMA WalkIsSeq ==
    ASSUME NEW f, NEW R, \A c \in R : f[c] \in R, NEW e \in R, NEW k \in Nat
    PROVE  Walk(f, e, k) \in Seq(R) /\ Len(Walk(f, e, k)) = k
  <1>1. PICK w : w = Walk(f, e, k)
    OBVIOUS
  <1>2. w = [i \in 1..k |-> w[i]] /\ \A i \in 1..k : w[i] \in R
    BY <1>1, WalkIs, WalkStays
  <1>3. w \in Seq(R) /\ Len(w) = k
    BY <1>2
  <1> QED BY <1>1, <1>3

\* C, of length m, are the chunks from from to to, in the order of the ring, each once.
Leads(nx, R, from, to, m, C) ==
    /\ m \in Nat \ {0} /\ C \in Seq(R) /\ Len(C) = m /\ C[1] = from /\ C[m] = to
    /\ Stretch(nx, R, C, m)

\* What Reach and Chain give on a ring: the elements from one to the other, each once.
LEMMA ReachIs ==
    ASSUME NEW nx, NEW pv, NEW R \in SUBSET Chunks, OneRing(nx, pv, R), NEW from \in R, NEW to \in R
    PROVE  Leads(nx, R, from, to, Reach(nx, from, to), Walk(nx, from, Reach(nx, from, to)))
  <1>1. PICK k \in Nat : k = Cardinality(Chunks) /\ k >= Cardinality(R) /\ IsFiniteSet(R) /\ Cardinality(R) \in Nat
    BY ConstantsAssumption, FS_Subset, FS_CardinalityType
  <1>2. \A c \in R : nx[c] \in R
    BY DEF OneRing
  <1>3. PICK w : w = Walk(nx, from, k)
    OBVIOUS
  <1>4. w \in Seq(R) /\ Len(w) = k
    BY <1>2, <1>3, WalkIsSeq
  <1> DEFINE I == {i \in 1..k : w[i] = to}
  <1>5. I # {}
    <2>1. \E j \in 1..Cardinality(R) : w[j] = to
      BY <1>1, <1>3, WalkCovers
    <2> QED BY <1>1, <2>1
  <1>6. Reach(nx, from, to) = Min(I)
    <2>1. {i \in 1..Len(w) : w[i] = to} # {}
      BY <1>4, <1>5
    <2>2. SelectInSeq(w, LAMBDA c : c = to) = Min({i \in 1..Len(w) : w[i] = to})
      BY <2>1 DEF SelectInSeq
    <2>3. Reach(nx, from, to) = SelectInSeq(w, LAMBDA c : c = to)
      BY <1>1, <1>3 DEF Reach
    <2> QED BY <1>4, <2>2, <2>3
  <1>7. Min(I) \in I /\ \A y \in I : Min(I) <= y
    <2>1. I \in SUBSET Int /\ \A x \in I : x >= 0
      OBVIOUS
    <2> HIDE DEF I
    <2> QED BY <1>5, <2>1, MinIs
  <1>8. PICK m \in 1..k : m = Reach(nx, from, to) /\ w[m] = to /\ \A i \in 1..k : w[i] = to => m <= i
    BY <1>6, <1>7
  <1>9. PICK v : v = Walk(nx, from, m)
    OBVIOUS
  <1>10. v \in Seq(R) /\ Len(v) = m
    <2>1. m \in Nat
      OBVIOUS
    <2> QED BY <1>2, <1>9, <2>1, WalkIsSeq
  <1>11. \A i \in 1..m : v[i] = w[i]
    BY <1>3, <1>9, WalkPrefix
  <1>12. v[1] = from /\ \A i \in 1..(m - 1) : nx[v[i]] = v[i + 1]
    BY <1>9, WalkIs
  <1>13. ASSUME NEW i \in 1..m, NEW j \in 1..m, i < j, v[i] = v[j] PROVE FALSE
    <2>1. PICK n \in 1..(k - 1) : j = n + 1
      <3>1. j - 1 \in 1..(k - 1) /\ j = (j - 1) + 1
        BY <1>13
      <3> QED BY <3>1
    <2>2. i \in 1..n /\ w[n + 1] = w[i]
      BY <1>11, <1>13, <2>1
    <2>3. PICK l \in 1..n : w[l] = to
      BY <1>3, <2>2, WalkReturns
    <2>4. l \in 1..k /\ l < m
      BY <2>1
    <2> QED BY <1>8, <2>3, <2>4
  <1>14. \A i, j \in 1..m : v[i] = v[j] => i = j
    <2>1. \A i, j \in 1..m : i < j \/ j < i \/ i = j
      OBVIOUS
    <2> QED BY <1>13, <2>1
  <1>15. Stretch(nx, R, v, m)
    BY <1>10, <1>12, <1>14 DEF Stretch, Listed
  <1> QED BY <1>8, <1>9, <1>10, <1>11, <1>12, <1>15 DEF Leads

-----------------------------------------------------------------------------
(* The loops *)

\* LinkUp connects its elements one after the other.
LEMMA LinkWalk ==
    ASSUME NEW s, NEW q, NEW n \in Nat, NEW seq, seq = [i \in 1..(Len(q) - 1) |-> i], DOMAIN seq = 1..n
    PROVE  Arrives("link", q, s, seq, n, LinkUp(s, q))
  <1> DEFINE Concrete(g) == g = [u \in SUBSET (DOMAIN [i \in 1..(Len(q) - 1) |-> i]) |->
                                    IF u = {} THEN s
                                    ELSE Connect(g[u \ {Max(u)}], q[[i \in 1..(Len(q) - 1) |-> i][Max(u)]],
                                                 q[[i \in 1..(Len(q) - 1) |-> i][Max(u)] + 1])]
  <1>1. \A g : Walks(g, "link", q, s, seq, SUBSET (1..n)) <=> Concrete(g)
    BY DEF Walks, LoopStep
  <1>2. LinkUp(s, q) = (CHOOSE g : Concrete(g))[DOMAIN [i \in 1..(Len(q) - 1) |-> i]]
    BY DEF LinkUp, FoldLeft, MapThenFoldSet
  <1>3. PICK g : g = CHOOSE f : Concrete(f)
    OBVIOUS
  <1>4. Concrete(g)
    <2>1. \E f : Concrete(f)
      <3> HIDE DEF Concrete
      <3> QED BY <1>1, WalksExist
    <2> HIDE DEF Concrete
    <2> QED BY <1>3, <2>1
  <1>5. LinkUp(s, q) = g[1..n]
    BY <1>2, <1>3
  <1>6. Walks(g, "link", q, s, seq, SUBSET (1..n))
    BY <1>1, <1>4
  <1> QED BY <1>5, <1>6, WalkGoes

\* Those looks at its elements one after the other.
LEMMA ThoseWalk ==
    ASSUME NEW s, NEW q, NEW S, NEW n \in Nat, DOMAIN q = 1..n
    PROVE  Arrives("those", [s |-> s, S |-> S], <<>>, q, n, Those(s, q, S))
  <1> DEFINE Concrete(g) == g = [u \in SUBSET (DOMAIN q) |->
                                    IF u = {} THEN <<>>
                                    ELSE IF s.status[q[Max(u)]] \in S THEN Append(g[u \ {Max(u)}], q[Max(u)])
                                         ELSE g[u \ {Max(u)}]]
  <1>1. \A g : Walks(g, "those", [s |-> s, S |-> S], <<>>, q, SUBSET (1..n)) <=> Concrete(g)
    BY DEF Walks, LoopStep
  <1>2. Those(s, q, S) = (CHOOSE g : Concrete(g))[DOMAIN q]
    BY DEF Those, FoldLeft, MapThenFoldSet
  <1>3. PICK g : g = CHOOSE f : Concrete(f)
    OBVIOUS
  <1>4. Concrete(g)
    <2>1. \E f : Concrete(f)
      <3> HIDE DEF Concrete
      <3> QED BY <1>1, WalksExist
    <2> HIDE DEF Concrete
    <2> QED BY <1>3, <2>1
  <1>5. Those(s, q, S) = g[1..n]
    BY <1>2, <1>3
  <1>6. Walks(g, "those", [s |-> s, S |-> S], <<>>, q, SUBSET (1..n))
    BY <1>1, <1>4
  <1> QED BY <1>5, <1>6, WalkGoes

\* swapOut looks at the chunks behind counterActive one after the other.
LEMMA VictimsWalk ==
    ASSUME NEW s, NEW n, NEW k \in Nat, DOMAIN Backward(s) = 1..k
    PROVE  Arrives("victims", [s |-> s, want |-> Goal(s, n)],
                   [bytes |-> 0, list |-> <<>>, passed |-> 0, last |-> 0], Backward(s), k, Victims(s, n))
  <1> DEFINE base == [bytes |-> 0, list |-> <<>>, passed |-> 0, last |-> 0]
             Concrete(g) == g = [u \in SUBSET (DOMAIN Backward(s)) |->
                                    IF u = {} THEN base
                                    ELSE VictimStep(s, Goal(s, n), g[u \ {Max(u)}], Backward(s)[Max(u)])]
  <1>1. \A g : Walks(g, "victims", [s |-> s, want |-> Goal(s, n)], base, Backward(s), SUBSET (1..k)) <=> Concrete(g)
    BY DEF Walks, LoopStep
  <1>2. Victims(s, n) = (CHOOSE g : Concrete(g))[DOMAIN Backward(s)]
    BY DEF Victims, FoldLeft, MapThenFoldSet, VictimStep
  <1>3. PICK g : g = CHOOSE f : Concrete(f)
    OBVIOUS
  <1>4. Concrete(g)
    <2>1. \E f : Concrete(f)
      <3> HIDE DEF Concrete
      <3> QED BY <1>1, WalksExist
    <2> HIDE DEF Concrete
    <2> QED BY <1>3, <2>1
  <1>5. Victims(s, n) = g[1..k]
    BY <1>2, <1>3
  <1>6. Walks(g, "victims", [s |-> s, want |-> Goal(s, n)], base, Backward(s), SUBSET (1..k))
    BY <1>1, <1>4
  <1> QED BY <1>5, <1>6, WalkGoes

\* Where active comes to, stepping back from each chunk taken that it points to.
SteppedBack(s, list) == FoldLeft(LAMBDA a, c : IF a = c THEN s.prev[a] ELSE a, s.active, list)

\* The loop that moves active back.
LEMMA BackWalk ==
    ASSUME NEW s, NEW list, NEW n \in Nat, DOMAIN list = 1..n
    PROVE  Arrives("back", s.prev, s.active, list, n, SteppedBack(s, list))
  <1> DEFINE Concrete(g) == g = [u \in SUBSET (DOMAIN list) |->
                                    IF u = {} THEN s.active
                                    ELSE IF g[u \ {Max(u)}] = list[Max(u)] THEN s.prev[g[u \ {Max(u)}]]
                                         ELSE g[u \ {Max(u)}]]
  <1>1. \A g : Walks(g, "back", s.prev, s.active, list, SUBSET (1..n)) <=> Concrete(g)
    BY DEF Walks, LoopStep
  <1>2. SteppedBack(s, list) = (CHOOSE g : Concrete(g))[DOMAIN list]
    BY DEF SteppedBack, FoldLeft, MapThenFoldSet
  <1>3. PICK g : g = CHOOSE f : Concrete(f)
    OBVIOUS
  <1>4. Concrete(g)
    <2>1. \E f : Concrete(f)
      <3> HIDE DEF Concrete
      <3> QED BY <1>1, WalksExist
    <2> HIDE DEF Concrete
    <2> QED BY <1>3, <2>1
  <1>5. SteppedBack(s, list) = g[1..n]
    BY <1>2, <1>3
  <1>6. Walks(g, "back", s.prev, s.active, list, SUBSET (1..n))
    BY <1>1, <1>4
  <1> QED BY <1>5, <1>6, WalkGoes

-----------------------------------------------------------------------------
(* States of the manager *)

SchedType ==
    [next : [Chunks -> Elements], prev : [Chunks -> Elements],
     active : Elements, counterActive : Elements, preemptiveStart : Elements,
     preemptiveBytes : Nat, consecutive : 0..2, sinceLast : 0..2,
     status : [Chunks -> Statuses], users : [Chunks -> SUBSET Threads],
     preloaded : SUBSET Chunks, copies : SUBSET Chunks, unloadedAll : BOOLEAN,
     asynchronous : BOOLEAN, preemptiveSwapIn : BOOLEAN, most : Nat]

\* What linking does not change.
SameMembers(s, r) ==
    /\ r.preemptiveStart = s.preemptiveStart /\ r.preemptiveBytes = s.preemptiveBytes
    /\ r.consecutive = s.consecutive /\ r.sinceLast = s.sinceLast
    /\ r.status = s.status /\ r.users = s.users
    /\ r.preloaded = s.preloaded /\ r.copies = s.copies /\ r.unloadedAll = s.unloadedAll
    /\ r.asynchronous = s.asynchronous /\ r.preemptiveSwapIn = s.preemptiveSwapIn /\ r.most = s.most

Relinked(s, r) == /\ r \in SchedType /\ SameMembers(s, r)
                  /\ r.active = s.active /\ r.counterActive = s.counterActive

\* Linking twice is linking.
LEMMA RelinkedTwice ==
    ASSUME NEW s, NEW r, NEW v, Relinked(s, r), Relinked(r, v)
    PROVE  Relinked(s, v)
  BY DEF Relinked, SameMembers

\* Two chunks are connected.
LEMMA ConnectIs ==
    ASSUME NEW s \in SchedType, NEW a \in Chunks, NEW b \in Chunks
    PROVE  /\ Relinked(s, Connect(s, a, b))
           /\ Connect(s, a, b).next = [s.next EXCEPT ![a] = b]
           /\ Connect(s, a, b).prev = [s.prev EXCEPT ![b] = a]
  <1>1. PICK r : r = Connect(s, a, b)
    OBVIOUS
  <1>2. a \in Elements /\ b \in Elements
    BY DEF Elements
  <1>3. r \in SchedType
    BY <1>1, <1>2 DEF Connect, SchedType
  <1>4. SameMembers(s, r) /\ r.active = s.active /\ r.counterActive = s.counterActive
    BY <1>1 DEF Connect, SchedType, SameMembers
  <1>5. r.next = [s.next EXCEPT ![a] = b] /\ r.prev = [s.prev EXCEPT ![b] = a]
    BY <1>1 DEF Connect, SchedType
  <1> QED BY <1>1, <1>3, <1>4, <1>5 DEF Relinked

\* Next and prev of r lead along q, of length n, and are those of s elsewhere.
Threaded(s, r, q, n) ==
    /\ \A i \in 1..(n - 1) : r.next[q[i]] = q[i + 1] /\ r.prev[q[i + 1]] = q[i]
    /\ \A x \in Chunks \ Part(q, n) : r.next[x] = s.next[x] /\ r.prev[x] = s.prev[x]

\* LinkUp.
LEMMA LinkUpIs ==
    ASSUME NEW s \in SchedType, NEW q, NEW n \in Nat, Len(q) = n, Listed(Chunks, q, n)
    PROVE  Relinked(s, LinkUp(s, q)) /\ Threaded(s, LinkUp(s, q), q, n)
  <1>1. PICK m \in Nat : 1..(n - 1) = 1..m /\ (n > 0 => m = n - 1) /\ (n = 0 => m = 0)
    <2>1. CASE n = 0
      <3>1. 1..(n - 1) = 1..0
        BY <2>1
      <3> QED BY <2>1, <3>1
    <2>2. CASE n > 0
      BY <2>2
    <2> QED BY <2>1, <2>2
  <1>2. PICK seq : seq = [i \in 1..(Len(q) - 1) |-> i]
    OBVIOUS
  <1>3. DOMAIN seq = 1..m /\ \A i \in 1..m : seq[i] = i
    BY <1>1, <1>2
  <1>4. Arrives("link", q, s, seq, m, LinkUp(s, q))
    BY <1>2, <1>3, LinkWalk
  <1>5. PICK h : Course(h, "link", q, s, seq, m) /\ h[m] = LinkUp(s, q)
    BY <1>4 DEF Arrives
  <1>6. h[0] = s /\ \A i \in 1..m : h[i] = Connect(h[i - 1], q[i], q[i + 1])
    BY <1>3, <1>5 DEF Course, LoopStep
  <1>7. \A i \in 1..m : i \in 1..n /\ i + 1 \in 1..n
    BY <1>1
  <1>8. \A i \in 1..n : q[i] \in Chunks
    BY DEF Listed
  <1>9. \A i, j \in 1..n : q[i] = q[j] => i = j
    BY DEF Listed
  <1> DEFINE Led(r, i) ==
                 /\ Relinked(s, r)
                 /\ \A j \in 1..i : r.next[q[j]] = q[j + 1] /\ r.prev[q[j + 1]] = q[j]
                 /\ \A x \in Chunks \ Part(q, n) : r.next[x] = s.next[x] /\ r.prev[x] = s.prev[x]
             G == {i \in Nat : i <= m => Led(h[i], i)}
  <1>10. 0 \in G
    <2>1. Relinked(s, s)
      BY DEF Relinked, SameMembers
    <2> QED BY <1>6, <2>1
  <1>11. ASSUME NEW i \in Nat, i \in G PROVE i + 1 \in G
    <2>1. SUFFICES ASSUME i + 1 <= m PROVE Led(h[i + 1], i + 1)
      OBVIOUS
    <2>2. i + 1 \in 1..m /\ (i + 1) - 1 = i /\ i <= m
      BY <2>1
    <2>3. PICK a, b : a = q[i + 1] /\ b = q[(i + 1) + 1] /\ a \in Chunks /\ b \in Chunks
      BY <1>7, <1>8, <2>2
    <2>4. PICK v : v = h[i] /\ Led(v, i)
      BY <1>11, <2>2
    <2>5. v \in SchedType
      BY <2>4 DEF Relinked
    <2>6. PICK r : r = Connect(v, a, b)
      OBVIOUS
    <2>7. h[i + 1] = r
      BY <1>6, <2>2, <2>3, <2>4, <2>6
    <2>8. /\ Relinked(v, r)
          /\ r.next = [v.next EXCEPT ![a] = b] /\ r.prev = [v.prev EXCEPT ![b] = a]
      BY <2>3, <2>5, <2>6, ConnectIs
    <2>9. Relinked(s, r)
      BY <2>4, <2>8, RelinkedTwice
    <2>10. v.next \in [Chunks -> Elements] /\ v.prev \in [Chunks -> Elements]
      BY <2>5 DEF SchedType
    <2>11. ASSUME NEW j \in 1..(i + 1) PROVE r.next[q[j]] = q[j + 1] /\ r.prev[q[j + 1]] = q[j]
      <3>1. CASE j = i + 1
        BY <2>3, <2>8, <2>10, <3>1
      <3>2. CASE j # i + 1
        <4>1. j \in 1..i /\ j \in 1..m
          BY <2>2, <3>2
        <4>2. q[j] \in Chunks /\ q[j + 1] \in Chunks
          BY <1>7, <1>8, <4>1
        <4>3. q[j] # a /\ q[j + 1] # b
          <5>1. j # i + 1 /\ j + 1 # (i + 1) + 1
            BY <3>2
          <5>2. j \in 1..n /\ i + 1 \in 1..n /\ j + 1 \in 1..n /\ (i + 1) + 1 \in 1..n
            BY <1>7, <2>2, <4>1
          <5> QED BY <1>9, <2>3, <5>1, <5>2
        <4>4. v.next[q[j]] = q[j + 1] /\ v.prev[q[j + 1]] = q[j]
          BY <2>4, <4>1
        <4> QED BY <2>8, <2>10, <4>2, <4>3, <4>4
      <3> QED BY <3>1, <3>2
    <2>12. ASSUME NEW x \in Chunks \ Part(q, n) PROVE r.next[x] = s.next[x] /\ r.prev[x] = s.prev[x]
      <3>1. x # a /\ x # b
        <4>1. i + 1 \in 1..n /\ (i + 1) + 1 \in 1..n
          BY <1>7, <2>2
        <4> QED BY <2>3, <4>1 DEF Part
      <3>2. v.next[x] = s.next[x] /\ v.prev[x] = s.prev[x]
        BY <2>4
      <3> QED BY <2>8, <2>10, <3>1, <3>2
    <2> QED BY <2>7, <2>9, <2>11, <2>12
  <1>12. m \in G
    <2> HIDE DEF G
    <2> QED BY <1>10, <1>11, NumberInduction
  <1>13. Led(LinkUp(s, q), m)
    BY <1>5, <1>12
  <1> QED BY <1>1, <1>13 DEF Threaded

\* Those sorts the n chunks of q: f has a status in S, g one in T.
Parted(s, S, T, q, n, f, k, g, l) ==
    /\ k + l = n
    /\ f \in [1..k -> Part(q, n)] /\ Len(f) = k /\ Listed(Chunks, f, k)
    /\ g \in [1..l -> Part(q, n)] /\ Len(g) = l /\ Listed(Chunks, g, l)
    /\ \A i \in 1..k : s.status[f[i]] \in S
    /\ \A i \in 1..l : s.status[g[i]] \in T
    /\ \A i \in 1..n : \/ s.status[q[i]] \in S /\ \E j \in 1..k : q[i] = f[j]
                       \/ s.status[q[i]] \in T /\ \E j \in 1..l : q[i] = g[j]

\* Sorting a list by status gives two lists that have its elements between them.
LEMMA ThoseAre ==
    ASSUME NEW s, NEW S, NEW T, NEW q, NEW n \in Nat, DOMAIN q = 1..n, Listed(Chunks, q, n),
           \A i \in 1..n : s.status[q[i]] \in S <=> s.status[q[i]] \notin T
    PROVE  \E k, l \in 0..n : Parted(s, S, T, q, n, Those(s, q, S), k, Those(s, q, T), l)
  <1>1. PICK g : Course(g, "those", [s |-> s, S |-> S], <<>>, q, n) /\ g[n] = Those(s, q, S)
    BY ThoseWalk DEF Arrives
  <1>2. PICK h : Course(h, "those", [s |-> s, S |-> T], <<>>, q, n) /\ h[n] = Those(s, q, T)
    BY ThoseWalk DEF Arrives
  <1>3. g[0] = <<>> /\ \A i \in 1..n : g[i] = IF s.status[q[i]] \in S THEN Append(g[i - 1], q[i]) ELSE g[i - 1]
    BY <1>1 DEF Course, LoopStep
  <1>4. h[0] = <<>> /\ \A i \in 1..n : h[i] = IF s.status[q[i]] \in T THEN Append(h[i - 1], q[i]) ELSE h[i - 1]
    BY <1>2 DEF Course, LoopStep
  <1>5. \A i \in 1..n : q[i] \in Chunks
    BY DEF Listed
  <1>6. \A i, j \in 1..n : q[i] = q[j] => i = j
    BY DEF Listed
  \* p lists those of the first m chunks of q that have a status in U.
  <1> DEFINE Picked(p, U, m, k) ==
                 /\ p \in [1..k -> Part(q, m)] /\ p \in Seq(Chunks) /\ Len(p) = k
                 /\ \A i, j \in 1..k : p[i] = p[j] => i = j
                 /\ \A i \in 1..k : s.status[p[i]] \in U
                 /\ \A i \in 1..m : s.status[q[i]] \in U => \E j \in 1..k : q[i] = p[j]
  <1>7. ASSUME NEW m \in Nat, m + 1 \in 1..n, NEW k \in 0..m, NEW U, NEW p, Picked(p, U, m, k), s.status[q[m + 1]] \in U
        PROVE  Picked(Append(p, q[m + 1]), U, m + 1, k + 1)
    <2>1. PICK e : e = q[m + 1] /\ e \in Chunks
      BY <1>5, <1>7
    <2>2. PICK r : r = Append(p, e)
      OBVIOUS
    <2>3. r \in Seq(Chunks) /\ Len(r) = k + 1 /\ r[k + 1] = e /\ \A i \in 1..k : r[i] = p[i]
      BY <1>7, <2>1, <2>2
    <2>4. Part(q, m + 1) = Part(q, m) \cup {e}
      <3>1. 1..(m + 1) = 1..m \cup {m + 1}
        OBVIOUS
      <3> QED BY <2>1, <3>1 DEF Part
    <2>5. \A i \in 1..(k + 1) : i \in 1..k \/ i = k + 1
      OBVIOUS
    <2>6. \A i \in 1..k : p[i] # e
      <3>1. SUFFICES ASSUME NEW i \in 1..k, p[i] = e PROVE FALSE
        OBVIOUS
      <3>2. p[i] \in Part(q, m)
        BY <1>7
      <3>3. PICK j \in 1..m : p[i] = q[j]
        BY <3>2 DEF Part
      <3>4. j \in 1..n /\ j # m + 1
        BY <1>7
      <3> QED BY <1>6, <1>7, <2>1, <3>1, <3>3, <3>4
    <2>7. \A i, j \in 1..(k + 1) : r[i] = r[j] => i = j
      BY <1>7, <2>3, <2>5, <2>6
    <2>8. \A i \in 1..(k + 1) : s.status[r[i]] \in U /\ r[i] \in Part(q, m + 1)
      BY <1>7, <2>1, <2>3, <2>4, <2>5
    <2>9. r \in [1..(k + 1) -> Part(q, m + 1)]
      BY <2>3, <2>8
    <2>10. ASSUME NEW i \in 1..(m + 1), s.status[q[i]] \in U PROVE \E j \in 1..(k + 1) : q[i] = r[j]
      <3>1. CASE i = m + 1
        <4>1. k + 1 \in 1..(k + 1)
          OBVIOUS
        <4> QED BY <2>1, <2>3, <3>1, <4>1
      <3>2. CASE i # m + 1
        <4>1. i \in 1..m
          BY <3>2
        <4>2. PICK j \in 1..k : q[i] = p[j]
          BY <1>7, <2>10, <4>1
        <4>3. j \in 1..(k + 1) /\ r[j] = p[j]
          BY <2>3
        <4> QED BY <4>2, <4>3
      <3> QED BY <3>1, <3>2
    <2> QED BY <2>1, <2>2, <2>3, <2>7, <2>8, <2>9, <2>10
  <1>8. ASSUME NEW m \in Nat, m + 1 \in 1..n, NEW k \in 0..m, NEW U, NEW p, Picked(p, U, m, k), s.status[q[m + 1]] \notin U
        PROVE  Picked(p, U, m + 1, k)
    <2>1. Part(q, m) \subseteq Part(q, m + 1)
      <3>1. \A i \in 1..m : i \in 1..(m + 1)
        OBVIOUS
      <3> QED BY <3>1 DEF Part
    <2>2. p \in [1..k -> Part(q, m + 1)]
      BY <1>8, <2>1
    <2>3. ASSUME NEW i \in 1..(m + 1), s.status[q[i]] \in U PROVE \E j \in 1..k : q[i] = p[j]
      <3>1. i # m + 1
        BY <1>8, <2>3
      <3>2. i \in 1..m
        BY <3>1
      <3> QED BY <1>8, <2>3, <3>2
    <2> QED BY <1>8, <2>2, <2>3
  <1> DEFINE G == {m \in Nat : m <= n => \E k, l \in 0..m : k + l = m /\ Picked(g[m], S, m, k) /\ Picked(h[m], T, m, l)}
  <1> HIDE DEF Picked
  <1>9. 0 \in G
    <2>1. \A U : Picked(<<>>, U, 0, 0)
      BY DEF Picked
    <2>2. Picked(g[0], S, 0, 0) /\ Picked(h[0], T, 0, 0)
      BY <1>3, <1>4, <2>1
    <2>3. 0 \in 0..0 /\ 0 + 0 = 0
      OBVIOUS
    <2> QED BY <2>2, <2>3
  <1>10. ASSUME NEW m \in Nat, m \in G PROVE m + 1 \in G
    <2>1. SUFFICES ASSUME m + 1 <= n
                   PROVE  \E k, l \in 0..(m + 1) : k + l = m + 1 /\ Picked(g[m + 1], S, m + 1, k)
                                                                 /\ Picked(h[m + 1], T, m + 1, l)
      OBVIOUS
    <2>2. m <= n /\ m + 1 \in 1..n /\ (m + 1) - 1 = m
      BY <2>1
    <2>3. PICK k, l \in 0..m : k + l = m /\ Picked(g[m], S, m, k) /\ Picked(h[m], T, m, l)
      BY <1>10, <2>2
    <2>4. CASE s.status[q[m + 1]] \in S
      <3>1. s.status[q[m + 1]] \notin T
        BY <2>2, <2>4
      <3>2. g[m + 1] = Append(g[m], q[m + 1]) /\ h[m + 1] = h[m]
        BY <1>3, <1>4, <2>2, <2>4, <3>1
      <3>3. Picked(g[m + 1], S, m + 1, k + 1)
        BY <1>7, <2>2, <2>3, <2>4, <3>2
      <3>4. Picked(h[m + 1], T, m + 1, l)
        BY <1>8, <2>2, <2>3, <3>1, <3>2
      <3>5. k + 1 \in 0..(m + 1) /\ l \in 0..(m + 1) /\ (k + 1) + l = m + 1
        BY <2>3
      <3> QED BY <3>3, <3>4, <3>5
    <2>5. CASE s.status[q[m + 1]] \notin S
      <3>1. s.status[q[m + 1]] \in T
        BY <2>2, <2>5
      <3>2. g[m + 1] = g[m] /\ h[m + 1] = Append(h[m], q[m + 1])
        BY <1>3, <1>4, <2>2, <2>5, <3>1
      <3>3. Picked(h[m + 1], T, m + 1, l + 1)
        BY <1>7, <2>2, <2>3, <3>1, <3>2
      <3>4. Picked(g[m + 1], S, m + 1, k)
        BY <1>8, <2>2, <2>3, <2>5, <3>2
      <3>5. l + 1 \in 0..(m + 1) /\ k \in 0..(m + 1) /\ k + (l + 1) = m + 1
        BY <2>3
      <3> QED BY <3>3, <3>4, <3>5
    <2> QED BY <2>4, <2>5
  <1>11. n \in G
    <2> HIDE DEF G
    <2> QED BY <1>9, <1>10, NumberInduction
  <1>12. PICK k, l \in 0..n : k + l = n /\ Picked(Those(s, q, S), S, n, k) /\ Picked(Those(s, q, T), T, n, l)
    BY <1>1, <1>2, <1>11
  <1>13. Part(q, n) \subseteq Chunks
    BY <1>5 DEF Part
  <1>14. \A p, U : \A j \in 0..n : Picked(p, U, n, j) => Listed(Chunks, p, j)
    BY <1>13 DEF Picked, Listed
  <1> QED
    <2>1. Listed(Chunks, Those(s, q, S), k) /\ Listed(Chunks, Those(s, q, T), l)
      BY <1>12, <1>14
    <2>2. Parted(s, S, T, q, n, Those(s, q, S), k, Those(s, q, T), l)
      BY <1>12, <2>1 DEF Picked, Parted
    <2> QED BY <2>2

-----------------------------------------------------------------------------
(* What swapOut unloaded is gathered *)

\* Next and prev of r lead along q, of length n.
Along(r, q, n) == \A i \in 1..(n - 1) : r.next[q[i]] = q[i + 1] /\ r.prev[q[i + 1]] = q[i]

\* kept and sep are the chunks of C, sorted by their status; in v each is linked up.
Sorted(s, C, m, S, sep, l, kept, k, v) ==
    /\ k \in Nat /\ l \in Nat /\ k + l = m
    /\ sep \in [1..l -> Part(C, m)] /\ Len(sep) = l /\ Listed(Chunks, sep, l)
    /\ kept \in [1..k -> Part(C, m)] /\ Len(kept) = k /\ Listed(Chunks, kept, k)
    /\ \A i \in 1..l, j \in 1..k : sep[i] # kept[j]
    /\ \A i \in 1..m : \/ s.status[C[i]] \in S /\ \E j \in 1..l : C[i] = sep[j]
                       \/ s.status[C[i]] \notin S /\ \E j \in 1..k : C[i] = kept[j]
    /\ Relinked(s, v)
    /\ Along(v, sep, l) /\ Along(v, kept, k)
    /\ \A x \in Chunks \ Part(C, m) : v.next[x] = s.next[x] /\ v.prev[x] = s.prev[x]

\* The two lists that filterChain makes of a chain, with the links it sets along them.
LEMMA SortedIs ==
    ASSUME NEW s \in SchedType, NEW m \in Nat, NEW C \in Seq(Chunks), Len(C) = m, Listed(Chunks, C, m),
           NEW S \in SUBSET Statuses
    PROVE  \E k, l \in Nat :
              Sorted(s, C, m, S, Those(s, C, S), l, Those(s, C, Statuses \ S), k,
                     LinkUp(LinkUp(s, Those(s, C, S)), Those(s, C, Statuses \ S)))
  <1>1. PICK sep, kept : sep = Those(s, C, S) /\ kept = Those(s, C, Statuses \ S)
    OBVIOUS
  <1>2. DOMAIN C = 1..m
    OBVIOUS
  <1>3. \A i \in 1..m : C[i] \in Chunks /\ s.status[C[i]] \in Statuses
    BY DEF Listed, SchedType
  <1>4. PICK l, k \in 0..m :
              /\ l + k = m
              /\ sep \in [1..l -> Part(C, m)] /\ Len(sep) = l
              /\ kept \in [1..k -> Part(C, m)] /\ Len(kept) = k
              /\ Listed(Chunks, sep, l) /\ Listed(Chunks, kept, k)
              /\ \A i \in 1..l : s.status[sep[i]] \in S
              /\ \A i \in 1..k : s.status[kept[i]] \in Statuses \ S
              /\ \A i \in 1..m : \/ s.status[C[i]] \in S /\ \E j \in 1..l : C[i] = sep[j]
                                 \/ s.status[C[i]] \in Statuses \ S /\ \E j \in 1..k : C[i] = kept[j]
    <2> DEFINE T == Statuses \ S
    <2>1. \A i \in 1..m : s.status[C[i]] \in S <=> s.status[C[i]] \notin T
      BY <1>3
    <2> HIDE DEF T
    <2>2. PICK l, k \in 0..m : Parted(s, S, T, C, m, Those(s, C, S), l, Those(s, C, T), k)
      BY <1>2, <2>1, ThoseAre
    <2>3. Parted(s, S, T, C, m, sep, l, kept, k)
      BY <1>1, <2>2 DEF T
    <2> QED BY <2>3 DEF Parted, T
  <1>5. PICK u : u = LinkUp(s, sep)
    OBVIOUS
  <1>6. Relinked(s, u) /\ Threaded(s, u, sep, l)
    BY <1>4, <1>5, LinkUpIs
  <1>7. PICK v : v = LinkUp(u, kept)
    OBVIOUS
  <1>8. Relinked(u, v) /\ Threaded(u, v, kept, k)
    <2>1. u \in SchedType
      BY <1>6 DEF Relinked
    <2> QED BY <1>4, <1>7, <2>1, LinkUpIs
  <1>9. Relinked(s, v)
    BY <1>6, <1>8, RelinkedTwice
  <1>10. \A i \in 1..l, j \in 1..k : sep[i] # kept[j]
    BY <1>4
  <1>11. Along(v, kept, k)
    BY <1>8 DEF Threaded, Along
  <1>12. Along(v, sep, l)
    <2>1. SUFFICES ASSUME NEW i \in 1..(l - 1)
                   PROVE  v.next[sep[i]] = sep[i + 1] /\ v.prev[sep[i + 1]] = sep[i]
      BY DEF Along
    <2>2. i \in 1..l /\ i + 1 \in 1..l
      BY <1>4
    <2>3. sep[i] \in Chunks \ Part(kept, k) /\ sep[i + 1] \in Chunks \ Part(kept, k)
      BY <1>4, <1>10, <2>2 DEF Part, Listed
    <2>4. v.next[sep[i]] = u.next[sep[i]] /\ v.prev[sep[i + 1]] = u.prev[sep[i + 1]]
      BY <1>8, <2>3 DEF Threaded
    <2> QED BY <1>6, <2>4 DEF Threaded
  <1>13. ASSUME NEW x \in Chunks \ Part(C, m) PROVE v.next[x] = s.next[x] /\ v.prev[x] = s.prev[x]
    <2>1. x \notin Part(sep, l) /\ x \notin Part(kept, k)
      BY <1>4, <1>13 DEF Part
    <2> QED BY <1>6, <1>8, <2>1 DEF Threaded
  <1>14. Sorted(s, C, m, S, sep, l, kept, k, v)
    BY <1>4, <1>9, <1>10, <1>11, <1>12, <1>13 DEF Sorted
  <1> QED BY <1>1, <1>4, <1>5, <1>7, <1>14

\* The last chunk of a list, if it is sorted out, is the last of those sorted out.
LEMMA ThoseLast ==
    ASSUME NEW s, NEW S, NEW n \in Nat \ {0}, NEW q \in Seq(Chunks), Len(q) = n, s.status[q[n]] \in S,
           NEW f, f = Those(s, q, S)
    PROVE  Len(f) \in Nat \ {0} /\ f[Len(f)] = q[n]
  <1>1. DOMAIN q = 1..n /\ \A i \in 1..n : q[i] \in Chunks
    OBVIOUS
  <1>2. PICK h : Course(h, "those", [s |-> s, S |-> S], <<>>, q, n) /\ h[n] = f
    BY <1>1, ThoseWalk DEF Arrives
  <1>3. h[0] = <<>> /\ \A i \in 1..n : h[i] = IF s.status[q[i]] \in S THEN Append(h[i - 1], q[i]) ELSE h[i - 1]
    BY <1>2 DEF Course, LoopStep
  <1> DEFINE G == {i \in Nat : i <= n => h[i] \in Seq(Chunks)}
  <1>4. 0 \in G
    <2>1. <<>> \in Seq(Chunks)
      OBVIOUS
    <2> QED BY <1>3, <2>1
  <1>5. ASSUME NEW i \in Nat, i \in G PROVE i + 1 \in G
    <2>1. SUFFICES ASSUME i + 1 <= n PROVE h[i + 1] \in Seq(Chunks)
      OBVIOUS
    <2>2. i + 1 \in 1..n /\ (i + 1) - 1 = i /\ h[i] \in Seq(Chunks)
      BY <1>5, <2>1
    <2>3. q[i + 1] \in Chunks
      BY <1>1, <2>2
    <2>4. Append(h[i], q[i + 1]) \in Seq(Chunks)
      BY <2>2, <2>3
    <2> QED BY <1>3, <2>2, <2>4
  <1>6. n - 1 \in G
    <2>1. \A i \in Nat : i \in G
      <3> HIDE DEF G
      <3> QED BY <1>4, <1>5, NumberInduction
    <2> QED BY <2>1
  <1>7. n \in 1..n /\ h[n - 1] \in Seq(Chunks)
    BY <1>6
  <1>8. f = Append(h[n - 1], q[n])
    BY <1>2, <1>3, <1>7
  <1> QED BY <1>1, <1>7, <1>8

\* The chunk kept first, or separated first if none is kept.
Foremost(kept, k, sep) == IF k > 0 THEN kept[1] ELSE sep[1]

\* In r, kept is followed by sep, and both are where C is in s.
Joined(s, r, C, m, sep, l, kept, k, before, after) ==
    /\ r \in SchedType /\ SameMembers(s, r) /\ r.active = s.active
    /\ Along(r, sep, l) /\ Along(r, kept, k)
    /\ k > 0 => r.next[kept[k]] = sep[1] /\ r.prev[sep[1]] = kept[k]
    /\ r.next[sep[l]] = IF after = C[1] THEN Foremost(kept, k, sep) ELSE after
    /\ r.prev[Foremost(kept, k, sep)] = IF after = C[1] THEN sep[l] ELSE before
    /\ after # C[1] => r.next[before] = Foremost(kept, k, sep) /\ r.prev[after] = sep[l]
    /\ \A x \in Chunks \ Part(C, m) : /\ x = before \/ r.next[x] = s.next[x]
                                      /\ x = after \/ r.prev[x] = s.prev[x]

\* The chunks of R are still a ring, and no other chunk has been linked.
StaysRing(s, r, R) == OneRing(r.next, r.prev, R) /\ \A x \in Chunks \ R : r.next[x] = s.next[x]

\* Then the chunks of C have only been put into another order.
LEMMA JoinedIs ==
    ASSUME NEW s \in SchedType, NEW R \in SUBSET Chunks, OneRing(s.next, s.prev, R), NEW m \in Nat \ {0}, NEW C,
           Stretch(s.next, R, C, m), NEW before \in R, before = s.prev[C[1]], NEW after \in R, after = s.next[C[m]],
           NEW S, NEW sep, NEW l, NEW kept, NEW k, NEW v, Sorted(s, C, m, S, sep, l, kept, k, v), l > 0,
           NEW r, Joined(s, r, C, m, sep, l, kept, k, before, after)
    PROVE  StaysRing(s, r, R)
  <1> DEFINE J == [i \in 1..m |-> IF i <= k THEN kept[i] ELSE sep[i - k]]
  <1>1. /\ k \in Nat /\ l \in Nat /\ k + l = m
        /\ \A i \in 1..m : i \in 1..k \/ (i > k /\ i - k \in 1..l)
        /\ \A i \in 1..k : i \in 1..m /\ J[i] = kept[i]
        /\ \A i \in 1..l : k + i \in 1..m /\ J[k + i] = sep[i]
    <2>1. k \in Nat /\ l \in Nat /\ k + l = m
      BY DEF Sorted
    <2>2. \A i \in 1..l : k + i \in 1..m /\ ~(k + i <= k) /\ (k + i) - k = i
      BY <2>1
    <2> QED BY <2>1, <2>2
  <1>2. /\ \A i \in 1..l : sep[i] \in Part(C, m)
        /\ \A i \in 1..k : kept[i] \in Part(C, m)
        /\ \A i \in 1..l, j \in 1..k : sep[i] # kept[j]
    BY DEF Sorted
  <1>3. \A i \in 1..m : (\E j \in 1..l : C[i] = sep[j]) \/ (\E j \in 1..k : C[i] = kept[j])
    BY DEF Sorted
  <1>4. (\A i, j \in 1..l : sep[i] = sep[j] => i = j) /\ (\A i, j \in 1..k : kept[i] = kept[j] => i = j)
    BY DEF Sorted, Listed
  <1>5. Part(C, m) \subseteq R
    BY DEF Part, Stretch, Listed
  <1>6. \A i \in 1..m : (i \in 1..k /\ J[i] = kept[i]) \/ \E j \in 1..l : i = k + j /\ J[i] = sep[j]
    <2>1. \A i \in 1..m : i \in 1..k \/ \E j \in 1..l : i = k + j
      <3>1. \A i \in 1..m : i > k => i = k + (i - k)
        BY <1>1
      <3> QED BY <1>1, <3>1
    <2> QED BY <1>1, <2>1
  <1> HIDE DEF J
  <1>7. Listed(R, J, m)
    <2>1. \A i \in 1..m : J[i] \in R
      BY <1>2, <1>5, <1>6
    <2>2. \A i, j \in 1..m : J[i] = J[j] => i = j
      BY <1>2, <1>4, <1>6
    <2> QED BY <2>1, <2>2 DEF Listed
  <1>8. Alike(C, J, m)
    <2>1. \A i \in 1..m : \E j \in 1..m : C[i] = J[j]
      BY <1>1, <1>3
    <2>2. \A i \in 1..m : J[i] \in Part(C, m)
      BY <1>2, <1>6
    <2> QED BY <2>1, <2>2 DEF Alike, Part
  <1>9. J[1] = Foremost(kept, k, sep) /\ J[m] = sep[l]
    <2>1. CASE k > 0
      <3>1. 1 \in 1..k /\ l \in 1..l /\ k + l = m
        BY <1>1, <2>1
      <3> QED BY <1>1, <2>1, <3>1 DEF Foremost
    <2>2. CASE k = 0
      <3>1. 1 \in 1..l /\ l \in 1..l /\ k + 1 = 1 /\ k + l = m
        BY <1>1, <2>2
      <3> QED BY <1>1, <2>2, <3>1 DEF Foremost
    <2> QED BY <1>1, <2>1, <2>2
  <1>10. ASSUME NEW i \in 1..(m - 1) PROVE r.next[J[i]] = J[i + 1] /\ r.prev[J[i + 1]] = J[i]
    <2>1. CASE i < k
      <3>1. i \in 1..(k - 1) /\ i \in 1..k /\ i + 1 \in 1..k
        BY <1>1, <2>1
      <3> QED BY <1>1, <3>1 DEF Joined, Along
    <2>2. CASE i = k
      <3>1. k \in 1..k /\ 1 \in 1..l /\ i + 1 = k + 1 /\ k > 0
        BY <1>1, <2>2
      <3>2. J[i] = kept[k] /\ J[i + 1] = sep[1]
        BY <1>1, <2>2, <3>1
      <3> QED BY <3>1, <3>2 DEF Joined
    <2>3. CASE i > k
      <3>1. PICK j \in 1..(l - 1) : i = k + j
        <4>1. i - k \in 1..(l - 1) /\ i = k + (i - k)
          BY <1>1, <2>3
        <4> QED BY <4>1
      <3>2. j \in 1..l /\ j + 1 \in 1..l /\ i + 1 = k + (j + 1)
        BY <1>1, <3>1
      <3>3. J[i] = sep[j] /\ J[i + 1] = sep[j + 1]
        BY <1>1, <3>1, <3>2
      <3> QED BY <3>1, <3>3 DEF Joined, Along
    <2> QED BY <1>1, <2>1, <2>2, <2>3
  <1>11. Reordered(s.next, r.next, R, C, J, m, before, after)
    BY <1>9, <1>10 DEF Reordered, Joined
  <1>12. ReorderedBack(s.prev, r.prev, R, C, J, m, before, after)
    BY <1>9, <1>10 DEF ReorderedBack, Joined
  <1>13. OneRing(r.next, r.prev, R)
    BY <1>7, <1>8, <1>11, <1>12, RingReordered
  <1>14. \A x \in Chunks \ R : r.next[x] = s.next[x]
    BY <1>5 DEF Joined
  <1> QED BY <1>13, <1>14 DEF StaysRing

\* A sequence goes between pos and what is before it.
Inserted(s, r, pos, a, q, n) ==
    /\ Relinked(s, r)
    /\ r.next = [[s.next EXCEPT ![a] = q[1]] EXCEPT ![q[n]] = pos]
    /\ r.prev = [[s.prev EXCEPT ![q[1]] = a] EXCEPT ![pos] = q[n]]

\* A list of chunks is inserted before pos.
LEMMA InsertIs ==
    ASSUME NEW s \in SchedType, NEW pos \in Chunks, NEW a \in Chunks, a = s.prev[pos],
           NEW n \in Nat \ {0}, NEW q \in Seq(Chunks), Len(q) = n,
           NEW r, r = InsertBefore(s, pos, q)
    PROVE  Inserted(s, r, pos, a, q, n)
  <1>1. q # <<>> /\ Head(q) = q[1] /\ Last(q) = q[n] /\ q[1] \in Chunks /\ q[n] \in Chunks
    <2>1. 1 \in 1..n /\ n \in 1..n
      OBVIOUS
    <2> QED BY <2>1 DEF Last
  <1>2. PICK u : u = Connect(s, a, q[1])
    OBVIOUS
  <1>3. Relinked(s, u) /\ u.next = [s.next EXCEPT ![a] = q[1]] /\ u.prev = [s.prev EXCEPT ![q[1]] = a]
    BY <1>1, <1>2, ConnectIs
  <1>4. PICK v : v = Connect(u, q[n], pos)
    OBVIOUS
  <1>5. Relinked(u, v) /\ v.next = [u.next EXCEPT ![q[n]] = pos] /\ v.prev = [u.prev EXCEPT ![pos] = q[n]]
    <2>1. u \in SchedType
      BY <1>3 DEF Relinked
    <2> QED BY <1>1, <1>4, <2>1, ConnectIs
  <1>6. InsertBefore(s, pos, q) = v
    BY <1>1, <1>2, <1>4 DEF InsertBefore
  <1>7. Relinked(s, v)
    BY <1>3, <1>5, RelinkedTwice
  <1> QED BY <1>3, <1>5, <1>6, <1>7 DEF Inserted

\* No chunk joins or leaves the ring where the links outside stay.
LEMMA RingSame ==
    ASSUME NEW s \in SchedType, NEW r \in SchedType, NEW R, R = Ring(s),
           OneRing(r.next, r.prev, R), \A x \in Chunks \ R : r.next[x] = s.next[x]
    PROVE  Ring(r) = R
  <1>1. R \in SUBSET Chunks /\ \A x \in Chunks \ R : s.next[x] = NULL
    BY DEF Ring
  <1>2. \A x \in R : r.next[x] # NULL
    BY <1>1, ConstantsAssumption DEF OneRing
  <1> QED BY <1>1, <1>2 DEF Ring

\* All of a stretch goes from a ring that has other chunks or none, or some of it stays.
LEMMA ThreeWays ==
    ASSUME NEW n \in Nat, NEW x, NEW y
    PROVE  (n = 0 /\ x # y) \/ (n = 0 /\ x = y) \/ n > 0
  OBVIOUS

\* The links of r in the case that all of C goes, or that some of it stays.
LEMMA GatheredLinks ==
    ASSUME NEW s \in SchedType, NEW R \in SUBSET Chunks, OneRing(s.next, s.prev, R), NEW m \in Nat \ {0}, NEW C,
           Stretch(s.next, R, C, m), NEW before \in R, before = s.prev[C[1]], NEW after \in R, after = s.next[C[m]],
           NEW sep, NEW l, NEW kept, NEW k, NEW v, Sorted(s, C, m, Away, sep, l, kept, k, v), l > 0,
           s.active \in R,
           NEW f, f = [kept |-> kept, separated |-> sep,
                       s |-> IF kept # <<>> /\ after = C[1] THEN Connect(v, Last(kept), Head(kept))
                             ELSE IF kept # <<>> THEN Connect(Connect(v, before, Head(kept)), Last(kept), after)
                             ELSE IF after # C[1] THEN Connect(v, before, after)
                             ELSE v],
           NEW r, r = Gathered(s, C[1], after, f)
    PROVE  /\ Joined(s, r, C, m, sep, l, kept, k, before, after)
           /\ r.counterActive = IF k > 0 THEN kept[k] ELSE IF after # C[1] THEN before ELSE s.active
  <1>1. /\ k \in Nat /\ l \in Nat \ {0} /\ k + l = m
        /\ sep \in Seq(Chunks) /\ Len(sep) = l /\ kept \in Seq(Chunks) /\ Len(kept) = k
        /\ \A i \in 1..l : sep[i] \in Part(C, m) /\ sep[i] \in Chunks
        /\ \A i \in 1..k : kept[i] \in Part(C, m) /\ kept[i] \in Chunks
        /\ \A i \in 1..l, j \in 1..k : sep[i] # kept[j]
        /\ Relinked(s, v) /\ Along(v, sep, l) /\ Along(v, kept, k)
        /\ \A x \in Chunks \ Part(C, m) : v.next[x] = s.next[x] /\ v.prev[x] = s.prev[x]
    <2>1. Part(C, m) \subseteq Chunks
      BY DEF Part, Stretch, Listed
    <2>2. /\ k \in Nat /\ l \in Nat /\ k + l = m
          /\ sep \in [1..l -> Part(C, m)] /\ Len(sep) = l
          /\ kept \in [1..k -> Part(C, m)] /\ Len(kept) = k
          /\ \A i \in 1..l, j \in 1..k : sep[i] # kept[j]
          /\ Relinked(s, v) /\ Along(v, sep, l) /\ Along(v, kept, k)
          /\ \A x \in Chunks \ Part(C, m) : v.next[x] = s.next[x] /\ v.prev[x] = s.prev[x]
      BY DEF Sorted
    <2>3. /\ \A i \in 1..l : sep[i] \in Part(C, m) /\ sep[i] \in Chunks
          /\ \A i \in 1..k : kept[i] \in Part(C, m) /\ kept[i] \in Chunks
      BY <2>1, <2>2
    <2>4. sep \in Seq(Chunks) /\ kept \in Seq(Chunks)
      BY <2>1, <2>2
    <2>5. l \in Nat \ {0}
      BY <2>2
    <2> QED BY <2>2, <2>3, <2>4, <2>5, Zenon
  <1>2. /\ \A i, j \in 1..l : sep[i] = sep[j] => i = j
        /\ \A i, j \in 1..k : kept[i] = kept[j] => i = j
    BY DEF Sorted, Listed
  <1>3. /\ Part(C, m) \subseteq R
        /\ after # C[1] => before \notin Part(C, m) /\ after \notin Part(C, m)
    BY StretchEnds
  <1>4. /\ v \in SchedType /\ v.next \in [Chunks -> Elements] /\ v.prev \in [Chunks -> Elements]
    BY <1>1 DEF Relinked, SchedType
  <1>5. 1 \in 1..l /\ l \in 1..l /\ \A i \in 1..(l - 1) : i \in 1..l /\ i + 1 \in 1..l /\ i # l /\ i + 1 # 1
    BY <1>1
  <1>6. \A i \in 1..(k - 1) : i \in 1..k /\ i + 1 \in 1..k /\ i # k /\ i + 1 # 1
    BY <1>1
  <1>7. \A i \in 1..(l - 1) : v.next[sep[i]] = sep[i + 1] /\ v.prev[sep[i + 1]] = sep[i]
    BY <1>1 DEF Along
  <1>8. \A i \in 1..(k - 1) : v.next[kept[i]] = kept[i + 1] /\ v.prev[kept[i + 1]] = kept[i]
    BY <1>1 DEF Along
  <1>9. before \in Chunks /\ after \in Chunks /\ C[1] \in R
    <2>1. 1 \in 1..m
      OBVIOUS
    <2> QED BY <2>1 DEF Stretch, Listed
  <1>10. CASE k = 0 /\ after # C[1]
    <2>1. kept = <<>>
      BY <1>1, <1>10
    <2>2. PICK g : g = Connect(v, before, after)
      OBVIOUS
    <2>3. Relinked(v, g) /\ g.next = [v.next EXCEPT ![before] = after] /\ g.prev = [v.prev EXCEPT ![after] = before]
      BY <1>4, <1>9, <2>2, ConnectIs
    <2>4. PICK u : u = InsertBefore(g, after, sep)
      OBVIOUS
    <2>5. g \in SchedType /\ g.prev[after] = before
      BY <1>4, <1>9, <2>3 DEF Relinked
    <2>6. /\ Relinked(g, u)
          /\ u.next = [[g.next EXCEPT ![before] = sep[1]] EXCEPT ![sep[l]] = after]
          /\ u.prev = [[g.prev EXCEPT ![sep[1]] = before] EXCEPT ![after] = sep[l]]
      <3>1. l \in Nat \ {0} /\ sep \in Seq(Chunks) /\ Len(sep) = l /\ before \in Chunks /\ after \in Chunks
        BY <1>1, <1>9
      <3>2. Inserted(g, u, after, before, sep, l)
        BY <2>4, <2>5, <3>1, InsertIs
      <3> QED BY <3>2 DEF Inserted
    <2>7. f.kept = <<>> /\ f.s = g /\ f.separated = sep
      BY <1>10, <2>1, <2>2
    <2>8. r = [u EXCEPT !.counterActive = before]
      BY <1>10, <2>4, <2>7 DEF Gathered
    <2>9. Relinked(s, u)
      <3>1. Relinked(s, g)
        BY <1>1, <2>3, RelinkedTwice
      <3> QED BY <2>6, <3>1, RelinkedTwice
    <2>10. /\ r \in SchedType /\ SameMembers(s, r) /\ r.active = s.active
           /\ r.counterActive = before /\ r.next = u.next /\ r.prev = u.prev
      <3>1. u \in SchedType /\ SameMembers(s, u) /\ u.active = s.active
        BY <2>9 DEF Relinked
      <3>2. before \in Elements
        BY <1>9 DEF Elements
      <3>3. r \in SchedType
        BY <2>8, <3>1, <3>2 DEF SchedType
      <3>4. SameMembers(s, r) /\ r.active = s.active /\ r.counterActive = before /\ r.next = u.next /\ r.prev = u.prev
        BY <2>8, <3>1 DEF SameMembers, SchedType
      <3> QED BY <3>3, <3>4
    <2>11. sep[1] \in Part(C, m) /\ sep[l] \in Part(C, m) /\ sep[1] \in Chunks /\ sep[l] \in Chunks
      BY <1>1, <1>5
    <2>18. \A x \in Chunks : r.next[x] = IF x = sep[l] THEN after ELSE IF x = before THEN sep[1] ELSE v.next[x]
      <3>1. v.next \in [Chunks -> Elements] /\ g.next = [v.next EXCEPT ![before] = after]
        BY <1>4, <2>3
      <3>2. g.next \in [Chunks -> Elements]
        BY <2>3 DEF Relinked, SchedType
      <3>3. \A x \in Chunks : g.next[x] = IF x = before THEN after ELSE v.next[x]
        BY <3>1
      <3>4. r.next = [[g.next EXCEPT ![before] = sep[1]] EXCEPT ![sep[l]] = after]
        BY <2>6, <2>10
      <3>5. \A x \in Chunks : r.next[x] = IF x = sep[l] THEN after ELSE IF x = before THEN sep[1] ELSE g.next[x]
        BY <3>2, <3>4
      <3> QED BY <3>3, <3>5
    <2>19. \A x \in Chunks : r.prev[x] = IF x = after THEN sep[l] ELSE IF x = sep[1] THEN before ELSE v.prev[x]
      <3>1. v.prev \in [Chunks -> Elements] /\ g.prev = [v.prev EXCEPT ![after] = before]
        BY <1>4, <2>3
      <3>2. g.prev \in [Chunks -> Elements]
        BY <2>3 DEF Relinked, SchedType
      <3>3. \A x \in Chunks : g.prev[x] = IF x = after THEN before ELSE v.prev[x]
        BY <3>1
      <3>4. r.prev = [[g.prev EXCEPT ![sep[1]] = before] EXCEPT ![after] = sep[l]]
        BY <2>6, <2>10
      <3>5. \A x \in Chunks : r.prev[x] = IF x = after THEN sep[l] ELSE IF x = sep[1] THEN before ELSE g.prev[x]
        BY <3>2, <3>4
      <3> QED BY <3>3, <3>5
    <2>12. Along(r, sep, l)
      <3>1. SUFFICES ASSUME NEW i \in 1..(l - 1)
                     PROVE  r.next[sep[i]] = sep[i + 1] /\ r.prev[sep[i + 1]] = sep[i]
        BY DEF Along
      <3>2. sep[i] \in Chunks /\ sep[i] # sep[l] /\ sep[i] # before
        BY <1>1, <1>2, <1>3, <1>5, <1>10
      <3>3. sep[i + 1] \in Chunks /\ sep[i + 1] # sep[1] /\ sep[i + 1] # after
        BY <1>1, <1>2, <1>3, <1>5, <1>10
      <3>4. v.next[sep[i]] = sep[i + 1] /\ v.prev[sep[i + 1]] = sep[i]
        BY <1>7
      <3>5. r.next[sep[i]] = v.next[sep[i]]
        BY <2>18, <3>2
      <3>6. r.prev[sep[i + 1]] = v.prev[sep[i + 1]]
        BY <2>19, <3>3
      <3> QED BY <3>4, <3>5, <3>6
    <2>13. Along(r, kept, k)
      BY <1>10 DEF Along
    <2>14. r.next[sep[l]] = after /\ r.prev[after] = sep[l] /\ r.next[before] = sep[1] /\ r.prev[sep[1]] = before
      <3>1. before # sep[l] /\ after # sep[1]
        BY <1>3, <1>10, <2>11
      <3>2. r.next[sep[l]] = after /\ r.next[before] = sep[1]
        BY <1>9, <2>11, <2>18, <3>1
      <3>3. r.prev[after] = sep[l] /\ r.prev[sep[1]] = before
        BY <1>9, <2>11, <2>19, <3>1
      <3> QED BY <3>2, <3>3
    <2>15. ASSUME NEW x \in Chunks \ Part(C, m)
           PROVE  (x = before \/ r.next[x] = s.next[x]) /\ (x = after \/ r.prev[x] = s.prev[x])
      <3>1. x # sep[1] /\ x # sep[l] /\ v.next[x] = s.next[x] /\ v.prev[x] = s.prev[x]
        BY <1>1, <2>11
      <3>2. x = before \/ r.next[x] = s.next[x]
        BY <2>18, <3>1
      <3>3. x = after \/ r.prev[x] = s.prev[x]
        BY <2>19, <3>1
      <3> QED BY <3>2, <3>3
    <2>16. Foremost(kept, k, sep) = sep[1]
      BY <1>10 DEF Foremost
    <2>17. Joined(s, r, C, m, sep, l, kept, k, before, after)
      <3>1. ~(k > 0) /\ after # C[1]
        BY <1>10
      <3>2. \A x \in Chunks \ Part(C, m) : /\ x = before \/ r.next[x] = s.next[x]
                                           /\ x = after \/ r.prev[x] = s.prev[x]
        BY <2>15
      <3>3. r \in SchedType /\ SameMembers(s, r) /\ r.active = s.active
        BY <2>10
      <3> QED BY <2>12, <2>13, <2>14, <2>16, <3>1, <3>2, <3>3 DEF Joined
    <2> QED BY <1>10, <2>10, <2>17
  <1>11. CASE k = 0 /\ after = C[1]
    <2>1. kept = <<>>
      BY <1>1, <1>11
    <2>2. sep # <<>> /\ Head(sep) = sep[1] /\ Last(sep) = sep[l] /\ sep[1] \in Chunks /\ sep[l] \in Chunks
          /\ sep[1] \in Part(C, m) /\ sep[l] \in Part(C, m)
      BY <1>1, <1>5 DEF Last
    <2>3. PICK u : u = Connect(v, sep[l], sep[1])
      OBVIOUS
    <2>4. Relinked(v, u) /\ u.next = [v.next EXCEPT ![sep[l]] = sep[1]] /\ u.prev = [v.prev EXCEPT ![sep[1]] = sep[l]]
      BY <1>4, <2>2, <2>3, ConnectIs
    <2>5. f.kept = <<>> /\ f.s = v /\ f.separated = sep
      BY <1>11, <2>1
    <2>6. r = [u EXCEPT !.counterActive = s.active]
      BY <1>11, <2>2, <2>3, <2>5 DEF Gathered
    <2>7. Relinked(s, u)
      BY <1>1, <2>4, RelinkedTwice
    <2>8. /\ r \in SchedType /\ SameMembers(s, r) /\ r.active = s.active
          /\ r.counterActive = s.active /\ r.next = u.next /\ r.prev = u.prev
      <3>1. u \in SchedType /\ SameMembers(s, u) /\ u.active = s.active
        BY <2>7 DEF Relinked
      <3>2. s.active \in Elements
        BY DEF SchedType
      <3>3. r \in SchedType
        BY <2>6, <3>1, <3>2 DEF SchedType
      <3>4. SameMembers(s, r) /\ r.active = s.active /\ r.counterActive = s.active /\ r.next = u.next /\ r.prev = u.prev
        BY <2>6, <3>1 DEF SameMembers, SchedType
      <3> QED BY <3>3, <3>4
    <2>13. \A x \in Chunks : r.next[x] = IF x = sep[l] THEN sep[1] ELSE v.next[x]
      <3>1. v.next \in [Chunks -> Elements] /\ r.next = [v.next EXCEPT ![sep[l]] = sep[1]]
        BY <1>4, <2>4, <2>8
      <3> QED BY <3>1
    <2>14. \A x \in Chunks : r.prev[x] = IF x = sep[1] THEN sep[l] ELSE v.prev[x]
      <3>1. v.prev \in [Chunks -> Elements] /\ r.prev = [v.prev EXCEPT ![sep[1]] = sep[l]]
        BY <1>4, <2>4, <2>8
      <3> QED BY <3>1
    <2>9. Along(r, sep, l)
      <3>1. SUFFICES ASSUME NEW i \in 1..(l - 1)
                     PROVE  r.next[sep[i]] = sep[i + 1] /\ r.prev[sep[i + 1]] = sep[i]
        BY DEF Along
      <3>2. sep[i] \in Chunks /\ sep[i] # sep[l]
        BY <1>1, <1>2, <1>5
      <3>3. sep[i + 1] \in Chunks /\ sep[i + 1] # sep[1]
        BY <1>1, <1>2, <1>5
      <3>4. v.next[sep[i]] = sep[i + 1] /\ v.prev[sep[i + 1]] = sep[i]
        BY <1>7
      <3>5. r.next[sep[i]] = v.next[sep[i]]
        BY <2>13, <3>2
      <3>6. r.prev[sep[i + 1]] = v.prev[sep[i + 1]]
        BY <2>14, <3>3
      <3> QED BY <3>4, <3>5, <3>6
    <2>10. Along(r, kept, k)
      BY <1>11 DEF Along
    <2>11. r.next[sep[l]] = sep[1] /\ r.prev[sep[1]] = sep[l]
      BY <2>2, <2>13, <2>14
    <2>12. ASSUME NEW x \in Chunks \ Part(C, m)
           PROVE  r.next[x] = s.next[x] /\ r.prev[x] = s.prev[x]
      <3>1. x # sep[1] /\ x # sep[l] /\ v.next[x] = s.next[x] /\ v.prev[x] = s.prev[x]
        BY <1>1, <2>2
      <3>2. r.next[x] = s.next[x]
        BY <2>13, <3>1
      <3>3. r.prev[x] = s.prev[x]
        BY <2>14, <3>1
      <3> QED BY <3>2, <3>3
    <2>15. Foremost(kept, k, sep) = sep[1] /\ ~(k > 0) /\ after = C[1]
      BY <1>11 DEF Foremost
    <2>16. Joined(s, r, C, m, sep, l, kept, k, before, after)
      <3>1. r \in SchedType /\ SameMembers(s, r) /\ r.active = s.active
        BY <2>8
      <3>2. \A x \in Chunks \ Part(C, m) : /\ x = before \/ r.next[x] = s.next[x]
                                           /\ x = after \/ r.prev[x] = s.prev[x]
        BY <2>12
      <3> QED BY <2>9, <2>10, <2>11, <2>15, <3>1, <3>2 DEF Joined
    <2> QED BY <1>11, <2>8, <2>16
  <1>12. CASE k > 0
    <2>1. /\ kept # <<>> /\ Head(kept) = kept[1] /\ Last(kept) = kept[k] /\ 1 \in 1..k /\ k \in 1..k
          /\ kept[1] \in Chunks /\ kept[k] \in Chunks /\ kept[1] \in Part(C, m) /\ kept[k] \in Part(C, m)
      BY <1>1, <1>12 DEF Last
    <2>2. /\ sep # <<>> /\ Head(sep) = sep[1] /\ sep[1] \in Chunks /\ sep[l] \in Chunks
          /\ sep[1] \in Part(C, m) /\ sep[l] \in Part(C, m)
      BY <1>1, <1>5
    <2> DEFINE end   == IF after = C[1] THEN kept[1] ELSE after
               start == IF after = C[1] THEN kept[k] ELSE before
    <2>3. PICK g : g = f.s
      OBVIOUS
    <2>4. /\ Relinked(s, g) /\ g \in SchedType
          /\ g.next = IF after = C[1] THEN [v.next EXCEPT ![kept[k]] = kept[1]]
                      ELSE [[v.next EXCEPT ![before] = kept[1]] EXCEPT ![kept[k]] = after]
          /\ g.prev = IF after = C[1] THEN [v.prev EXCEPT ![kept[1]] = kept[k]]
                      ELSE [[v.prev EXCEPT ![kept[1]] = before] EXCEPT ![after] = kept[k]]
      <3>1. CASE after = C[1]
        <4>1. g = Connect(v, kept[k], kept[1])
          BY <2>1, <2>3, <3>1
        <4>2. Relinked(v, g) /\ g.next = [v.next EXCEPT ![kept[k]] = kept[1]] /\ g.prev = [v.prev EXCEPT ![kept[1]] = kept[k]]
          <5>1. v \in SchedType /\ kept[k] \in Chunks /\ kept[1] \in Chunks
            BY <1>4, <2>1
          <5> QED BY <4>1, <5>1, ConnectIs
        <4>3. Relinked(s, g)
          BY <1>1, <4>2, RelinkedTwice
        <4> QED BY <3>1, <4>2, <4>3 DEF Relinked
      <3>2. CASE after # C[1]
        <4>1. PICK u : u = Connect(v, before, kept[1])
          OBVIOUS
        <4>2. Relinked(v, u) /\ u.next = [v.next EXCEPT ![before] = kept[1]] /\ u.prev = [v.prev EXCEPT ![kept[1]] = before]
          BY <1>4, <1>9, <2>1, <4>1, ConnectIs
        <4>3. g = Connect(u, kept[k], after)
          BY <2>1, <2>3, <3>2, <4>1
        <4>4. u \in SchedType
          BY <4>2 DEF Relinked
        <4>5. Relinked(u, g) /\ g.next = [u.next EXCEPT ![kept[k]] = after] /\ g.prev = [u.prev EXCEPT ![after] = kept[k]]
          BY <1>9, <2>1, <4>3, <4>4, ConnectIs
        <4>6. Relinked(s, g)
          <5>1. Relinked(s, u)
            BY <1>1, <4>2, RelinkedTwice
          <5> QED BY <4>5, <5>1, RelinkedTwice
        <4> QED BY <3>2, <4>2, <4>5, <4>6 DEF Relinked
      <3> QED BY <3>1, <3>2
    <2>5. end \in Chunks /\ g.next[kept[k]] = end /\ g.prev[end] = kept[k]
      BY <1>4, <1>9, <2>1, <2>4
    <2>6. PICK u : u = InsertBefore(g, end, sep)
      OBVIOUS
    <2>7. r = [u EXCEPT !.counterActive = u.prev[sep[1]]]
      <3>1. f.kept = kept /\ f.separated = sep /\ kept # <<>>
        BY <2>1
      <3>2. (IF after # C[1] THEN after ELSE f.s.next[Last(f.kept)]) = end
        BY <2>1, <2>3, <2>5, <3>1
      <3> HIDE DEF end
      <3> QED BY <2>2, <2>3, <2>6, <3>1, <3>2 DEF Gathered
    <2>8. /\ Relinked(g, u)
          /\ u.next = [[g.next EXCEPT ![kept[k]] = sep[1]] EXCEPT ![sep[l]] = end]
          /\ u.prev = [[g.prev EXCEPT ![sep[1]] = kept[k]] EXCEPT ![end] = sep[l]]
      <3> HIDE DEF end
      <3>1. l \in Nat \ {0} /\ sep \in Seq(Chunks) /\ Len(sep) = l /\ kept[k] \in Chunks /\ g \in SchedType
        BY <1>1, <2>1, <2>4
      <3>2. end \in Chunks /\ kept[k] = g.prev[end]
        BY <2>5
      <3>3. Inserted(g, u, end, kept[k], sep, l)
        BY <2>6, <3>1, <3>2, InsertIs
      <3> QED BY <3>3 DEF Inserted
    <2>9. Relinked(s, u)
      BY <2>4, <2>8, RelinkedTwice
    <2>10. g.next \in [Chunks -> Elements] /\ g.prev \in [Chunks -> Elements]
      BY <2>4 DEF SchedType
    <2>11. end # sep[1]
      <3>1. sep[1] # kept[1]
        BY <1>1, <1>5, <2>1
      <3> QED BY <1>3, <2>2, <3>1
    <2>12. u.prev[sep[1]] = kept[k]
      <3> HIDE DEF end
      <3> QED BY <2>2, <2>5, <2>8, <2>10, <2>11
    <2>13. /\ r \in SchedType /\ SameMembers(s, r) /\ r.active = s.active
           /\ r.counterActive = kept[k] /\ r.next = u.next /\ r.prev = u.prev
      <3>1. u \in SchedType /\ SameMembers(s, u) /\ u.active = s.active
        BY <2>9 DEF Relinked
      <3>2. kept[k] \in Elements
        BY <2>1 DEF Elements
      <3>3. r = [u EXCEPT !.counterActive = kept[k]]
        BY <2>7, <2>12
      <3>4. r \in SchedType
        BY <3>1, <3>2, <3>3 DEF SchedType
      <3>5. SameMembers(s, r) /\ r.active = s.active /\ r.counterActive = kept[k] /\ r.next = u.next /\ r.prev = u.prev
        BY <3>1, <3>3 DEF SameMembers, SchedType
      <3> QED BY <3>4, <3>5
    <2>14. ASSUME NEW x \in Chunks
           PROVE  /\ r.next[x] = IF x = sep[l] THEN end ELSE IF x = kept[k] THEN sep[1]
                                 ELSE IF x = before /\ after # C[1] THEN kept[1] ELSE v.next[x]
                  /\ r.prev[x] = IF x = end THEN sep[l] ELSE IF x = sep[1] THEN kept[k]
                                 ELSE IF x = kept[1] THEN before ELSE v.prev[x]
      <3>1. r.next[x] = IF x = sep[l] THEN end ELSE IF x = kept[k] THEN sep[1] ELSE g.next[x]
        <4> HIDE DEF end
        <4>1. u.next = [[g.next EXCEPT ![kept[k]] = sep[1]] EXCEPT ![sep[l]] = end] /\ r.next = u.next
          BY <2>8, <2>13
        <4>2. g.next \in [Chunks -> Elements]
          BY <2>10
        <4> QED BY <4>1, <4>2
      <3>2. r.prev[x] = IF x = end THEN sep[l] ELSE IF x = sep[1] THEN kept[k] ELSE g.prev[x]
        <4> HIDE DEF end
        <4>1. u.prev = [[g.prev EXCEPT ![sep[1]] = kept[k]] EXCEPT ![end] = sep[l]] /\ r.prev = u.prev
          BY <2>8, <2>13
        <4>2. g.prev \in [Chunks -> Elements]
          BY <2>10
        <4> QED BY <4>1, <4>2
      <3>3. g.next[x] = IF x = kept[k] THEN end ELSE IF x = before /\ after # C[1] THEN kept[1] ELSE v.next[x]
        BY <1>4, <1>9, <2>1, <2>4
      <3>4. x # end => g.prev[x] = IF x = kept[1] THEN before ELSE v.prev[x]
        BY <1>4, <1>9, <2>1, <2>4
      <3> HIDE DEF end
      <3> QED BY <3>1, <3>2, <3>3, <3>4
    <2>15. sep[l] # kept[k] /\ sep[1] # kept[1] /\ \A i \in 1..l : sep[i] # kept[k] /\ sep[i] # kept[1]
      BY <1>1, <1>5, <2>1
    <2>16. \A i \in 1..k : kept[i] # sep[l] /\ kept[i] # sep[1]
      BY <1>1, <1>5
    <2>17. Along(r, sep, l)
      <3>1. SUFFICES ASSUME NEW i \in 1..(l - 1)
                     PROVE  r.next[sep[i]] = sep[i + 1] /\ r.prev[sep[i + 1]] = sep[i]
        BY DEF Along
      <3>2. i \in 1..l /\ i + 1 \in 1..l
        BY <1>5
      <3>3. sep[i] \in Chunks /\ sep[i] # sep[l] /\ sep[i] # kept[k] /\ (after # C[1] => sep[i] # before)
        BY <1>1, <1>2, <1>3, <1>5, <2>15, <3>2
      <3>4. sep[i + 1] \in Chunks /\ sep[i + 1] # sep[1] /\ sep[i + 1] # kept[1] /\ sep[i + 1] # end
        BY <1>1, <1>2, <1>3, <1>5, <2>15, <3>2
      <3> HIDE DEF end
      <3>5. v.next[sep[i]] = sep[i + 1] /\ v.prev[sep[i + 1]] = sep[i]
        BY <1>7
      <3>6. r.next[sep[i]] = v.next[sep[i]]
        BY <2>14, <3>3
      <3>7. r.prev[sep[i + 1]] = v.prev[sep[i + 1]]
        BY <2>14, <3>4
      <3> QED BY <3>5, <3>6, <3>7
    <2>18. Along(r, kept, k)
      <3>1. SUFFICES ASSUME NEW i \in 1..(k - 1)
                     PROVE  r.next[kept[i]] = kept[i + 1] /\ r.prev[kept[i + 1]] = kept[i]
        BY DEF Along
      <3>2. i \in 1..k /\ i + 1 \in 1..k
        BY <1>6
      <3>3. kept[i] \in Chunks /\ kept[i] # sep[l] /\ kept[i] # kept[k] /\ (after # C[1] => kept[i] # before)
        BY <1>1, <1>2, <1>3, <1>6, <2>1, <2>16, <3>2
      <3>4. kept[i + 1] \in Chunks /\ kept[i + 1] # sep[1] /\ kept[i + 1] # kept[1] /\ kept[i + 1] # end
        BY <1>1, <1>2, <1>3, <1>6, <2>1, <2>16, <3>2
      <3> HIDE DEF end
      <3>5. v.next[kept[i]] = kept[i + 1] /\ v.prev[kept[i + 1]] = kept[i]
        BY <1>8
      <3>6. r.next[kept[i]] = v.next[kept[i]]
        BY <2>14, <3>3
      <3>7. r.prev[kept[i + 1]] = v.prev[kept[i + 1]]
        BY <2>14, <3>4
      <3> QED BY <3>5, <3>6, <3>7
    <2>19. r.next[kept[k]] = sep[1] /\ r.prev[sep[1]] = kept[k] /\ r.next[sep[l]] = end /\ r.prev[end] = sep[l]
      <3> HIDE DEF end
      <3> QED BY <2>1, <2>2, <2>5, <2>11, <2>14, <2>15
    <2>20. r.prev[kept[1]] = IF after = C[1] THEN sep[l] ELSE before
      <3>1. CASE after = C[1]
        BY <2>19, <3>1
      <3>2. CASE after # C[1]
        <4>1. kept[1] # end /\ kept[1] # sep[1]
          BY <1>3, <2>1, <2>15, <3>2
        <4> HIDE DEF end
        <4> QED BY <2>1, <2>14, <3>2, <4>1
      <3> QED BY <3>1, <3>2
    <2>21. after # C[1] => r.next[before] = kept[1] /\ r.prev[after] = sep[l]
      <3>1. SUFFICES ASSUME after # C[1] PROVE r.next[before] = kept[1] /\ r.prev[after] = sep[l]
        OBVIOUS
      <3>2. before # sep[l] /\ before # kept[k] /\ end = after
        BY <1>3, <2>1, <2>2, <3>1
      <3> HIDE DEF end
      <3> QED BY <1>9, <2>14, <3>1, <3>2
    <2>22. ASSUME NEW x \in Chunks \ Part(C, m)
           PROVE  (x = before \/ r.next[x] = s.next[x]) /\ (x = after \/ r.prev[x] = s.prev[x])
      <3>1. x # sep[l] /\ x # kept[k] /\ x # sep[1] /\ x # kept[1] /\ v.next[x] = s.next[x] /\ v.prev[x] = s.prev[x]
        BY <1>1, <2>1, <2>2
      <3>2. x = end => x = after
        BY <2>1
      <3> HIDE DEF end
      <3> QED BY <2>14, <3>1, <3>2
    <2>23. Foremost(kept, k, sep) = kept[1]
      BY <1>12 DEF Foremost
    <2>24. Joined(s, r, C, m, sep, l, kept, k, before, after)
      BY <1>12, <2>13, <2>17, <2>18, <2>19, <2>20, <2>21, <2>22, <2>23 DEF Joined
    <2> QED BY <1>12, <2>13, <2>24
  <1>13. (k = 0 /\ after # C[1]) \/ (k = 0 /\ after = C[1]) \/ k > 0
    <2>1. k \in Nat
      BY <1>1
    <2> QED BY <2>1, ThreeWays, Zenon
  <1> QED BY <1>10, <1>11, <1>12, <1>13, Zenon

\* From s to r the chunks that went are gathered: C leads from from to counterActive, sep has
\* those of its chunks that went, kept the others, and the border is behind what is kept.
JoinsAt(s, r, R, from, m, C, sep, l, kept, k, v, before, after) ==
    /\ m \in Nat \ {0} /\ Stretch(s.next, R, C, m) /\ C[1] = from /\ C[m] = s.counterActive
    /\ Sorted(s, C, m, Away, sep, l, kept, k, v) /\ l > 0
    /\ before \in R /\ after \in R /\ before = s.prev[C[1]] /\ after = s.next[C[m]]
    /\ Joined(s, r, C, m, sep, l, kept, k, before, after)
    /\ r.counterActive = IF k > 0 THEN kept[k] ELSE IF after # C[1] THEN before ELSE s.active
    /\ IF s.status[C[m]] \in Away THEN sep[l] = C[m] ELSE k > 0 /\ kept[k] = C[m]

Joins(s, r, R, from) ==
    \E m, C, sep, l, kept, k, v, before, after : JoinsAt(s, r, R, from, m, C, sep, l, kept, k, v, before, after)

\* This is what GatherAway does.
LEMMA GatherAwayJoins ==
    ASSUME NEW s \in SchedType, NEW R, R = Ring(s), OneRing(s.next, s.prev, R), NEW from \in R,
           s.counterActive \in R, s.active \in R, s.status[from] \in Away,
           NEW r, r = GatherAway(s, from)
    PROVE  Joins(s, r, R, from)
  <1>1. R \in SUBSET Chunks
    BY DEF Ring
  <1>2. PICK m, C : m = Reach(s.next, from, s.counterActive) /\ C = Walk(s.next, from, m)
    OBVIOUS
  <1>3. /\ m \in Nat \ {0} /\ C \in Seq(R) /\ Len(C) = m /\ C[1] = from /\ C[m] = s.counterActive
        /\ Stretch(s.next, R, C, m)
    <2>1. s.counterActive \in R
      OBVIOUS
    <2>2. Leads(s.next, R, from, s.counterActive, Reach(s.next, from, s.counterActive),
                Walk(s.next, from, Reach(s.next, from, s.counterActive)))
      BY <1>1, <2>1, ReachIs
    <2>3. Leads(s.next, R, from, s.counterActive, m, C)
      BY <1>2, <2>2
    <2> QED BY <2>3 DEF Leads
  <1>4. C \in Seq(Chunks) /\ Listed(Chunks, C, m) /\ 1 \in 1..m /\ m \in 1..m
    BY <1>1, <1>3 DEF Stretch, Listed
  <1>5. PICK sep, kept, v : /\ sep = Those(s, C, Away) /\ kept = Those(s, C, Statuses \ Away)
                            /\ v = LinkUp(LinkUp(s, sep), kept)
    OBVIOUS
  <1>6. PICK k, l \in Nat : Sorted(s, C, m, Away, sep, l, kept, k, v)
    <2>1. Away \in SUBSET Statuses
      BY DEF Away, Statuses
    <2> QED BY <1>3, <1>4, <1>5, <2>1, SortedIs
  <1>7. l > 0
    <2>1. \E j \in 1..l : C[1] = sep[j]
      BY <1>3, <1>4, <1>6 DEF Sorted
    <2> QED BY <2>1
  <1>8. PICK before, after \in R : before = s.prev[C[1]] /\ after = s.next[C[m]]
    BY <1>3 DEF OneRing
  <1>9. Head(C) = C[1] /\ Last(C) = C[m]
    BY <1>3 DEF Last
  <1>10. PICK f : f = FilterChain(s, C, Away)
    OBVIOUS
  <1>11. f = [kept |-> kept, separated |-> sep,
              s |-> IF kept # <<>> /\ after = C[1] THEN Connect(v, Last(kept), Head(kept))
                    ELSE IF kept # <<>> THEN Connect(Connect(v, before, Head(kept)), Last(kept), after)
                    ELSE IF after # C[1] THEN Connect(v, before, after)
                    ELSE v]
    BY <1>5, <1>8, <1>9, <1>10 DEF FilterChain
  <1>12. r = Gathered(s, C[1], after, f)
    BY <1>2, <1>3, <1>8, <1>10 DEF GatherAway, Chain
  <1>13. /\ Joined(s, r, C, m, sep, l, kept, k, before, after)
         /\ r.counterActive = IF k > 0 THEN kept[k] ELSE IF after # C[1] THEN before ELSE s.active
    BY <1>1, <1>3, <1>6, <1>7, <1>8, <1>11, <1>12, GatheredLinks
  <1>14. IF s.status[C[m]] \in Away THEN sep[l] = C[m] ELSE k > 0 /\ kept[k] = C[m]
    <2>1. Len(sep) = l /\ Len(kept) = k /\ k \in Nat /\ l \in Nat
      BY <1>6 DEF Sorted
    <2>2. C \in Seq(Chunks) /\ Len(C) = m /\ m \in Nat \ {0} /\ C[m] \in Chunks
      BY <1>3, <1>4
    <2>3. s.status[C[m]] \in Statuses
      BY <2>2 DEF SchedType
    <2>4. CASE s.status[C[m]] \in Away
      <3>1. sep = Those(s, C, Away)
        BY <1>5
      <3>2. Len(sep) \in Nat \ {0} /\ sep[Len(sep)] = C[m]
        BY <2>2, <2>4, <3>1, ThoseLast
      <3> QED BY <2>1, <2>4, <3>2
    <2>5. CASE s.status[C[m]] \notin Away
      <3>1. PICK S : S = Statuses \ Away /\ s.status[C[m]] \in S
        BY <2>3, <2>5
      <3>2. kept = Those(s, C, S)
        BY <1>5, <3>1
      <3>3. Len(kept) \in Nat \ {0} /\ kept[Len(kept)] = C[m]
        <4>1. m \in Nat \ {0} /\ C \in Seq(Chunks) /\ Len(C) = m /\ s.status[C[m]] \in S
          BY <2>2, <3>1
        <4> QED BY <3>2, <4>1, ThoseLast
      <3> QED BY <2>1, <2>5, <3>3
    <2> QED BY <2>4, <2>5
  <1>15. JoinsAt(s, r, R, from, m, C, sep, l, kept, k, v, before, after)
    BY <1>3, <1>6, <1>7, <1>8, <1>13, <1>14 DEF JoinsAt
  <1> QED BY <1>15 DEF Joins

\* It leaves one ring of the same chunks, with counterActive in it.
LEMMA JoinsIs ==
    ASSUME NEW s \in SchedType, NEW R, R = Ring(s), OneRing(s.next, s.prev, R), NEW from,
           s.active \in R, NEW r, Joins(s, r, R, from)
    PROVE  /\ r \in SchedType /\ SameMembers(s, r) /\ r.active = s.active /\ r.counterActive \in R
           /\ Ring(r) = R /\ OneRing(r.next, r.prev, R)
  <1>1. R \in SUBSET Chunks
    BY DEF Ring
  <1>2. PICK m, C, sep, l, kept, k, v, before, after : JoinsAt(s, r, R, from, m, C, sep, l, kept, k, v, before, after)
    BY DEF Joins
  <1>3. /\ m \in Nat \ {0} /\ Stretch(s.next, R, C, m)
        /\ Sorted(s, C, m, Away, sep, l, kept, k, v) /\ l > 0
        /\ before \in R /\ after \in R /\ before = s.prev[C[1]] /\ after = s.next[C[m]]
        /\ Joined(s, r, C, m, sep, l, kept, k, before, after)
    BY <1>2 DEF JoinsAt
  <1>4. OneRing(r.next, r.prev, R) /\ \A x \in Chunks \ R : r.next[x] = s.next[x]
    <2>1. StaysRing(s, r, R)
      BY <1>1, <1>3, JoinedIs
    <2> QED BY <2>1 DEF StaysRing
  <1>5. r \in SchedType /\ SameMembers(s, r) /\ r.active = s.active
    BY <1>3 DEF Joined
  <1>6. Ring(r) = R
    BY <1>4, <1>5, RingSame
  <1>7. r.counterActive \in R
    <2>1. k \in Nat /\ (k > 0 => kept[k] \in Part(C, m))
      <3>1. k \in Nat /\ kept \in [1..k -> Part(C, m)]
        BY <1>3 DEF Sorted
      <3>2. k > 0 => k \in 1..k
        BY <3>1
      <3> QED BY <3>1, <3>2
    <2>2. Part(C, m) \subseteq R
      BY <1>3 DEF Part, Stretch, Listed
    <2>3. r.counterActive = IF k > 0 THEN kept[k] ELSE IF after # C[1] THEN before ELSE s.active
      BY <1>2 DEF JoinsAt
    <2> QED BY <1>3, <2>1, <2>2, <2>3
  <1> QED BY <1>4, <1>5, <1>6, <1>7

\* GatherAway leaves one ring of the same chunks, with counterActive in it.
LEMMA GatherAwayIs ==
    ASSUME NEW s \in SchedType, NEW R, R = Ring(s), OneRing(s.next, s.prev, R), NEW from \in R,
           s.counterActive \in R, s.active \in R, s.status[from] \in Away,
           NEW r, r = GatherAway(s, from)
    PROVE  /\ r \in SchedType /\ SameMembers(s, r) /\ r.active = s.active /\ r.counterActive \in R
           /\ Ring(r) = R /\ OneRing(r.next, r.prev, R)
  <1>1. Joins(s, r, R, from)
    BY GatherAwayJoins
  <1> QED BY <1>1, JoinsIs

-----------------------------------------------------------------------------
(* swapOut *)

\* The manager swaps nothing in on a guess, and the ring is one, with active and counterActive
\* in it.
Plain(s) == s \in SchedType /\ ~s.preemptiveSwapIn /\ s.preloaded = {} /\ s.preemptiveStart = NULL
            /\ s.preemptiveBytes = 0

Round(s) ==
    /\ Plain(s) /\ OneRing(s.next, s.prev, Ring(s))
    /\ IF Ring(s) = {} THEN s.active = NULL /\ s.counterActive = NULL
       ELSE s.active \in Ring(s) /\ s.counterActive \in Ring(s)

\* The ring is one, with active and counterActive in it, whatever is guessed.
Circle(s) ==
    /\ s \in SchedType /\ OneRing(s.next, s.prev, Ring(s))
    /\ Ring(s) # {} => s.active \in Ring(s) /\ s.counterActive \in Ring(s)

\* Without guesses too.
LEMMA RoundIsCircle ==
    ASSUME NEW s, Round(s)
    PROVE  Circle(s)
  BY DEF Round, Plain, Circle

\* There are as many chunks as memChunks has, and no fewer than there are in the ring.
LEMMA CountIs ==
    ASSUME NEW s
    PROVE  Cardinality(memChunks(s)) \in Nat
  <1>1. memChunks(s) \in SUBSET Chunks /\ IsFiniteSet(Chunks)
    BY ConstantsAssumption DEF memChunks
  <1> QED BY <1>1, FS_Subset, FS_CardinalityType

\* The chunks swapOut looks at are in the ring.
LEMMA BackwardIs ==
    ASSUME NEW s, Circle(s), Ring(s) # {}, NEW k, k = Cardinality(memChunks(s))
    PROVE  k \in Nat /\ DOMAIN Backward(s) = 1..k /\ \A i \in 1..k : Backward(s)[i] \in Ring(s)
  <1>1. k \in Nat
    BY CountIs
  <1>2. s.counterActive \in Ring(s) /\ \A c \in Ring(s) : s.prev[c] \in Ring(s)
    BY DEF Circle, OneRing
  <1>3. Backward(s) = Walk(s.prev, s.counterActive, k)
    BY DEF Backward
  <1>4. DOMAIN Backward(s) = 1..k
    BY <1>1, <1>3, WalkIs
  <1>5. \A i \in 1..k : Backward(s)[i] \in Ring(s)
    BY <1>1, <1>2, <1>3, WalkStays
  <1> QED BY <1>1, <1>4, <1>5

\* What has been chosen after i steps: candidates of the ring that have been met, the last one
\* taken among them.
Chosen(s, w, want, a, i) ==
    /\ a \in [bytes : Nat, list : Seq(Ring(s)), passed : Nat, last : Nat]
    /\ \A j \in 1..Len(a.list) : Candidate(s, a.list[j])
    /\ \A j \in 1..Len(a.list) : \E e \in 1..a.last : a.list[j] = w[e]
    /\ a.list # <<>> => a.last \in 1..i /\ \E j \in 1..Len(a.list) : a.list[j] = w[a.last]
    /\ ~(a.bytes >= want) => a.passed = i
    /\ a.list = <<>> => a.bytes = 0

\* swapOut chooses candidates of the ring.
LEMMA VictimsAre ==
    ASSUME NEW s, Circle(s), Ring(s) # {}, NEW n, NEW k, k = Cardinality(memChunks(s))
    PROVE  Chosen(s, Backward(s), Goal(s, n), Victims(s, n), k)
  <1>1. k \in Nat /\ DOMAIN Backward(s) = 1..k /\ \A i \in 1..k : Backward(s)[i] \in Ring(s)
    BY BackwardIs
  <1>2. PICK w, want : w = Backward(s) /\ want = Goal(s, n)
    OBVIOUS
  <1> DEFINE base == [bytes |-> 0, list |-> <<>>, passed |-> 0, last |-> 0]
  <1>3. PICK h : Course(h, "victims", [s |-> s, want |-> want], base, w, k) /\ h[k] = Victims(s, n)
    BY <1>1, <1>2, VictimsWalk DEF Arrives
  <1>4. h[0] = base /\ \A i \in 1..k : h[i] = VictimStep(s, want, h[i - 1], w[i])
    BY <1>3 DEF Course, LoopStep
  <1> DEFINE G == {i \in Nat : i <= k => Chosen(s, w, want, h[i], i)}
  <1>5. 0 \in G
    <2>1. Chosen(s, w, want, base, 0)
      <3>1. <<>> \in Seq(Ring(s)) /\ Len(<<>>) = 0
        OBVIOUS
      <3> QED BY <3>1 DEF Chosen
    <2> QED BY <1>4, <2>1
  <1>6. ASSUME NEW i \in Nat, i \in G PROVE i + 1 \in G
    <2>1. SUFFICES ASSUME i + 1 <= k PROVE Chosen(s, w, want, h[i + 1], i + 1)
      OBVIOUS
    <2>2. i + 1 \in 1..k /\ (i + 1) - 1 = i /\ i <= k
      BY <1>1, <2>1
    <2>3. PICK a, c : a = h[i] /\ c = w[i + 1] /\ Chosen(s, w, want, a, i) /\ c \in Ring(s)
      BY <1>1, <1>2, <1>6, <2>2
    <2>4. a \in [bytes : Nat, list : Seq(Ring(s)), passed : Nat, last : Nat]
      BY <2>3 DEF Chosen
    <2>5. PICK b : b = VictimStep(s, want, a, c)
      OBVIOUS
    <2>6. h[i + 1] = b
      BY <1>4, <2>2, <2>3, <2>5
    <2>7. CASE a.bytes >= want
      <3>1. b = a
        BY <2>5, <2>7 DEF VictimStep
      <3>2. \A j \in 1..i : j \in 1..(i + 1)
        OBVIOUS
      <3> QED BY <2>3, <2>6, <2>7, <3>1, <3>2 DEF Chosen
    <2>8. CASE ~(a.bytes >= want) /\ Candidate(s, c) /\ a.bytes + Size[c] <= SwapFree(s)
      <3>1. b = [bytes |-> a.bytes + Size[c], list |-> Append(a.list, c),
                 passed |-> a.passed + 1, last |-> a.passed + 1]
        BY <2>5, <2>8 DEF VictimStep
      <3>2. c \in Chunks
        BY <2>3 DEF Ring
      <3>3. Size[c] \in Nat
        BY <3>2, ConstantsAssumption
      <3>4. PICK q : q = Append(a.list, c)
        OBVIOUS
      <3>5. q \in Seq(Ring(s)) /\ Len(q) = Len(a.list) + 1 /\ Len(a.list) \in Nat
            /\ q[Len(a.list) + 1] = c /\ \A j \in 1..Len(a.list) : q[j] = a.list[j]
        BY <2>3, <2>4, <3>4
      <3>6. a.passed = i
        BY <2>3, <2>8 DEF Chosen
      <3>7. \A j \in 1..Len(q) : Candidate(s, q[j])
        <4>1. (\A j \in 1..Len(a.list) : Candidate(s, a.list[j])) /\ Candidate(s, c)
          BY <2>3, <2>8 DEF Chosen
        <4>2. \A j \in 1..Len(q) : j \in 1..Len(a.list) \/ j = Len(a.list) + 1
          BY <3>5
        <4> QED BY <3>5, <4>1, <4>2
      <3>8. b \in [bytes : Nat, list : Seq(Ring(s)), passed : Nat, last : Nat]
        <4>1. a.bytes \in Nat /\ a.passed \in Nat
          BY <2>4
        <4>2. a.bytes + Size[c] \in Nat /\ a.passed + 1 \in Nat
          BY <3>3, <4>1
        <4>3. b = [bytes |-> a.bytes + Size[c], list |-> q, passed |-> a.passed + 1, last |-> a.passed + 1]
          BY <3>1, <3>4
        <4> QED BY <3>5, <4>2, <4>3
      <3>9. b.last = i + 1 /\ b.list = q /\ b.passed = i + 1 /\ Len(q) \in 1..Len(q) /\ q[Len(q)] = w[i + 1]
        BY <2>3, <3>1, <3>4, <3>5, <3>6
      <3>10. b.last \in 1..(i + 1) /\ \E j \in 1..Len(b.list) : b.list[j] = w[b.last]
        BY <3>9
      <3>11. b.list # <<>>
        BY <3>5, <3>9
      <3>12. \A j \in 1..Len(b.list) : \E e \in 1..b.last : b.list[j] = w[e]
        <4> SUFFICES ASSUME NEW j \in 1..Len(q)
                     PROVE  \E e \in 1..(i + 1) : q[j] = w[e]
          BY <3>9
        <4>1. CASE j = Len(a.list) + 1
          <5>1. i + 1 \in 1..(i + 1)
            OBVIOUS
          <5> QED BY <2>3, <3>5, <4>1, <5>1
        <4>2. CASE j # Len(a.list) + 1
          <5>1. j \in 1..Len(a.list)
            BY <3>5, <4>2
          <5>2. q[j] = a.list[j] /\ a.list # <<>>
            BY <2>4, <3>5, <5>1
          <5>3. a.last \in 1..i /\ \E e \in 1..a.last : a.list[j] = w[e]
            BY <2>3, <5>1, <5>2 DEF Chosen
          <5>4. \A e \in 1..a.last : e \in 1..(i + 1)
            BY <5>3
          <5> QED BY <5>2, <5>3, <5>4
        <4> QED BY <4>1, <4>2
      <3>13. Chosen(s, w, want, b, i + 1)
        BY <3>7, <3>8, <3>9, <3>10, <3>11, <3>12 DEF Chosen
      <3> QED BY <2>6, <3>13
    <2>9. CASE ~(a.bytes >= want) /\ ~(Candidate(s, c) /\ a.bytes + Size[c] <= SwapFree(s))
      <3>1. b = [a EXCEPT !.passed = @ + 1]
        BY <2>5, <2>9 DEF VictimStep
      <3>2. b.bytes = a.bytes /\ b.list = a.list /\ b.last = a.last /\ b.passed = a.passed + 1
            /\ b \in [bytes : Nat, list : Seq(Ring(s)), passed : Nat, last : Nat]
        BY <2>4, <3>1
      <3>3. a.passed = i
        BY <2>3, <2>9 DEF Chosen
      <3>4. \A j \in 1..i : j \in 1..(i + 1)
        OBVIOUS
      <3> QED BY <2>3, <2>6, <3>2, <3>3, <3>4 DEF Chosen
    <2> QED BY <2>7, <2>8, <2>9
  <1>7. k \in G
    <2> HIDE DEF G
    <2> QED BY <1>1, <1>5, <1>6, NumberInduction
  <1> QED BY <1>1, <1>2, <1>3, <1>7

\* active stays in the ring when it steps back.
LEMMA SteppedBackIs ==
    ASSUME NEW s, Circle(s), Ring(s) # {}, NEW list \in Seq(Chunks)
    PROVE  SteppedBack(s, list) \in Ring(s)
  <1>1. PICK n \in Nat : n = Len(list) /\ DOMAIN list = 1..n
    OBVIOUS
  <1>2. PICK h : Course(h, "back", s.prev, s.active, list, n) /\ h[n] = SteppedBack(s, list)
    BY <1>1, BackWalk DEF Arrives
  <1>3. h[0] = s.active /\ \A i \in 1..n : h[i] = IF h[i - 1] = list[i] THEN s.prev[h[i - 1]] ELSE h[i - 1]
    BY <1>2 DEF Course, LoopStep
  <1>4. s.active \in Ring(s) /\ \A c \in Ring(s) : s.prev[c] \in Ring(s)
    BY DEF Circle, OneRing
  <1> DEFINE G == {i \in Nat : i <= n => h[i] \in Ring(s)}
  <1>5. 0 \in G
    BY <1>3, <1>4
  <1>6. ASSUME NEW i \in Nat, i \in G PROVE i + 1 \in G
    <2>1. SUFFICES ASSUME i + 1 <= n PROVE h[i + 1] \in Ring(s)
      OBVIOUS
    <2>2. i + 1 \in 1..n /\ (i + 1) - 1 = i /\ i <= n
      BY <2>1
    <2> QED BY <1>3, <1>4, <1>6, <2>2
  <1>7. n \in G
    <2> HIDE DEF G
    <2> QED BY <1>5, <1>6, NumberInduction
  <1> QED BY <1>2, <1>7

\* The bytes of no chunks.
LEMMA BytesNone == Bytes({}) = 0
  <1>1. \A S : Bytes(S) = SumOver(Size, S)
    BY DEF Bytes, SumOver, MapThenSumSet, MapThenFoldSet
  <1> QED BY <1>1, SumEmpty

\* The bytes of chunks are a number.
LEMMA BytesType == \A S \in SUBSET Chunks : Bytes(S) \in Nat
  <1>1. ASSUME NEW S \in SUBSET Chunks
        PROVE  Bytes(S) \in Nat
    <2>1. IsFiniteSet(S) /\ \A c \in S : Size[c] \in Nat
      BY FS_Subset, ConstantsAssumption
    <2>2. Bytes(S) = SumOver(Size, S)
      BY DEF Bytes, SumOver, MapThenSumSet, MapThenFoldSet
    <2> QED BY <2>1, <2>2, SumType
  <1> QED BY <1>1

\* The choice of what to unload moves active only.
LEMMA SelectedIs ==
    ASSUME NEW s, Round(s), Ring(s) # {}, NEW list \in Seq(Ring(s)), NEW r, r = Selected(s, list)
    PROVE  /\ r \in SchedType /\ SameMembers(s, r) /\ r.next = s.next /\ r.prev = s.prev
           /\ r.counterActive = s.counterActive /\ r.active \in Ring(s)
  <1>1. s \in SchedType /\ ~s.preemptiveSwapIn /\ s.preloaded = {} /\ s.preemptiveBytes = 0
    BY DEF Round, Plain
  <1>2. Ring(s) \subseteq Chunks /\ list \in Seq(Chunks)
    <2>1. Ring(s) \subseteq Chunks
      BY DEF Ring
    <2> QED BY <2>1
  <1>3. SteppedBack(s, list) \in Ring(s) /\ SteppedBack(s, list) \in Elements
    BY <1>2, RoundIsCircle, SteppedBackIs DEF Elements
  <1>4. r = [s EXCEPT !.preloaded = @ \ (ToSet(list) \cap s.preloaded),
                      !.preemptiveBytes = @ - Bytes(ToSet(list) \cap s.preloaded),
                      !.unloadedAll = @ \/ (s.preemptiveSwapIn /\ In(s, Here) \ s.preloaded \subseteq ToSet(list)),
                      !.active = SteppedBack(s, list)]
    BY DEF Selected, SteppedBack
  <1>5. ToSet(list) \cap s.preloaded = {} /\ Bytes(ToSet(list) \cap s.preloaded) = 0
    BY <1>1, BytesNone
  <1>6. /\ r.preloaded = {} /\ r.preemptiveBytes = 0
        /\ r.unloadedAll = s.unloadedAll /\ r.active = SteppedBack(s, list)
        /\ r.next = s.next /\ r.prev = s.prev /\ r.counterActive = s.counterActive
        /\ r.preemptiveStart = s.preemptiveStart
        /\ r.consecutive = s.consecutive /\ r.sinceLast = s.sinceLast
        /\ r.status = s.status /\ r.users = s.users /\ r.copies = s.copies
        /\ r.asynchronous = s.asynchronous /\ r.preemptiveSwapIn = s.preemptiveSwapIn /\ r.most = s.most
    <2> HIDE DEF SteppedBack
    <2>1. s.unloadedAll \in BOOLEAN
      BY <1>1 DEF SchedType
    <2>2. r.preloaded = {}
      BY <1>1, <1>4, <1>5 DEF SchedType
    <2>3. r.preemptiveBytes = 0
      BY <1>1, <1>4, <1>5 DEF SchedType
    <2>4. r.unloadedAll = s.unloadedAll
      BY <1>1, <1>4, <2>1 DEF SchedType
    <2> QED BY <1>1, <1>4, <2>2, <2>3, <2>4 DEF SchedType
  <1>7. SameMembers(s, r)
    BY <1>1, <1>6 DEF SameMembers
  <1>8. r \in SchedType
    <2> HIDE DEF SteppedBack
    <2>1. s.unloadedAll \in BOOLEAN /\ {} \in SUBSET Chunks /\ 0 \in Nat
      BY <1>1 DEF SchedType
    <2>2. s.preloaded \ (ToSet(list) \cap s.preloaded) = {}
      BY <1>1
    <2>3. s.preemptiveBytes - Bytes(ToSet(list) \cap s.preloaded) = 0
      BY <1>1, <1>5
    <2>4. PICK p, b, g, a :
             /\ p = s.preloaded \ (ToSet(list) \cap s.preloaded)
             /\ b = s.preemptiveBytes - Bytes(ToSet(list) \cap s.preloaded)
             /\ g = (s.unloadedAll \/ (s.preemptiveSwapIn /\ In(s, Here) \ s.preloaded \subseteq ToSet(list)))
             /\ a = SteppedBack(s, list)
      OBVIOUS
    <2>5. r = [s EXCEPT !.preloaded = p, !.preemptiveBytes = b, !.unloadedAll = g, !.active = a]
      BY <1>4, <2>4
    <2>6. p \in SUBSET Chunks /\ b \in Nat /\ g \in BOOLEAN /\ a \in Elements
      BY <1>3, <2>1, <2>2, <2>3, <2>4
    <2>7. PICK u : u = [s EXCEPT !.preloaded = p, !.preemptiveBytes = b]
      OBVIOUS
    <2>8. u \in SchedType
      BY <1>1, <2>6, <2>7 DEF SchedType
    <2>9. r = [u EXCEPT !.unloadedAll = g, !.active = a]
      BY <1>1, <2>5, <2>7 DEF SchedType
    <2> QED BY <2>6, <2>8, <2>9 DEF SchedType
  <1> QED BY <1>3, <1>6, <1>7, <1>8

\* The status of the chunks when those of V are unloaded.
Gone(s, V) == [c \in Chunks |-> IF c \notin V THEN s.status[c]
                                ELSE IF c \in s.copies \/ ~s.asynchronous THEN "SWAPPED" ELSE "SWAPOUT"]

\* From s to r candidates have been unloaded, those of V, and the ring is still one.
RingKept(s, r) ==
    /\ Round(r) /\ Ring(r) = Ring(s) /\ r.users = s.users
    /\ r.asynchronous = s.asynchronous /\ r.most = s.most

Evicted(s, r, V) ==
    /\ RingKept(s, r)
    /\ V \in SUBSET {c \in Ring(s) : Candidate(s, c)}
    /\ r.status = Gone(s, V) /\ r.copies = s.copies \cup V

\* Chunks are unloaded.
LEMMA UnloadIs ==
    ASSUME NEW s \in SchedType, NEW V \in SUBSET Chunks, NEW r, r = Unload(s, V)
    PROVE  /\ r \in SchedType /\ r.status = Gone(s, V) /\ r.copies = s.copies \cup V
           /\ r.next = s.next /\ r.prev = s.prev /\ r.active = s.active /\ r.counterActive = s.counterActive
           /\ r.preemptiveStart = s.preemptiveStart /\ r.preemptiveBytes = s.preemptiveBytes
           /\ r.users = s.users /\ r.preloaded = s.preloaded
           /\ r.asynchronous = s.asynchronous /\ r.preemptiveSwapIn = s.preemptiveSwapIn /\ r.most = s.most
  <1>1. s.status \in [Chunks -> Statuses] /\ s.copies \in SUBSET Chunks
    BY DEF SchedType
  <1>2. Gone(s, V) \in [Chunks -> Statuses]
    BY <1>1 DEF Gone, Statuses
  <1>3. r = [s EXCEPT !.status = Gone(s, V), !.copies = s.copies \cup V]
    BY DEF Unload, Gone, SchedType
  <1> HIDE DEF Gone
  <1> QED BY <1>1, <1>2, <1>3 DEF SchedType

\* Where active is on a chunk that is gone, it moves to counterActive.
LEMMA MovedIs ==
    ASSUME NEW s, Round(s), Ring(s) # {}, NEW V, NEW r, r = MovePreemptive(MoveActive(s), V), NULL \notin V
    PROVE  RingKept(s, r) /\ r.status = s.status /\ r.copies = s.copies
  <1>1. s \in SchedType /\ Plain(s) /\ s.preloaded = {} /\ s.preemptiveStart = NULL
    BY DEF Round, Plain
  <1>2. s.active \in Ring(s) /\ s.counterActive \in Ring(s) /\ s.counterActive \in Elements
    BY <1>1 DEF Round, SchedType
  <1>3. PICK u : u = MoveActive(s)
    OBVIOUS
  <1>4. u = s \/ u = [s EXCEPT !.active = s.counterActive]
    BY <1>1, <1>3 DEF MoveActive
  <1>5. /\ u \in SchedType /\ SameMembers(s, u) /\ u.next = s.next /\ u.prev = s.prev
        /\ u.counterActive = s.counterActive /\ u.active \in Ring(s)
    <2>1. CASE u = s
      BY <1>1, <1>2, <2>1 DEF SameMembers
    <2>2. CASE u = [s EXCEPT !.active = s.counterActive]
      <3>1. u \in SchedType
        BY <1>1, <1>2, <2>2 DEF SchedType
      <3> QED BY <1>1, <1>2, <2>2, <3>1 DEF SchedType, SameMembers
    <2> QED BY <1>4, <2>1, <2>2
  <1>6. r = u
    BY <1>1, <1>3, <1>5 DEF MovePreemptive, SameMembers
  <1>7. Ring(u) = Ring(s)
    BY <1>5 DEF Ring
  <1>8. Plain(u)
    BY <1>1, <1>5 DEF Plain, SameMembers
  <1>9. Round(u)
    BY <1>2, <1>5, <1>7, <1>8 DEF Round
  <1> QED BY <1>5, <1>6, <1>7, <1>9 DEF RingKept, SameMembers

\* Nothing happened.
LEMMA EvictedNone ==
    ASSUME NEW s, Round(s)
    PROVE  Evicted(s, s, {})
  <1>1. s.status = Gone(s, {})
    <2>1. s.status = [c \in Chunks |-> s.status[c]]
      BY DEF Round, Plain, SchedType
    <2> QED BY <2>1 DEF Gone
  <1> QED BY <1>1 DEF Evicted, RingKept

\* What the choice of victims is unloaded and gathered to.
LEMMA SwapOutListIs ==
    ASSUME NEW s, Round(s), Ring(s) # {}, NEW k, k = Cardinality(memChunks(s)), NEW n, NEW want,
           NEW v, Chosen(s, Backward(s), want, v, k), NEW r, r = SwapOutList(s, n, v).s
    PROVE  Evicted(s, r, ToSet(v.list))
  <1>1. v.list \in Seq(Ring(s)) /\ \A j \in 1..Len(v.list) : Candidate(s, v.list[j])
    BY DEF Chosen
  <1>2. PICK V : V = ToSet(v.list)
    OBVIOUS
  <1>3. V \in SUBSET {c \in Ring(s) : Candidate(s, c)}
    BY <1>1, <1>2 DEF ToSet
  <1>4. V \in SUBSET Chunks /\ NULL \notin V
    BY <1>3, ConstantsAssumption DEF Ring
  <1>5. CASE v.list = <<>>
    <2>1. V = {}
      BY <1>2, <1>5 DEF ToSet
    <2>2. r = s
      BY <1>5 DEF SwapOutList
    <2> QED BY <1>2, <2>1, <2>2, EvictedNone
  <1>6. CASE v.list # <<>>
    <2>1. PICK from : from = Backward(s)[v.last]
      OBVIOUS
    <2>2. from \in V
      <3>1. \E j \in 1..Len(v.list) : v.list[j] = from
        BY <1>6, <2>1 DEF Chosen
      <3>2. DOMAIN v.list = 1..Len(v.list)
        BY <1>1
      <3> QED BY <1>2, <3>1, <3>2 DEF ToSet
    <2>3. PICK a : a = Selected(s, v.list)
      OBVIOUS
    <2>4. /\ a \in SchedType /\ SameMembers(s, a) /\ a.next = s.next /\ a.prev = s.prev
          /\ a.counterActive = s.counterActive /\ a.active \in Ring(s)
      BY <1>1, <2>3, SelectedIs
    <2>5. PICK b : b = Unload(a, V)
      OBVIOUS
    <2>6. /\ b \in SchedType /\ b.status = Gone(a, V) /\ b.copies = a.copies \cup V
          /\ b.next = a.next /\ b.prev = a.prev /\ b.active = a.active /\ b.counterActive = a.counterActive
          /\ b.preemptiveStart = a.preemptiveStart /\ b.preemptiveBytes = a.preemptiveBytes
          /\ b.users = a.users /\ b.preloaded = a.preloaded
          /\ b.asynchronous = a.asynchronous /\ b.preemptiveSwapIn = a.preemptiveSwapIn /\ b.most = a.most
      BY <1>4, <2>4, <2>5, UnloadIs
    <2>7. Gone(a, V) = Gone(s, V) /\ b.copies = s.copies \cup V
      BY <2>4, <2>6 DEF Gone, SameMembers
    <2>8. PICK R : R = Ring(s) /\ R = Ring(b)
      BY <2>4, <2>6 DEF Ring
    <2>9. OneRing(b.next, b.prev, R) /\ b.counterActive \in R /\ b.active \in R
      BY <2>4, <2>6, <2>8 DEF Round
    <2>10. from \in R /\ b.status[from] \in Away
      <3>1. from \in R /\ from \in Chunks
        BY <1>3, <1>4, <2>2, <2>8
      <3>2. b.status[from] = Gone(s, V)[from]
        BY <2>6, <2>7
      <3> QED BY <2>2, <3>1, <3>2 DEF Gone, Away
    <2>11. PICK g : g = GatherAway(b, from)
      OBVIOUS
    <2>12. /\ g \in SchedType /\ SameMembers(b, g) /\ g.active = b.active /\ g.counterActive \in R
           /\ Ring(g) = R /\ OneRing(g.next, g.prev, R)
      <3>1. b \in SchedType
        BY <2>6
      <3> QED BY <2>8, <2>9, <2>10, <2>11, <3>1, GatherAwayIs
    <2>13. Plain(g)
      <3>1. Plain(s)
        BY DEF Round
      <3>2. /\ s.preemptiveSwapIn = g.preemptiveSwapIn /\ s.preloaded = g.preloaded
            /\ s.preemptiveStart = g.preemptiveStart /\ s.preemptiveBytes = g.preemptiveBytes
        BY <2>4, <2>6, <2>12 DEF SameMembers
      <3> QED BY <2>12, <3>1, <3>2 DEF Plain
    <2>14. R # {} /\ g.active \in R
      BY <2>8, <2>9, <2>12
    <2>15. Round(g)
      BY <2>12, <2>13, <2>14 DEF Round
    <2>16. r = MovePreemptive(MoveActive(g), V)
      BY <1>2, <1>6, <2>1, <2>3, <2>5, <2>11 DEF SwapOutList
    <2>17. RingKept(g, r) /\ r.status = g.status /\ r.copies = g.copies
      BY <1>4, <2>12, <2>14, <2>15, <2>16, MovedIs
    <2>18. r.status = Gone(s, V) /\ r.copies = s.copies \cup V
      BY <2>6, <2>7, <2>12, <2>17 DEF SameMembers
    <2>19. RingKept(s, r)
      <3>1. g.users = s.users /\ g.asynchronous = s.asynchronous /\ g.most = s.most /\ Ring(g) = Ring(s)
        BY <2>4, <2>6, <2>8, <2>12 DEF SameMembers
      <3> QED BY <2>17, <3>1 DEF RingKept
    <2> QED BY <1>2, <1>3, <2>18, <2>19 DEF Evicted
  <1> QED BY <1>5, <1>6

\* swapOut.
LEMMA SwapOutIs ==
    ASSUME NEW s, Round(s), Ring(s) # {}, NEW n
    PROVE  \E V : Evicted(s, SwapOut(s, n).s, V)
  <1>1. CASE n > MemMax
    <2>1. SwapOut(s, n).s = s
      BY <1>1 DEF SwapOut
    <2> QED BY <2>1, EvictedNone
  <1>2. CASE ~(n > MemMax)
    <2>1. PICK v : v = Victims(s, n)
      OBVIOUS
    <2>2. PICK r : r = SwapOutList(s, n, v).s
      OBVIOUS
    <2>3. Chosen(s, Backward(s), Goal(s, n), v, Cardinality(memChunks(s)))
      BY <2>1, RoundIsCircle, VictimsAre
    <2>4. Evicted(s, r, ToSet(v.list))
      BY <2>2, <2>3, SwapOutListIs
    <2>5. SwapOut(s, n).s = r
      BY <1>2, <2>1, <2>2 DEF SwapOut
    <2> QED BY <2>4, <2>5
  <1> QED BY <1>1, <1>2

-----------------------------------------------------------------------------
(* touch, schedulerRegister and schedulerDelete *)

\* The ring depends on the links and the pointers only.
LEMMA RoundSame ==
    ASSUME NEW s, Round(s), NEW r \in SchedType, r.next = s.next, r.prev = s.prev,
           r.active = s.active, r.counterActive = s.counterActive,
           r.preemptiveSwapIn = s.preemptiveSwapIn, r.preloaded = s.preloaded,
           r.preemptiveStart = s.preemptiveStart, r.preemptiveBytes = s.preemptiveBytes
    PROVE  Round(r) /\ Ring(r) = Ring(s)
  <1>1. Ring(r) = Ring(s)
    BY DEF Ring
  <1>2. Plain(r)
    BY DEF Round, Plain
  <1> QED BY <1>1, <1>2 DEF Round

\* The same with other pointers and links that are a ring.
LEMMA RoundAnew ==
    ASSUME NEW s, Plain(s), NEW r, r \in SchedType, SameMembers(s, r), NEW R, R = Ring(r),
           OneRing(r.next, r.prev, R),
           IF R = {} THEN r.active = NULL /\ r.counterActive = NULL
           ELSE r.active \in R /\ r.counterActive \in R
    PROVE  Round(r)
  <1>1. Plain(r)
    BY DEF Plain, SameMembers
  <1> QED BY <1>1 DEF Round

\* Without guesses Counted only forgets how many were right.
LEMMA CountedIs ==
    ASSUME NEW s, Round(s), NEW c \in Chunks, NEW r, r = Counted(s, c)
    PROVE  /\ Round(r) /\ Ring(r) = Ring(s) /\ r.next = s.next /\ r.prev = s.prev
           /\ r.active = s.active /\ r.counterActive = s.counterActive
           /\ r.status = s.status /\ r.copies = s.copies /\ r.users = s.users
           /\ r.asynchronous = s.asynchronous /\ r.most = s.most
  <1>1. s \in SchedType /\ ~s.preemptiveSwapIn /\ s.preloaded = {} /\ s.preemptiveStart = NULL
    BY DEF Round, Plain
  <1>2. NULL # c
    BY ConstantsAssumption
  <1>3. c \notin s.preloaded /\ s.preloaded \ {c} = {} /\ LeavePreemptive(s, c) = NULL
    BY <1>1, <1>2 DEF LeavePreemptive
  <1>4. r = [s EXCEPT !.consecutive = 0, !.preemptiveBytes = @, !.preloaded = @ \ {c}, !.preemptiveStart = NULL]
    BY <1>3 DEF Counted
  <1>5. /\ r.next = s.next /\ r.prev = s.prev /\ r.active = s.active /\ r.counterActive = s.counterActive
        /\ r.status = s.status /\ r.copies = s.copies /\ r.users = s.users
        /\ r.asynchronous = s.asynchronous /\ r.most = s.most /\ r.preemptiveSwapIn = s.preemptiveSwapIn
        /\ r.preloaded = s.preloaded /\ r.preemptiveStart = s.preemptiveStart
        /\ r.preemptiveBytes = s.preemptiveBytes
    BY <1>1, <1>3, <1>4 DEF SchedType
  <1>6. r \in SchedType
    <2>1. NULL \in Elements /\ 0 \in 0..2 /\ s.preloaded \ {c} \in SUBSET Chunks
      BY <1>3 DEF Elements
    <2> QED BY <1>1, <1>4, <2>1 DEF SchedType
  <1>7. Round(r) /\ Ring(r) = Ring(s)
    BY <1>5, <1>6, RoundSame
  <1> QED BY <1>5, <1>7

\* A step within the manager that takes no chunk into the ring or out of it, and leaves the
\* status of the chunks outside.
Whole(s) == Round(s) /\ \A c \in Ring(s) : s.status[c] # "NONE"

Works(s, r) ==
    /\ Whole(r) /\ Ring(r) = Ring(s) /\ r.users = s.users
    /\ r.asynchronous = s.asynchronous /\ r.most = s.most
    /\ \A d \in Chunks \ Ring(s) : r.status[d] = s.status[d]

\* Two pieces of work are one.
LEMMA WorksTwice ==
    ASSUME NEW s, NEW r, NEW v, Works(s, r), Works(r, v)
    PROVE  Works(s, v)
  BY DEF Works

\* touch.
LEMMA TouchIs ==
    ASSUME NEW s, Whole(s), NEW c \in Ring(s)
    PROVE  Works(s, Touch(s, c)) /\ Touch(s, c).status = s.status
  <1>1. PICK R : R = Ring(s) /\ R \in SUBSET Chunks /\ c \in Chunks
    BY DEF Ring
  <1>2. /\ s \in SchedType /\ Plain(s) /\ OneRing(s.next, s.prev, R) /\ s.active \in R /\ s.counterActive \in R
        /\ Round(s)
    BY <1>1 DEF Whole, Round, Plain
  <1>3. \A x \in R : s.next[x] \in R /\ s.prev[x] \in R /\ s.prev[s.next[x]] = x /\ s.next[s.prev[x]] = x
    BY <1>2 DEF OneRing
  <1>4. PICK u : u = Counted(s, c)
    OBVIOUS
  <1>5. /\ Round(u) /\ Ring(u) = R /\ u.next = s.next /\ u.prev = s.prev
        /\ u.active = s.active /\ u.counterActive = s.counterActive
        /\ u.status = s.status /\ u.copies = s.copies /\ u.users = s.users
        /\ u.asynchronous = s.asynchronous /\ u.most = s.most
    <2>1. Round(s) /\ c \in Chunks
      BY <1>1, <1>2
    <2>2. /\ Round(u) /\ Ring(u) = Ring(s) /\ u.next = s.next /\ u.prev = s.prev
          /\ u.active = s.active /\ u.counterActive = s.counterActive
          /\ u.status = s.status /\ u.copies = s.copies /\ u.users = s.users
          /\ u.asynchronous = s.asynchronous /\ u.most = s.most
      BY <1>4, <2>1, CountedIs
    <2> QED BY <1>1, <2>2
  <1>6. u \in SchedType /\ Plain(u)
    <2>1. Round(u)
      BY <1>5
    <2> QED BY <2>1 DEF Round, Plain
  <1>7. ASSUME NEW r, r \in SchedType, SameMembers(u, r), Ring(r) = R, OneRing(r.next, r.prev, R),
               r.active \in R, r.counterActive \in R
        PROVE  Works(s, r) /\ r.status = s.status
    <2>1. Round(r)
      BY <1>6, <1>7, RoundAnew
    <2>2. r.status = s.status /\ r.users = s.users /\ r.asynchronous = s.asynchronous /\ r.most = s.most
      BY <1>5, <1>7 DEF SameMembers
    <2>3. Whole(r)
      BY <1>1, <1>7, <2>1, <2>2 DEF Whole
    <2> QED BY <1>1, <1>7, <2>2, <2>3 DEF Works
  <1>8. PICK g : g = [u EXCEPT !.active = c, !.counterActive = IF @ = c THEN s.prev[c] ELSE @]
    OBVIOUS
  <1>9. /\ g \in SchedType /\ SameMembers(u, g) /\ g.next = s.next /\ g.prev = s.prev
        /\ g.active = c /\ g.counterActive \in R
    <2>1. PICK e : e = IF u.counterActive = c THEN s.prev[c] ELSE u.counterActive
      OBVIOUS
    <2>2. e \in R
      BY <1>1, <1>2, <1>3, <1>5, <2>1
    <2>3. g = [u EXCEPT !.active = c, !.counterActive = e]
      BY <1>6, <1>8, <2>1 DEF SchedType
    <2>4. c \in Elements /\ e \in Elements
      BY <1>1, <2>2 DEF Elements
    <2>5. g \in SchedType
      BY <1>6, <2>3, <2>4 DEF SchedType
    <2>6. SameMembers(u, g) /\ g.next = u.next /\ g.prev = u.prev /\ g.active = c /\ g.counterActive = e
      BY <1>6, <2>3 DEF SchedType, SameMembers
    <2> QED BY <1>5, <2>2, <2>5, <2>6
  <1>10. Ring(g) = R
    BY <1>1, <1>9 DEF Ring
  <1>11. CASE s.active = c
    <2>1. Touch(s, c) = u
      BY <1>4, <1>11 DEF Touch
    <2>2. Works(s, u) /\ u.status = s.status
      <3>1. SameMembers(u, u)
        BY DEF SameMembers
      <3> QED BY <1>2, <1>5, <1>6, <1>7, <3>1
    <2> QED BY <2>1, <2>2
  <1>12. CASE s.active # c /\ s.prev[s.active] = c
    <2>1. Touch(s, c) = g
      BY <1>4, <1>8, <1>12 DEF Touch
    <2>2. Works(s, g) /\ g.status = s.status
      BY <1>1, <1>2, <1>7, <1>9, <1>10
    <2> QED BY <2>1, <2>2
  <1>13. CASE s.active # c /\ s.prev[s.active] # c
    <2>1. PICK a, b, p, e \in R : a = s.prev[c] /\ b = s.next[c] /\ p = s.prev[s.active] /\ e = s.active
      BY <1>1, <1>2, <1>3
    <2>2. a \in Chunks /\ b \in Chunks /\ p \in Chunks /\ e \in Chunks /\ e # c /\ p # c /\ s.next[c] # c
      <3>1. SUFFICES ASSUME s.next[c] = c PROVE FALSE
        BY <1>1, <1>13, <2>1
      <3>2. {c} \in SUBSET R /\ {c} # {} /\ \A x \in {c} : s.next[x] \in {c}
        BY <1>1, <3>1
      <3>3. {c} = R
        BY <1>2, <3>2 DEF OneRing
      <3> QED BY <1>13, <2>1, <3>3
    <2>3. PICK x : x = Connect(g, a, b)
      OBVIOUS
    <2>4. Relinked(g, x) /\ x.next = [s.next EXCEPT ![a] = b] /\ x.prev = [s.prev EXCEPT ![b] = a]
      BY <1>9, <2>2, <2>3, ConnectIs
    <2>5. PICK y : y = Connect(x, p, c)
      OBVIOUS
    <2>6. Relinked(x, y) /\ y.next = [x.next EXCEPT ![p] = c] /\ y.prev = [x.prev EXCEPT ![c] = p]
      <3>1. x \in SchedType
        BY <2>4 DEF Relinked
      <3> QED BY <1>1, <2>2, <2>5, <3>1, ConnectIs
    <2>7. PICK r : r = Connect(y, c, e)
      OBVIOUS
    <2>8. Relinked(y, r) /\ r.next = [y.next EXCEPT ![c] = e] /\ r.prev = [y.prev EXCEPT ![e] = c]
      <3>1. y \in SchedType
        BY <2>6 DEF Relinked
      <3> QED BY <1>1, <2>2, <2>7, <3>1, ConnectIs
    <2>9. Touch(s, c) = r
      BY <1>4, <1>8, <1>13, <2>1, <2>3, <2>5, <2>7 DEF Touch
    <2>10. s.next \in [Chunks -> Elements] /\ s.prev \in [Chunks -> Elements]
      BY <1>2 DEF SchedType
    <2>11. OneRing(x.next, x.prev, R \ {c})
      <3>1. x.next[s.prev[c]] = s.next[c] /\ \A z \in R : z # s.prev[c] => x.next[z] = s.next[z]
        BY <1>1, <2>1, <2>2, <2>4, <2>10
      <3>2. x.prev[s.next[c]] = s.prev[c] /\ \A z \in R : z # s.next[c] => x.prev[z] = s.prev[z]
        BY <1>1, <2>1, <2>2, <2>4, <2>10
      <3>3. OneRing(s.next, s.prev, R) /\ c \in R /\ s.next[c] # c
        BY <1>1, <1>2, <2>1, <2>2
      <3>4. CutOut(s.next, s.prev, x.next, x.prev, R, c)
        BY <3>1, <3>2 DEF CutOut
      <3> QED BY <3>3, <3>4, RingCut
    <2>12. x.prev[e] = p
      <3>1. e # b
        BY <1>1, <1>3, <1>13, <2>1
      <3> QED BY <2>1, <2>2, <2>4, <2>10, <3>1
    <2>13. Between(x.next, x.prev, r.next, r.prev, R \ {c}, x.prev[e], c, e)
      <3>1. x.next \in [Chunks -> Elements] /\ x.prev \in [Chunks -> Elements]
        BY <2>4 DEF Relinked, SchedType
      <3>2. r.next = [[x.next EXCEPT ![p] = c] EXCEPT ![c] = e] /\ r.prev = [[x.prev EXCEPT ![c] = p] EXCEPT ![e] = c]
        BY <2>6, <2>8
      <3>3. r.next[p] = c /\ r.next[c] = e /\ \A z \in (R \ {c}) \ {p, c} : r.next[z] = x.next[z]
        BY <1>1, <2>2, <3>1, <3>2
      <3>4. r.prev[e] = c /\ r.prev[c] = p /\ \A z \in (R \ {c}) \ {e, c} : r.prev[z] = x.prev[z]
        BY <1>1, <2>2, <3>1, <3>2
      <3> QED BY <2>12, <3>3, <3>4 DEF Between
    <2>14. OneRing(r.next, r.prev, R)
      <3>1. e \in R \ {c} /\ c \notin R \ {c} /\ (R \ {c}) \cup {c} = R
        BY <1>1, <2>1, <2>2
      <3>2. OneRing(r.next, r.prev, (R \ {c}) \cup {c})
        BY <2>11, <2>13, <3>1, RingPut
      <3> QED BY <3>1, <3>2
    <2>15. Relinked(g, r)
      <3>1. Relinked(g, y)
        BY <2>4, <2>6, RelinkedTwice
      <3> QED BY <2>8, <3>1, RelinkedTwice
    <2>16. r \in SchedType /\ SameMembers(u, r) /\ r.active = c /\ r.counterActive = g.counterActive
      BY <1>9, <2>15 DEF Relinked, SameMembers
    <2>17. Ring(r) = R
      <3>1. \A z \in Chunks \ R : r.next[z] = s.next[z]
        BY <1>1, <2>1, <2>2, <2>4, <2>6, <2>8, <2>10
      <3> QED BY <1>1, <1>2, <2>14, <2>16, <3>1, RingSame
    <2>18. Works(s, r) /\ r.status = s.status
      BY <1>1, <1>7, <1>9, <2>14, <2>16, <2>17
    <2> QED BY <2>9, <2>18
  <1> QED BY <1>11, <1>12, <1>13

\* A ring that has lost or gained chunks, all else the same.
Recast(s, r, R) == /\ Whole(r) /\ Ring(r) = R /\ r.status = s.status /\ r.users = s.users
                   /\ r.copies = s.copies /\ r.asynchronous = s.asynchronous /\ r.most = s.most

\* What is to be shown of a state in which the ring has other members.
LEMMA RecastIs ==
    ASSUME NEW s, Whole(s), NEW R, NEW r, r \in SchedType, SameMembers(s, r), Ring(r) = R,
           OneRing(r.next, r.prev, R), \A x \in R : s.status[x] # "NONE",
           IF R = {} THEN r.active = NULL /\ r.counterActive = NULL
           ELSE r.active \in R /\ r.counterActive \in R
    PROVE  Recast(s, r, R)
  <1>1. Plain(s)
    BY DEF Whole, Round
  <1>2. Round(r)
    BY <1>1, RoundAnew
  <1>3. r.status = s.status /\ r.users = s.users /\ r.copies = s.copies /\ r.asynchronous = s.asynchronous
        /\ r.most = s.most
    BY DEF SameMembers
  <1>4. Whole(r)
    BY <1>2, <1>3 DEF Whole
  <1> QED BY <1>3, <1>4 DEF Recast

\* schedulerRegister: a chunk is put into the ring.
LEMMA RegisterIs ==
    ASSUME NEW s, Whole(s), NEW c \in Chunks, c \notin Ring(s), s.status[c] # "NONE"
    PROVE  Recast(s, SchedulerRegister(s, c), Ring(s) \cup {c})
  <1>1. PICK R : R = Ring(s) /\ R \in SUBSET Chunks /\ c \notin R
    BY DEF Ring
  <1>2. /\ s \in SchedType /\ Plain(s) /\ OneRing(s.next, s.prev, R)
        /\ IF R = {} THEN s.active = NULL /\ s.counterActive = NULL ELSE s.active \in R /\ s.counterActive \in R
    BY <1>1 DEF Whole, Round, Plain
  <1>3. s.next \in [Chunks -> Elements] /\ s.prev \in [Chunks -> Elements] /\ c \in Elements /\ c # NULL
        /\ s.counterActive \in Elements /\ NULL \notin Chunks
    BY <1>2, ConstantsAssumption DEF SchedType, Elements
  <1>4. \A x \in R \cup {c} : s.status[x] # "NONE"
    BY <1>1 DEF Whole
  <1>5. s.active = NULL <=> R = {}
    BY <1>1, <1>2, <1>3
  <1>6. PICK u : u = IF R = {} THEN Connect(s, c, c) ELSE Connect(Connect(s, s.prev[s.active], c), c, s.active)
    OBVIOUS
  <1>7. PICK b : b = IF R = {} \/ (s.counterActive = s.active /\ s.status[s.counterActive] \in Away) THEN c
                     ELSE s.counterActive
    OBVIOUS
  <1>8. PICK r : r = [u EXCEPT !.active = c, !.counterActive = b]
    OBVIOUS
  <1>9. SchedulerRegister(s, c) = r
    BY <1>5, <1>6, <1>7, <1>8 DEF SchedulerRegister
  <1>10. Relinked(s, u) /\ OneRing(u.next, u.prev, R \cup {c}) /\ \A x \in Chunks \ (R \cup {c}) : u.next[x] = s.next[x]
    <2>1. CASE R = {}
      <3>1. Relinked(s, u) /\ u.next = [s.next EXCEPT ![c] = c] /\ u.prev = [s.prev EXCEPT ![c] = c]
        BY <1>2, <1>6, <2>1, ConnectIs
      <3>2. OneRing(u.next, u.prev, {c})
        BY <1>3, <3>1, RingOfOne
      <3> QED BY <1>3, <2>1, <3>1, <3>2
    <2>2. CASE R # {}
      <3>1. PICK e, p \in R : e = s.active /\ p = s.prev[e]
        BY <1>2, <2>2 DEF OneRing
      <3>2. e \in Chunks /\ p \in Chunks /\ e # c /\ p # c
        BY <1>1
      <3>3. PICK x : x = Connect(s, p, c)
        OBVIOUS
      <3>4. Relinked(s, x) /\ x.next = [s.next EXCEPT ![p] = c] /\ x.prev = [s.prev EXCEPT ![c] = p]
        BY <1>2, <3>2, <3>3, ConnectIs
      <3>5. u = Connect(x, c, e)
        BY <1>6, <2>2, <3>1, <3>3
      <3>6. Relinked(x, u) /\ u.next = [x.next EXCEPT ![c] = e] /\ u.prev = [x.prev EXCEPT ![e] = c]
        <4>1. x \in SchedType
          BY <3>4 DEF Relinked
        <4> QED BY <3>2, <3>5, <4>1, ConnectIs
      <3>7. Relinked(s, u)
        BY <3>4, <3>6, RelinkedTwice
      <3>8. u.next = [[s.next EXCEPT ![p] = c] EXCEPT ![c] = e] /\ u.prev = [[s.prev EXCEPT ![c] = p] EXCEPT ![e] = c]
        BY <3>4, <3>6
      <3>9. u.next[p] = c /\ u.next[c] = e /\ \A z \in Chunks \ {p, c} : u.next[z] = s.next[z]
        BY <1>3, <3>2, <3>8
      <3>10. u.prev[e] = c /\ u.prev[c] = p /\ \A z \in Chunks \ {e, c} : u.prev[z] = s.prev[z]
        BY <1>3, <3>2, <3>8
      <3>11. Between(s.next, s.prev, u.next, u.prev, R, s.prev[e], c, e)
        BY <1>1, <3>1, <3>9, <3>10 DEF Between
      <3>12. OneRing(u.next, u.prev, R \cup {c})
        BY <1>1, <1>2, <3>1, <3>11, RingPut
      <3> QED BY <3>1, <3>7, <3>9, <3>12
    <2> QED BY <2>1, <2>2
  <1>11. b \in R \cup {c} /\ b \in Elements
    BY <1>1, <1>2, <1>3, <1>7
  <1>12. u \in SchedType /\ SameMembers(s, u)
    BY <1>10 DEF Relinked
  <1>13. r \in SchedType
    BY <1>3, <1>8, <1>11, <1>12 DEF SchedType
  <1>14. SameMembers(s, r) /\ r.next = u.next /\ r.prev = u.prev /\ r.active = c /\ r.counterActive = b
    BY <1>8, <1>12 DEF SchedType, SameMembers
  <1>15. Ring(r) = R \cup {c}
    <2>1. \A x \in Chunks \ R : s.next[x] = NULL
      BY <1>1 DEF Ring
    <2>2. \A x \in Chunks \ (R \cup {c}) : r.next[x] = NULL
      BY <1>10, <1>14, <2>1
    <2>3. \A x \in R \cup {c} : r.next[x] # NULL
      BY <1>1, <1>3, <1>10, <1>14 DEF OneRing
    <2> QED BY <1>1, <2>2, <2>3 DEF Ring
  <1>16. OneRing(r.next, r.prev, R \cup {c}) /\ r.active \in R \cup {c} /\ r.counterActive \in R \cup {c} /\ R \cup {c} # {}
    BY <1>10, <1>11, <1>14
  <1>17. Recast(s, r, R \cup {c})
    BY <1>4, <1>13, <1>14, <1>15, <1>16, RecastIs
  <1> QED BY <1>1, <1>9, <1>17

\* What schedulerDelete, r, leaves of the links and the pointers: u is s with c cut out.
Deleted(s, c, u, a, b, r) ==
    /\ u = IF s.next[c] = c THEN s ELSE Connect(s, s.prev[c], s.next[c])
    /\ a = IF s.next[c] = c THEN NULL ELSE IF s.active = c THEN s.next[c] ELSE s.active
    /\ b = IF s.next[c] = c THEN NULL ELSE IF s.counterActive = c THEN s.prev[c] ELSE s.counterActive
    /\ r = SchedulerDelete(s, c)
    /\ Relinked(s, u) /\ r \in SchedType /\ SameMembers(s, r) /\ r.active = a /\ r.counterActive = b
    /\ r.next = [u.next EXCEPT ![c] = NULL] /\ r.prev = [u.prev EXCEPT ![c] = NULL]
    /\ Ring(s) \ {c} = {} <=> s.next[c] = c
    /\ s.next[c] # c => a \in Ring(s) \ {c} /\ b \in Ring(s) \ {c}

\* schedulerDelete, link by link.
LEMMA DeletedIs ==
    ASSUME NEW s, Whole(s), NEW c \in Ring(s)
    PROVE  \E u, a, b, r : Deleted(s, c, u, a, b, r)
  <1>1. PICK R : R = Ring(s) /\ R \in SUBSET Chunks /\ c \in R /\ c \in Chunks
    BY DEF Ring
  <1>2. /\ s \in SchedType /\ Plain(s) /\ OneRing(s.next, s.prev, R) /\ s.active \in R /\ s.counterActive \in R
        /\ s.preloaded = {} /\ s.preemptiveStart = NULL /\ s.preemptiveBytes = 0
    BY <1>1 DEF Whole, Round, Plain
  <1>3. \A x \in R : s.next[x] \in R /\ s.prev[x] \in R /\ s.prev[s.next[x]] = x /\ s.next[s.prev[x]] = x
    BY <1>2 DEF OneRing
  <1>4. NULL \notin Chunks /\ NULL \in Elements /\ \A x \in R : x \in Elements
    BY <1>1, ConstantsAssumption DEF Elements
  <1>5. PICK u : u = IF s.next[c] = c THEN s ELSE Connect(s, s.prev[c], s.next[c])
    OBVIOUS
  <1>6. PICK a : a = IF s.next[c] = c THEN NULL ELSE IF s.active = c THEN s.next[c] ELSE s.active
    OBVIOUS
  <1>7. PICK b : b = IF s.next[c] = c THEN NULL ELSE IF s.counterActive = c THEN s.prev[c] ELSE s.counterActive
    OBVIOUS
  <1>8. Relinked(s, u)
    <2>1. CASE s.next[c] = c
      BY <1>2, <1>5, <2>1 DEF Relinked, SameMembers
    <2>2. CASE s.next[c] # c
      <3>1. s.prev[c] \in Chunks /\ s.next[c] \in Chunks
        BY <1>1, <1>3
      <3> QED BY <1>2, <1>5, <2>2, <3>1, ConnectIs
    <2> QED BY <2>1, <2>2
  <1>9. u \in SchedType /\ SameMembers(s, u) /\ u.active = s.active /\ u.counterActive = s.counterActive
    BY <1>8 DEF Relinked
  <1>10. PICK v : v = [u EXCEPT !.preemptiveBytes = @, !.preloaded = @, !.preemptiveStart = NULL,
                                !.active = a, !.counterActive = b,
                                !.next[c] = NULL, !.prev[c] = NULL]
    OBVIOUS
  <1>11. SchedulerDelete(s, c) = v
    <2>1. c \notin s.preloaded /\ LeavePreemptive(s, c) = NULL
      BY <1>1, <1>2, <1>4 DEF LeavePreemptive
    <2>2. SchedulerDelete(s, c) =
             [u EXCEPT !.preemptiveBytes = @, !.preloaded = @, !.preemptiveStart = NULL,
                       !.active = IF s.next[c] = c THEN NULL ELSE IF @ = c THEN s.next[c] ELSE @,
                       !.counterActive = IF s.next[c] = c THEN NULL ELSE IF @ = c THEN s.prev[c] ELSE @,
                       !.next[c] = NULL, !.prev[c] = NULL]
      BY <1>5, <2>1 DEF SchedulerDelete
    <2>3. a = IF s.next[c] = c THEN NULL ELSE IF u.active = c THEN s.next[c] ELSE u.active
      BY <1>6, <1>9
    <2>4. b = IF s.next[c] = c THEN NULL ELSE IF u.counterActive = c THEN s.prev[c] ELSE u.counterActive
      BY <1>7, <1>9
    <2> QED BY <1>9, <1>10, <2>2, <2>3, <2>4 DEF SchedType
  <1>12. u.next \in [Chunks -> Elements] /\ u.prev \in [Chunks -> Elements]
    BY <1>9 DEF SchedType
  <1>13. R \ {c} = {} <=> s.next[c] = c
    <2>1. ASSUME s.next[c] = c PROVE R = {c}
      <3>1. {c} \in SUBSET R /\ {c} # {} /\ \A x \in {c} : s.next[x] \in {c}
        BY <1>1, <2>1
      <3> QED BY <1>2, <3>1 DEF OneRing
    <2>2. ASSUME R \ {c} = {} PROVE s.next[c] = c
      BY <1>1, <1>3, <2>2
    <2> QED BY <2>1, <2>2
  <1>14. s.next[c] # c => a \in R \ {c} /\ b \in R \ {c}
    <2>1. s.next[c] # c => s.prev[c] # c
      BY <1>1, <1>3
    <2> QED BY <1>1, <1>2, <1>3, <1>6, <1>7, <2>1
  <1>15. a \in Elements /\ b \in Elements
    BY <1>4, <1>6, <1>7, <1>14
  <1>16. v \in SchedType
    BY <1>4, <1>9, <1>10, <1>12, <1>15 DEF SchedType
  <1>17. /\ SameMembers(s, v) /\ v.active = a /\ v.counterActive = b
         /\ v.next = [u.next EXCEPT ![c] = NULL] /\ v.prev = [u.prev EXCEPT ![c] = NULL]
    <2>1. /\ v.active = a /\ v.counterActive = b
          /\ v.next = [u.next EXCEPT ![c] = NULL] /\ v.prev = [u.prev EXCEPT ![c] = NULL]
      BY <1>9, <1>10 DEF SchedType
    <2>2. u.preemptiveStart = NULL
      BY <1>2, <1>9 DEF SameMembers
    <2>3. SameMembers(u, v)
      BY <1>9, <1>10, <2>2 DEF SchedType, SameMembers
    <2> QED BY <1>9, <2>1, <2>3 DEF SameMembers
  <1>18. Deleted(s, c, u, a, b, v)
    BY <1>1, <1>5, <1>6, <1>7, <1>8, <1>11, <1>13, <1>14, <1>16, <1>17, Zenon DEF Deleted
  <1> QED BY <1>18

\* schedulerDelete: a chunk leaves the ring.
LEMMA DeleteIs ==
    ASSUME NEW s, Whole(s), NEW c \in Ring(s)
    PROVE  Recast(s, SchedulerDelete(s, c), Ring(s) \ {c})
  <1>1. PICK R : R = Ring(s) /\ R \in SUBSET Chunks /\ c \in R /\ c \in Chunks
    BY DEF Ring
  <1>2. /\ s \in SchedType /\ Plain(s) /\ OneRing(s.next, s.prev, R) /\ s.active \in R /\ s.counterActive \in R
        /\ s.preloaded = {} /\ s.preemptiveStart = NULL /\ s.preemptiveBytes = 0
    BY <1>1 DEF Whole, Round, Plain
  <1>3. \A x \in R : s.next[x] \in R /\ s.prev[x] \in R /\ s.prev[s.next[x]] = x /\ s.next[s.prev[x]] = x
    BY <1>2 DEF OneRing
  <1>4. NULL \notin Chunks /\ NULL \in Elements /\ \A x \in R : x \in Elements
    BY <1>1, ConstantsAssumption DEF Elements
  <1>5. PICK u, a, b, r : Deleted(s, c, u, a, b, r)
    BY DeletedIs
  <1>6. /\ u = IF s.next[c] = c THEN s ELSE Connect(s, s.prev[c], s.next[c])
        /\ a = IF s.next[c] = c THEN NULL ELSE IF s.active = c THEN s.next[c] ELSE s.active
        /\ b = IF s.next[c] = c THEN NULL ELSE IF s.counterActive = c THEN s.prev[c] ELSE s.counterActive
        /\ r = SchedulerDelete(s, c)
    BY <1>5 DEF Deleted
  <1>9. /\ Relinked(s, u) /\ r \in SchedType /\ SameMembers(s, r) /\ r.active = a /\ r.counterActive = b
        /\ r.next = [u.next EXCEPT ![c] = NULL] /\ r.prev = [u.prev EXCEPT ![c] = NULL]
        /\ Ring(s) \ {c} = {} <=> s.next[c] = c
        /\ s.next[c] # c => a \in Ring(s) \ {c} /\ b \in Ring(s) \ {c}
    BY <1>5 DEF Deleted
  <1>10. u \in SchedType
    BY <1>9 DEF Relinked
  <1>12. u.next \in [Chunks -> Elements] /\ u.prev \in [Chunks -> Elements]
    BY <1>10 DEF SchedType
  <1>13. R \ {c} = {} <=> s.next[c] = c
    BY <1>1, <1>9
  <1>14. s.next[c] # c => a \in R \ {c} /\ b \in R \ {c}
    BY <1>1, <1>9
  <1>16. r \in SchedType
    BY <1>9
  <1>17. /\ SameMembers(s, r) /\ r.active = a /\ r.counterActive = b
         /\ r.next = [u.next EXCEPT ![c] = NULL] /\ r.prev = [u.prev EXCEPT ![c] = NULL]
    BY <1>9
  <1>18. OneRing(r.next, r.prev, R \ {c}) /\ Ring(r) = R \ {c}
    <2>1. CASE s.next[c] = c
      <3>1. R \ {c} = {} /\ u = s
        BY <1>6, <1>13, <2>1
      <3>2. OneRing(r.next, r.prev, {})
        BY DEF OneRing
      <3>3. \A x \in Chunks \ R : s.next[x] = NULL
        BY <1>1 DEF Ring
      <3>4. \A x \in Chunks : r.next[x] = NULL
        BY <1>1, <1>12, <1>17, <3>1, <3>3
      <3>5. Ring(r) = {}
        BY <3>4 DEF Ring
      <3> QED BY <3>1, <3>2, <3>5
    <2>2. CASE s.next[c] # c
      <3>1. PICK p, n \in R : p = s.prev[c] /\ n = s.next[c] /\ p \in Chunks /\ n \in Chunks
        BY <1>1, <1>3
      <3>2. p # c /\ n # c
        BY <1>1, <1>3, <2>2, <3>1
      <3>3. u = Connect(s, p, n)
        BY <1>6, <2>2, <3>1
      <3>4. u.next = [s.next EXCEPT ![p] = n] /\ u.prev = [s.prev EXCEPT ![n] = p]
        BY <1>2, <3>1, <3>3, ConnectIs
      <3>5. s.next \in [Chunks -> Elements] /\ s.prev \in [Chunks -> Elements]
        BY <1>2 DEF SchedType
      <3>6. u.next[s.prev[c]] = s.next[c] /\ \A x \in R : x # s.prev[c] => u.next[x] = s.next[x]
        BY <1>1, <3>1, <3>4, <3>5
      <3>7. u.prev[s.next[c]] = s.prev[c] /\ \A x \in R : x # s.next[c] => u.prev[x] = s.prev[x]
        BY <1>1, <3>1, <3>4, <3>5
      <3>8. OneRing(u.next, u.prev, R \ {c})
        <4>1. OneRing(s.next, s.prev, R) /\ c \in R /\ s.next[c] # c
          BY <1>1, <1>2, <2>2
        <4>2. CutOut(s.next, s.prev, u.next, u.prev, R, c)
          BY <3>6, <3>7 DEF CutOut
        <4> QED BY <4>1, <4>2, RingCut
      <3>9. /\ \A x \in R \ {c} : r.next[x] = u.next[x] /\ r.prev[x] = u.prev[x]
            /\ \A x \in Chunks \ {c} : r.next[x] = u.next[x]
            /\ r.next[c] = NULL
        BY <1>1, <1>12, <1>17
      <3>10. OneRing(r.next, r.prev, R \ {c})
        <4>1. \A x \in R \ {c} : r.next[x] \in R \ {c} /\ r.prev[x] \in R \ {c}
                                 /\ r.prev[r.next[x]] = x /\ r.next[r.prev[x]] = x
          BY <3>8, <3>9 DEF OneRing
        <4>2. ASSUME NEW S \in SUBSET (R \ {c}), S # {}, \A x \in S : r.next[x] \in S
              PROVE  S = R \ {c}
          <5>1. \A x \in S : u.next[x] \in S
            BY <3>9, <4>2
          <5> QED BY <3>8, <4>2, <5>1 DEF OneRing
        <4> QED BY <4>1, <4>2 DEF OneRing
      <3>11. \A x \in Chunks \ R : r.next[x] = NULL
        <4>1. \A x \in Chunks \ R : s.next[x] = NULL
          BY <1>1 DEF Ring
        <4> QED BY <1>1, <3>1, <3>4, <3>5, <3>9, <4>1
      <3>12. \A x \in R \ {c} : r.next[x] # NULL
        BY <1>1, <1>4, <3>10 DEF OneRing
      <3>13. Ring(r) = R \ {c}
        BY <1>1, <3>9, <3>11, <3>12 DEF Ring
      <3> QED BY <3>10, <3>13
    <2> QED BY <2>1, <2>2
  <1>19. \A x \in R \ {c} : s.status[x] # "NONE"
    BY <1>1 DEF Whole
  <1>20. IF R \ {c} = {} THEN r.active = NULL /\ r.counterActive = NULL
         ELSE r.active \in R \ {c} /\ r.counterActive \in R \ {c}
    BY <1>6, <1>13, <1>14, <1>17
  <1>21. Recast(s, r, R \ {c})
    BY <1>16, <1>17, <1>18, <1>19, <1>20, RecastIs
  <1> QED BY <1>1, <1>6, <1>21

-----------------------------------------------------------------------------
(* ensureEnoughSpace, untouch and swapIn *)

\* Doing nothing is work.
LEMMA WorksNone ==
    ASSUME NEW s, Whole(s)
    PROVE  Works(s, s)
  BY DEF Works

\* What swapOut does leaves the ring whole.
LEMMA EvictedWorks ==
    ASSUME NEW s, Whole(s), NEW r, NEW V, Evicted(s, r, V)
    PROVE  Works(s, r)
  <1>1. /\ Round(r) /\ Ring(r) = Ring(s) /\ r.users = s.users
        /\ r.asynchronous = s.asynchronous /\ r.most = s.most
        /\ V \subseteq Ring(s) /\ r.status = Gone(s, V)
    BY DEF Evicted, RingKept
  <1>2. \A d \in Chunks : \/ d \in V /\ r.status[d] \in {"SWAPPED", "SWAPOUT"}
                          \/ d \notin V /\ r.status[d] = s.status[d]
    BY <1>1 DEF Gone
  <1>3. Ring(s) \subseteq Chunks
    BY DEF Ring
  <1>4. \A d \in Ring(s) : r.status[d] # "NONE"
    BY <1>2, <1>3 DEF Whole
  <1>5. \A d \in Chunks \ Ring(s) : r.status[d] = s.status[d]
    BY <1>1, <1>2
  <1> QED BY <1>1, <1>4, <1>5 DEF Works, Whole

\* swapOut leaves the ring whole.
LEMMA SwapOutWorks ==
    ASSUME NEW s, Whole(s), Ring(s) # {}, NEW n
    PROVE  Works(s, SwapOut(s, n).s)
  <1>1. Round(s)
    BY DEF Whole
  <1>2. PICK V : Evicted(s, SwapOut(s, n).s, V)
    BY <1>1, SwapOutIs
  <1> QED BY <1>2, EvictedWorks

\* untouch.
LEMMA UntouchIs ==
    ASSUME NEW s, Whole(s), Ring(s) # {}
    PROVE  Works(s, Untouch(s))
  <1>1. Untouch(s) = s \/ \E n : Untouch(s) = SwapOut(s, n).s
    BY DEF Untouch
  <1> QED BY <1>1, WorksNone, SwapOutWorks

\* A change of the members that the ring does not depend on.
LEMMA WholeSame ==
    ASSUME NEW s, Whole(s), NEW r \in SchedType, r.next = s.next, r.prev = s.prev,
           r.active = s.active, r.counterActive = s.counterActive,
           r.preemptiveSwapIn = s.preemptiveSwapIn, r.preloaded = s.preloaded,
           r.preemptiveStart = s.preemptiveStart, r.preemptiveBytes = s.preemptiveBytes,
           \A c \in Ring(s) : r.status[c] # "NONE"
    PROVE  Whole(r) /\ Ring(r) = Ring(s)
  <1>1. Round(r) /\ Ring(r) = Ring(s)
    BY RoundSame DEF Whole
  <1> QED BY <1>1 DEF Whole

\* Page copies are dropped.
LEMMA CleanedIs ==
    ASSUME NEW s, Whole(s)
    PROVE  Works(s, Cleaned(s)) /\ Cleaned(s).status = s.status
  <1>1. s \in SchedType
    BY DEF Whole, Round, Plain
  <1>2. PICK r : r = Cleaned(s)
    OBVIOUS
  <1>3. r = [s EXCEPT !.copies = s.copies \cap In(s, {"SWAPPED", "SWAPIN", "SWAPOUT"})]
    BY <1>1, <1>2 DEF Cleaned, SchedType
  <1>4. r \in SchedType
    BY <1>1, <1>3 DEF SchedType
  <1>5. /\ r.next = s.next /\ r.prev = s.prev /\ r.active = s.active /\ r.counterActive = s.counterActive
        /\ r.preemptiveSwapIn = s.preemptiveSwapIn /\ r.preloaded = s.preloaded
        /\ r.preemptiveStart = s.preemptiveStart /\ r.preemptiveBytes = s.preemptiveBytes
        /\ r.status = s.status /\ r.users = s.users /\ r.asynchronous = s.asynchronous /\ r.most = s.most
    BY <1>1, <1>3 DEF SchedType
  <1>6. \A c \in Ring(s) : r.status[c] # "NONE"
    BY <1>5 DEF Whole
  <1>7. Whole(r) /\ Ring(r) = Ring(s)
    BY <1>4, <1>5, <1>6, WholeSame
  <1> QED BY <1>2, <1>5, <1>7 DEF Works

\* ensureEnoughSpace.  swapOut is only called where the ring has a chunk.
LEMMA SpaceIs ==
    ASSUME NEW s, Whole(s), NEW n, NEW c,
           Ring(s) # {} \/ ~(n + Used(s) - MemMax - ToBeFreed(s) > 0)
    PROVE  /\ Works(s, EnsureEnoughSpace(s, n, c).s)
           /\ EnsureEnoughSpace(s, n, c).out \in {"there", "fits", "wait", "throw"}
           /\ c = NULL => EnsureEnoughSpace(s, n, c).out # "there"
  <1>1. PICK r : r = EnsureEnoughSpace(s, n, c)
    OBVIOUS
  <1>2. CASE c # NULL /\ Present(s, c)
    BY <1>1, <1>2, WorksNone DEF EnsureEnoughSpace
  <1>3. CASE ~(c # NULL /\ Present(s, c)) /\ Fits(s, n)
    BY <1>1, <1>3, WorksNone DEF EnsureEnoughSpace
  <1>4. CASE ~(c # NULL /\ Present(s, c)) /\ ~Fits(s, n)
    <2>1. PICK missing : missing = n + Used(s) - MemMax - ToBeFreed(s)
      OBVIOUS
    <2>2. PICK o : o = IF missing > 0 THEN SwapOut(s, missing) ELSE [s |-> s, ok |-> TRUE]
      OBVIOUS
    <2>3. r = RoomAfter(n, o)
      BY <1>1, <1>4, <2>1, <2>2 DEF EnsureEnoughSpace
    <2>4. Works(s, o.s)
      <3>1. CASE missing > 0
        BY <2>1, <2>2, <3>1, SwapOutWorks
      <3>2. CASE ~(missing > 0)
        BY <2>2, <3>2, WorksNone
      <3> QED BY <3>1, <3>2
    <2>5. CASE ~o.ok /\ ToBeFreed(o.s) = 0
      <3>1. r.s = Cleaned(o.s) /\ r.out = "throw"
        BY <2>3, <2>5 DEF RoomAfter
      <3>2. Works(o.s, Cleaned(o.s))
        BY <2>4, CleanedIs DEF Works
      <3>3. Works(s, r.s)
        BY <2>4, <3>1, <3>2, WorksTwice
      <3> QED BY <1>1, <3>1, <3>3
    <2>6. CASE ~(~o.ok /\ ToBeFreed(o.s) = 0)
      <3>1. r.s = o.s /\ r.out \in {"fits", "wait"}
        BY <2>3, <2>6 DEF RoomAfter
      <3> QED BY <1>1, <2>4, <3>1
    <2> QED BY <2>5, <2>6
  <1> QED BY <1>2, <1>3, <1>4

\* One chunk is swapped in.
LEMMA LoadIs ==
    ASSUME NEW s, Whole(s), NEW c \in Ring(s)
    PROVE  Works(s, Load(s, {c}))
  <1>1. s \in SchedType /\ s.status \in [Chunks -> Statuses] /\ s.copies \in SUBSET Chunks
    BY DEF Whole, Round, Plain, SchedType
  <1>2. PICK f : f = [d \in Chunks |-> IF d # c THEN s.status[d]
                                      ELSE IF s.asynchronous THEN "SWAPIN" ELSE "ALLOCATED"]
    OBVIOUS
  <1>3. f \in [Chunks -> Statuses]
    BY <1>1, <1>2 DEF Statuses
  <1>4. PICK p : p = IF s.asynchronous THEN s.copies ELSE s.copies \ {c}
    OBVIOUS
  <1>5. PICK r : r = [s EXCEPT !.status = f, !.copies = p]
    OBVIOUS
  <1>6. Load(s, {c}) = r
    <2>1. f = [d \in Chunks |-> IF d \notin {c} THEN s.status[d]
                                ELSE IF s.asynchronous THEN "SWAPIN" ELSE "ALLOCATED"]
      BY <1>2
    <2> QED BY <1>1, <1>4, <1>5, <2>1 DEF Load, SchedType
  <1>7. r \in SchedType
    <2>1. p \in SUBSET Chunks
      BY <1>1, <1>4
    <2> QED BY <1>1, <1>3, <1>5, <2>1 DEF SchedType
  <1>8. /\ r.next = s.next /\ r.prev = s.prev /\ r.active = s.active /\ r.counterActive = s.counterActive
        /\ r.preemptiveSwapIn = s.preemptiveSwapIn /\ r.preloaded = s.preloaded
        /\ r.preemptiveStart = s.preemptiveStart /\ r.preemptiveBytes = s.preemptiveBytes
        /\ r.status = f /\ r.users = s.users /\ r.asynchronous = s.asynchronous /\ r.most = s.most
    BY <1>1, <1>5 DEF SchedType
  <1>9. Ring(s) \subseteq Chunks
    BY DEF Ring
  <1>10. \A d \in Ring(s) : r.status[d] # "NONE"
    BY <1>2, <1>8, <1>9 DEF Whole
  <1>11. Whole(r) /\ Ring(r) = Ring(s)
    BY <1>7, <1>8, <1>10, WholeSame
  <1>12. \A d \in Chunks \ Ring(s) : r.status[d] = s.status[d]
    BY <1>2, <1>8
  <1> QED BY <1>6, <1>8, <1>11, <1>12 DEF Works

\* counterActive leaves a swapped chunk.
LEMMA BorderedIs ==
    ASSUME NEW s, Whole(s), Ring(s) # {}
    PROVE  Works(s, Bordered(s)) /\ Bordered(s).status = s.status
  <1>1. Plain(s) /\ s \in SchedType /\ s.active \in Ring(s) /\ s.active \in Elements /\ s.counterActive \in Ring(s)
        /\ OneRing(s.next, s.prev, Ring(s))
    BY DEF Whole, Round, Plain, SchedType
  <1>2. CASE s.status[s.counterActive] # "SWAPPED"
    BY <1>2, WorksNone DEF Bordered
  <1>3. CASE s.status[s.counterActive] = "SWAPPED"
    <2>1. PICK r : r = [s EXCEPT !.counterActive = s.active]
      OBVIOUS
    <2>2. Bordered(s) = r
      BY <1>3, <2>1 DEF Bordered
    <2>3. r \in SchedType
      BY <1>1, <2>1 DEF SchedType
    <2>4. SameMembers(s, r) /\ r.next = s.next /\ r.prev = s.prev /\ r.active = s.active /\ r.counterActive = s.active
      BY <1>1, <2>1 DEF SchedType, SameMembers
    <2>5. Ring(r) = Ring(s)
      BY <2>4 DEF Ring
    <2>6. Recast(s, r, Ring(s))
      <3>1. \A x \in Ring(s) : s.status[x] # "NONE"
        BY DEF Whole
      <3> QED BY <1>1, <2>3, <2>4, <2>5, <3>1, RecastIs
    <2> QED BY <2>2, <2>6 DEF Recast, Works
  <1> QED BY <1>2, <1>3

\* One chunk is swapped in, touched and put before the border.
LEMMA SwapInSingleIs ==
    ASSUME NEW s, Whole(s), NEW c \in Ring(s)
    PROVE  Works(s, SwapInSingle(s, c))
  <1>1. PICK u : u = Load(s, {c})
    OBVIOUS
  <1>2. Works(s, u)
    BY <1>1, LoadIs
  <1>3. Whole(u) /\ c \in Ring(u)
    BY <1>2 DEF Works
  <1>4. PICK v : v = Touch(u, c)
    OBVIOUS
  <1>5. Works(u, v)
    BY <1>3, <1>4, TouchIs
  <1>6. Whole(v) /\ Ring(v) # {}
    BY <1>3, <1>5 DEF Works
  <1>7. Works(v, Bordered(v))
    BY <1>6, BorderedIs
  <1>8. Works(s, v)
    BY <1>2, <1>5, WorksTwice
  <1>9. Works(s, Bordered(v))
    BY <1>7, <1>8, WorksTwice
  <1> QED BY <1>1, <1>4, <1>9 DEF SwapInSingle

CallType == [at : Places, chunk : Elements, write : BOOLEAN, need : Nat, oldBorder : Elements]

\* A call in swapIn goes on to wait, or to the exception.
Waits(o, p) == /\ p \in CallType /\ p.chunk = o.chunk /\ p.write = o.write
               /\ p.at \in {"waitIn", "room", "unuse"}

\* Where a call waits.
LEMMA AtIs ==
    ASSUME NEW place \in {"waitIn", "room", "unuse"}, NEW s, NEW o \in CallType
    PROVE  At(place, s, o).s = s /\ Waits(o, At(place, s, o).o)
  <1>1. place \in Places
    BY DEF Places
  <1> QED BY <1>1 DEF At, CallType, Waits

\* swapIn from ensureEnoughSpace on.
LEMMA SwapInWithIs ==
    ASSUME NEW s, Whole(s), NEW o \in CallType, o.chunk \in Ring(s)
    PROVE  Works(s, SwapInWith(s, o).s) /\ Waits(o, SwapInWith(s, o).o)
  <1>1. PICK r : r = EnsureEnoughSpace(s, o.need, o.chunk)
    OBVIOUS
  <1>2. Works(s, r.s) /\ r.out \in {"there", "fits", "wait", "throw"}
    BY <1>1, SpaceIs
  <1>3. SwapInWith(s, o) = SwapInRoom(r, o)
    BY <1>1 DEF SwapInWith
  <1>4. CASE r.out = "there"
    <2>1. SwapInRoom(r, o) = At("waitIn", r.s, o)
      BY <1>4 DEF SwapInRoom
    <2> QED BY <1>2, <1>3, <2>1, AtIs
  <1>5. CASE r.out = "wait"
    <2>1. SwapInRoom(r, o) = At("room", r.s, o)
      BY <1>5 DEF SwapInRoom
    <2> QED BY <1>2, <1>3, <2>1, AtIs
  <1>6. CASE r.out = "throw"
    <2>1. SwapInRoom(r, o) = At("unuse", r.s, o)
      BY <1>6 DEF SwapInRoom
    <2> QED BY <1>2, <1>3, <2>1, AtIs
  <1>7. CASE r.out = "fits"
    <2>1. SwapInRoom(r, o) = SwapInFits(r.s, o)
      BY <1>7 DEF SwapInRoom
    <2>2. ~r.s.preemptiveSwapIn
      BY <1>2 DEF Works, Whole, Round, Plain
    <2>3. SwapInFits(r.s, o) = At("waitIn", SwapInSingle(r.s, o.chunk), o)
      BY <2>2 DEF SwapInFits
    <2>4. PICK v : v = SwapInSingle(r.s, o.chunk)
      OBVIOUS
    <2>5. Works(r.s, v)
      <3>1. Whole(r.s) /\ o.chunk \in Ring(r.s)
        BY <1>2 DEF Works
      <3> QED BY <2>4, <3>1, SwapInSingleIs
    <2>6. Works(s, v)
      BY <1>2, <2>5, WorksTwice
    <2>7. SwapInWith(s, o) = At("waitIn", v, o)
      BY <1>3, <2>1, <2>3, <2>4
    <2>8. At("waitIn", v, o).s = v /\ Waits(o, At("waitIn", v, o).o)
      BY AtIs
    <2> QED BY <2>6, <2>7, <2>8
  <1> QED BY <1>2, <1>4, <1>5, <1>6, <1>7

\* swapIn.
LEMMA SwapInIs ==
    ASSUME NEW s, Whole(s), NEW o \in CallType, o.chunk \in Ring(s)
    PROVE  Works(s, SwapIn(s, o).s) /\ Waits(o, SwapIn(s, o).o)
  <1>1. s \in SchedType /\ s.preemptiveStart = NULL /\ ~s.preemptiveSwapIn
    BY DEF Whole, Round, Plain
  <1>2. PICK u : u = BeforeSwapIn(s)
    OBVIOUS
  <1>3. u = [s EXCEPT !.consecutive = 0]
    <2>1. \A n : Decay(s, n) = s
      BY <1>1 DEF Decay
    <2> QED BY <1>2, <2>1 DEF BeforeSwapIn
  <1>4. u \in SchedType
    <2>1. 0 \in 0..2
      OBVIOUS
    <2> QED BY <1>1, <1>3, <2>1 DEF SchedType
  <1>5. /\ u.next = s.next /\ u.prev = s.prev /\ u.active = s.active /\ u.counterActive = s.counterActive
        /\ u.preemptiveSwapIn = s.preemptiveSwapIn /\ u.preloaded = s.preloaded
        /\ u.preemptiveStart = s.preemptiveStart /\ u.preemptiveBytes = s.preemptiveBytes
        /\ u.status = s.status /\ u.users = s.users /\ u.asynchronous = s.asynchronous /\ u.most = s.most
    BY <1>1, <1>3 DEF SchedType
  <1>6. Whole(u) /\ Ring(u) = Ring(s)
    <2>1. \A c \in Ring(s) : u.status[c] # "NONE"
      BY <1>5 DEF Whole
    <2> QED BY <1>4, <1>5, <2>1, WholeSame
  <1>7. Works(s, u)
    BY <1>5, <1>6 DEF Works
  <1>8. PICK p : p = [[o EXCEPT !.need = Size[o.chunk]] EXCEPT !.oldBorder = u.counterActive]
    OBVIOUS
  <1>9. SwapIn(s, o) = SwapInWith(u, p)
    <2>1. Wanted(u, Size[o.chunk]) = [s |-> u, need |-> Size[o.chunk]]
      BY <1>1, <1>5 DEF Wanted
    <2>2. SwapIn(s, o) = SwapInWanted([s |-> u, need |-> Size[o.chunk]], u.counterActive, o)
      BY <1>2, <2>1 DEF SwapIn, SwapInFrom
    <2>3. p = [o EXCEPT !.need = Size[o.chunk], !.oldBorder = u.counterActive]
      BY <1>8 DEF CallType
    <2> QED BY <2>2, <2>3 DEF SwapInWanted
  <1>10. p \in CallType /\ p.chunk = o.chunk /\ p.write = o.write
    <2>1. o.chunk \in Chunks
      BY DEF Ring
    <2>2. Size[o.chunk] \in Nat
      BY <2>1, ConstantsAssumption
    <2>3. u.counterActive \in Elements
      BY <1>4 DEF SchedType
    <2> QED BY <1>8, <2>2, <2>3 DEF CallType
  <1>11. Works(u, SwapInWith(u, p).s) /\ Waits(p, SwapInWith(u, p).o)
    BY <1>6, <1>10, SwapInWithIs
  <1>12. Works(s, SwapInWith(u, p).s)
    BY <1>7, <1>11, WorksTwice
  <1>13. Waits(o, SwapInWith(u, p).o)
    BY <1>10, <1>11 DEF Waits
  <1> QED BY <1>9, <1>12, <1>13

-----------------------------------------------------------------------------
(* The calls *)

\* While the ring is empty, whatever is not gone yet is on its way out, and any chunk fits when
\* that has arrived: swapOut is not called.
LEMMA EmptyRing ==
    ASSUME NEW s, Whole(s), Ring(s) = {},
           \A c \in Chunks : s.status[c] # "NONE" => s.status[c] \in Away,
           NEW n \in Nat, n <= MemMax
    PROVE  ~(n + Used(s) - MemMax - ToBeFreed(s) > 0)
  <1>1. In(s, {"ALLOCATED", "INUSE", "SWAPIN", "SWAPOUT"}) = In(s, {"SWAPOUT"})
    BY DEF In, Away
  <1>2. Used(s) = ToBeFreed(s)
    BY <1>1 DEF Used, ToBeFreed
  <1>3. ToBeFreed(s) \in Int
    <2>1. In(s, {"SWAPOUT"}) \in SUBSET Chunks
      BY DEF In
    <2> QED BY <2>1, BytesType DEF ToBeFreed
  <1> QED BY <1>2, <1>3, ConstantsAssumption

\* What is said of a call when a thread is in it.
Placed(s, t, o) ==
    /\ o.at # "stuck"
    /\ o.at = "malloc" => o.chunk \in Chunks /\ s.status[o.chunk] = "NONE"
    /\ o.at = "free" => o.chunk \in Chunks \ Ring(s) /\ s.status[o.chunk] \in Away
    /\ o.at \in {"waitIn", "waitOut", "room", "unuse"} => o.chunk \in Chunks /\ t \in s.users[o.chunk]

\* No two calls allocate or delete the same chunk.
Apart(cl) ==
    \A t, u \in Threads :
        (t # u /\ cl[t].at \in {"malloc", "free"} /\ cl[u].at \in {"malloc", "free"}) => cl[t].chunk # cl[u].chunk

\* The invariant: the ring is whole, a chunk that is used is in it, and one that is outside is
\* not allocated or on its way out with its deletion waiting for it.
Sound(s, cl) ==
    /\ Whole(s)
    /\ [asynchronous |-> s.asynchronous, preemptiveSwapIn |-> s.preemptiveSwapIn, most |-> s.most] \in Modes
    /\ cl \in [Threads -> CallType]
    /\ \A c \in Chunks : s.users[c] # {} => c \in Ring(s)
    /\ \A c \in Chunks \ Ring(s) : s.status[c] # "NONE" =>
          s.status[c] \in Away /\ \E t \in Threads : cl[t].at = "free" /\ cl[t].chunk = c
    /\ \A t \in Threads : Placed(s, t, cl[t])
    /\ Apart(cl)

\* Thread t goes on in its call, or leaves it, and the manager has done work for it.
LEMMA SoundWorks ==
    ASSUME NEW s, NEW cl, Sound(s, cl), NEW t \in Threads, cl[t].at # "free",
           NEW r, Works(s, r), NEW o \in CallType, Placed(r, t, o), o.at # "free",
           o.at = "malloc" => \A u \in Threads : u # t /\ cl[u].at \in {"malloc", "free"} => cl[u].chunk # o.chunk
    PROVE  Sound(r, [cl EXCEPT ![t] = o])
  <1>1. PICK d : d = [cl EXCEPT ![t] = o]
    OBVIOUS
  <1>2. cl \in [Threads -> CallType] /\ Whole(s) /\ Ring(s) \subseteq Chunks
    BY DEF Sound, Ring
  <1>3. d \in [Threads -> CallType] /\ d[t] = o /\ \A u \in Threads : u # t => d[u] = cl[u]
    BY <1>1, <1>2
  <1>4. /\ Whole(r) /\ Ring(r) = Ring(s) /\ r.users = s.users
        /\ r.asynchronous = s.asynchronous /\ r.most = s.most
        /\ r.preemptiveSwapIn = s.preemptiveSwapIn
        /\ \A c \in Chunks \ Ring(s) : r.status[c] = s.status[c]
    <2>1. r.preemptiveSwapIn \in BOOLEAN /\ ~r.preemptiveSwapIn /\ s.preemptiveSwapIn \in BOOLEAN /\ ~s.preemptiveSwapIn
      BY <1>2 DEF Works, Whole, Round, Plain, SchedType
    <2> QED BY <2>1 DEF Works
  <1>5. [asynchronous |-> r.asynchronous, preemptiveSwapIn |-> r.preemptiveSwapIn, most |-> r.most] \in Modes
    BY <1>4 DEF Sound
  <1>6. \A c \in Chunks : r.users[c] # {} => c \in Ring(r)
    BY <1>4 DEF Sound
  <1>7. ASSUME NEW c \in Chunks \ Ring(r), r.status[c] # "NONE"
        PROVE  r.status[c] \in Away /\ \E u \in Threads : d[u].at = "free" /\ d[u].chunk = c
    <2>1. s.status[c] \in Away /\ \E u \in Threads : cl[u].at = "free" /\ cl[u].chunk = c
      BY <1>4, <1>7 DEF Sound
    <2>2. r.status[c] \in Away
      BY <1>4, <1>7, <2>1
    <2>3. PICK u \in Threads : cl[u].at = "free" /\ cl[u].chunk = c
      BY <2>1
    <2> QED BY <1>3, <2>2, <2>3
  <1>8. ASSUME NEW u \in Threads
        PROVE  Placed(r, u, d[u])
    <2>1. CASE u = t
      BY <1>3, <2>1
    <2>2. CASE u # t
      <3>1. Placed(s, u, cl[u]) /\ d[u] = cl[u]
        BY <1>3, <2>2 DEF Sound
      <3>2. cl[u].at = "malloc" => cl[u].chunk \in Chunks \ Ring(s)
        BY <1>2, <3>1 DEF Placed, Whole
      <3> QED BY <1>4, <3>1, <3>2 DEF Placed
    <2> QED BY <2>1, <2>2
  <1>9. Apart(d)
    <2>1. Apart(cl)
      BY DEF Sound
    <2> QED BY <1>3, <2>1 DEF Apart
  <1> QED BY <1>1, <1>3, <1>4, <1>5, <1>6, <1>7, <1>8, <1>9 DEF Sound

\* Status, uses and copies change, the links stay: no chunk outside the ring is used, or changes
\* but from swapped out to swapped.
LEMMA SoundMarked ==
    ASSUME NEW s, NEW cl, Sound(s, cl), NEW r \in SchedType, r.next = s.next, r.prev = s.prev,
           r.active = s.active, r.counterActive = s.counterActive,
           r.preemptiveSwapIn = s.preemptiveSwapIn, r.preloaded = s.preloaded,
           r.preemptiveStart = s.preemptiveStart, r.preemptiveBytes = s.preemptiveBytes,
           r.asynchronous = s.asynchronous, r.most = s.most,
           \A c \in Ring(s) : r.status[c] # "NONE",
           \A c \in Chunks \ Ring(s) : r.status[c] = s.status[c] \/ (r.status[c] \in Away /\ s.status[c] \in Away),
           \A c \in Chunks \ Ring(s) : r.users[c] = {},
           \A t \in Threads : cl[t].at \in {"waitIn", "waitOut", "room", "unuse"} => t \in r.users[cl[t].chunk]
    PROVE  Sound(r, cl) /\ Ring(r) = Ring(s)
  <1>1. Whole(r) /\ Ring(r) = Ring(s)
    <2>1. Whole(s)
      BY DEF Sound
    <2> QED BY <2>1, WholeSame
  <1>2. \A c \in Chunks : r.users[c] # {} => c \in Ring(r)
    BY <1>1
  <1>3. \A c \in Away : c # "NONE"
    BY DEF Away
  <1>4. ASSUME NEW c \in Chunks \ Ring(r), r.status[c] # "NONE"
        PROVE  r.status[c] \in Away /\ \E t \in Threads : cl[t].at = "free" /\ cl[t].chunk = c
    <2>1. c \in Chunks \ Ring(s) /\ s.status[c] # "NONE"
      BY <1>1, <1>3, <1>4
    <2>2. s.status[c] \in Away /\ \E t \in Threads : cl[t].at = "free" /\ cl[t].chunk = c
      BY <2>1 DEF Sound
    <2> QED BY <2>1, <2>2
  <1>5. ASSUME NEW t \in Threads
        PROVE  Placed(r, t, cl[t])
    <2>1. Placed(s, t, cl[t])
      BY DEF Sound
    <2>2. cl[t].at = "malloc" => cl[t].chunk \in Chunks \ Ring(s)
      BY <2>1 DEF Placed, Sound, Whole
    <2>3. cl[t].at = "malloc" => r.status[cl[t].chunk] = "NONE"
      BY <1>3, <2>1, <2>2 DEF Placed
    <2>4. cl[t].at = "free" => r.status[cl[t].chunk] \in Away
      BY <2>1 DEF Placed
    <2> QED BY <1>1, <2>1, <2>3, <2>4 DEF Placed
  <1> QED BY <1>1, <1>2, <1>4, <1>5 DEF Sound

\* A chunk is put into the ring, and the call that has allocated it returns.
LEMMA SoundAdded ==
    ASSUME NEW s, NEW cl, Sound(s, cl), NEW t \in Threads, cl[t].at # "free",
           NEW c \in Chunks, c \notin Ring(s),
           \A u \in Threads : u # t /\ cl[u].at \in {"malloc", "free"} => cl[u].chunk # c,
           NEW r, Whole(r), Ring(r) = Ring(s) \cup {c}, r.users = s.users,
           r.asynchronous = s.asynchronous, r.most = s.most,
           \A d \in Chunks \ Ring(r) : r.status[d] = s.status[d]
    PROVE  Sound(r, [cl EXCEPT ![t] = Idle])
  <1>1. PICK e : e = [cl EXCEPT ![t] = Idle]
    OBVIOUS
  <1>2. cl \in [Threads -> CallType] /\ Whole(s) /\ Ring(s) \subseteq Chunks
    BY DEF Sound, Ring
  <1>3. Idle \in CallType
    BY DEF Idle, CallType, Places, Elements
  <1>4. e \in [Threads -> CallType] /\ e[t] = Idle /\ \A u \in Threads : u # t => e[u] = cl[u]
    BY <1>1, <1>2, <1>3
  <1>5. r.preemptiveSwapIn = s.preemptiveSwapIn
    BY <1>2 DEF Whole, Round, Plain, SchedType
  <1>6. [asynchronous |-> r.asynchronous, preemptiveSwapIn |-> r.preemptiveSwapIn, most |-> r.most] \in Modes
    BY <1>5 DEF Sound
  <1>7. \A d \in Chunks : r.users[d] # {} => d \in Ring(r)
    BY DEF Sound
  <1>8. ASSUME NEW d \in Chunks \ Ring(r), r.status[d] # "NONE"
        PROVE  r.status[d] \in Away /\ \E u \in Threads : e[u].at = "free" /\ e[u].chunk = d
    <2>1. s.status[d] \in Away /\ \E u \in Threads : cl[u].at = "free" /\ cl[u].chunk = d
      BY <1>8 DEF Sound
    <2>2. PICK u \in Threads : cl[u].at = "free" /\ cl[u].chunk = d
      BY <2>1
    <2> QED BY <1>4, <1>8, <2>1, <2>2
  <1>9. ASSUME NEW u \in Threads
        PROVE  Placed(r, u, e[u])
    <2>1. CASE u = t
      BY <1>4, <2>1 DEF Placed, Idle
    <2>2. CASE u # t
      <3>1. Placed(s, u, cl[u]) /\ e[u] = cl[u]
        BY <1>4, <2>2 DEF Sound
      <3>2. cl[u].at \in {"malloc", "free"} => cl[u].chunk \in Chunks \ Ring(r)
        BY <1>2, <2>2, <3>1 DEF Placed, Whole
      <3> QED BY <3>1, <3>2 DEF Placed
    <2> QED BY <2>1, <2>2
  <1>10. Apart(e)
    <2>1. Apart(cl)
      BY DEF Sound
    <2>2. e[t].at = "idle"
      BY <1>4 DEF Idle
    <2> QED BY <1>4, <2>1, <2>2 DEF Apart
  <1> QED BY <1>1, <1>4, <1>6, <1>7, <1>8, <1>9, <1>10 DEF Sound

\* A chunk is taken out of the ring, or a chunk outside it is given up for good.  Its deletion o
\* waits for the transfer or has returned.
LEMMA SoundRemoved ==
    ASSUME NEW s, NEW cl, Sound(s, cl), NEW t \in Threads, NEW c \in Chunks, s.users[c] = {},
           \A u \in Threads : u # t /\ cl[u].at \in {"malloc", "free"} => cl[u].chunk # c,
           cl[t].at = "free" => cl[t].chunk = c,
           NEW r, Whole(r), Ring(r) = Ring(s) \ {c}, r.users = s.users,
           r.asynchronous = s.asynchronous, r.most = s.most,
           \A d \in Chunks \ {c} : r.status[d] = s.status[d],
           NEW o \in CallType, o.at = "idle" \/ (o.at = "free" /\ o.chunk = c),
           o.at = "idle" => r.status[c] = "NONE", o.at = "free" => r.status[c] \in Away
    PROVE  Sound(r, [cl EXCEPT ![t] = o])
  <1>1. PICK e : e = [cl EXCEPT ![t] = o]
    OBVIOUS
  <1>2. cl \in [Threads -> CallType] /\ Whole(s) /\ Ring(s) \subseteq Chunks
    BY DEF Sound, Ring
  <1>3. e \in [Threads -> CallType] /\ e[t] = o /\ \A u \in Threads : u # t => e[u] = cl[u]
    BY <1>1, <1>2
  <1>4. r.preemptiveSwapIn = s.preemptiveSwapIn
    BY <1>2 DEF Whole, Round, Plain, SchedType
  <1>5. [asynchronous |-> r.asynchronous, preemptiveSwapIn |-> r.preemptiveSwapIn, most |-> r.most] \in Modes
    BY <1>4 DEF Sound
  <1>6. \A d \in Chunks : r.users[d] # {} => d \in Ring(r)
    BY DEF Sound
  <1>7. ASSUME NEW d \in Chunks \ Ring(r), r.status[d] # "NONE"
        PROVE  r.status[d] \in Away /\ \E u \in Threads : e[u].at = "free" /\ e[u].chunk = d
    <2>1. CASE d = c
      BY <1>3, <1>7, <2>1
    <2>2. CASE d # c
      <3>1. d \in Chunks \ Ring(s) /\ r.status[d] = s.status[d]
        BY <1>7, <2>2
      <3>2. s.status[d] \in Away /\ \E u \in Threads : cl[u].at = "free" /\ cl[u].chunk = d
        BY <1>7, <3>1 DEF Sound
      <3>3. PICK u \in Threads : cl[u].at = "free" /\ cl[u].chunk = d
        BY <3>2
      <3>4. u # t
        BY <2>2, <3>3
      <3> QED BY <1>3, <3>1, <3>2, <3>3, <3>4
    <2> QED BY <2>1, <2>2
  <1>8. ASSUME NEW u \in Threads
        PROVE  Placed(r, u, e[u])
    <2>1. CASE u = t
      BY <1>3, <2>1 DEF Placed
    <2>2. CASE u # t
      <3>1. Placed(s, u, cl[u]) /\ e[u] = cl[u]
        BY <1>3, <2>2 DEF Sound
      <3>2. cl[u].at \in {"malloc", "free"} => cl[u].chunk \in Chunks \ {c}
        BY <2>2, <3>1 DEF Placed
      <3> QED BY <3>1, <3>2 DEF Placed
    <2> QED BY <2>1, <2>2
  <1>9. Apart(e)
    <2>1. Apart(cl)
      BY DEF Sound
    <2> QED BY <1>3, <2>1 DEF Apart
  <1> QED BY <1>1, <1>3, <1>5, <1>6, <1>7, <1>8, <1>9 DEF Sound

\* At first the ring is empty and no call is made.
LEMMA SoundInit ==
    ASSUME Init, ~sched.preemptiveSwapIn
    PROVE  Sound(sched, call)
  <1>1. PICK m \in Modes : sched =
          [next |-> [c \in Chunks |-> NULL], prev |-> [c \in Chunks |-> NULL],
           active |-> NULL, counterActive |-> NULL, preemptiveStart |-> NULL,
           preemptiveBytes |-> 0, consecutive |-> 0, sinceLast |-> 0,
           status |-> [c \in Chunks |-> "NONE"], users |-> [c \in Chunks |-> {}],
           preloaded |-> {}, copies |-> {}, unloadedAll |-> FALSE,
           asynchronous |-> m.asynchronous, preemptiveSwapIn |-> m.preemptiveSwapIn,
           most |-> m.most]
    BY DEF Init
  <1>2. m \in [asynchronous : BOOLEAN, preemptiveSwapIn : BOOLEAN, most : Nat]
    BY ConstantsAssumption
  <1>3. call = [t \in Threads |-> Idle] /\ Idle \in CallType
    BY DEF Init, Idle, CallType, Places, Elements
  <1>4. NULL \in Elements /\ "NONE" \in Statuses /\ 0 \in 0..2 /\ FALSE \in BOOLEAN
    BY DEF Elements, Statuses
  <1>5. sched \in SchedType
    <2>1. /\ [c \in Chunks |-> NULL] \in [Chunks -> Elements]
          /\ [c \in Chunks |-> "NONE"] \in [Chunks -> Statuses]
          /\ [c \in Chunks |-> {}] \in [Chunks -> SUBSET Threads]
      BY <1>4
    <2> QED BY <1>1, <1>2, <1>4, <2>1 DEF SchedType
  <1>6. Ring(sched) = {}
    BY <1>1 DEF Ring
  <1>7. OneRing(sched.next, sched.prev, {})
    BY DEF OneRing
  <1>8. Whole(sched)
    BY <1>1, <1>5, <1>6, <1>7 DEF Whole, Round, Plain
  <1>9. [asynchronous |-> sched.asynchronous, preemptiveSwapIn |-> sched.preemptiveSwapIn,
         most |-> sched.most] \in Modes
    <2>1. m = [asynchronous |-> m.asynchronous, preemptiveSwapIn |-> m.preemptiveSwapIn, most |-> m.most]
      BY <1>2
    <2> QED BY <1>1, <2>1
  <1>10. \A c \in Chunks : sched.users[c] = {} /\ sched.status[c] = "NONE"
    BY <1>1
  <1>11. call \in [Threads -> CallType] /\ \A t \in Threads : call[t].at = "idle"
    BY <1>3 DEF Idle
  <1>12. \A t \in Threads : Placed(sched, t, call[t])
    BY <1>11 DEF Placed
  <1>13. Apart(call)
    BY <1>11 DEF Apart
  <1> QED BY <1>8, <1>9, <1>10, <1>11, <1>12, <1>13 DEF Sound

\* A call that begins, or returns.
LEMMA BeginsIs ==
    /\ Idle \in CallType /\ Idle.at = "idle"
    /\ \A at \in Places, c \in Chunks : Begins(at, c) \in CallType /\ Begins(at, c).at = at /\ Begins(at, c).chunk = c
  <1>1. Idle \in CallType /\ Idle.at = "idle"
    BY DEF Idle, CallType, Places, Elements
  <1>2. \A at \in Places, c \in Chunks : Begins(at, c) \in CallType /\ Begins(at, c).at = at /\ Begins(at, c).chunk = c
    BY DEF Begins, Idle, CallType, Elements
  <1> QED BY <1>1, <1>2

\* mmalloc of chunk c by a call that is in it, or has just begun.
LEMMA AllocateStep ==
    ASSUME Sound(sched, call), NEW t \in Threads, NEW c \in Chunks,
           call[t].at # "free", sched.status[c] = "NONE",
           \A u \in Threads : u # t /\ call[u].at \in {"malloc", "free"} => call[u].chunk # c,
           Allocate(t, c)
    PROVE  Sound(sched', call')
  <1>1. Whole(sched) /\ Size[c] \in Nat /\ Size[c] <= MemMax /\ MemMax \in Nat
    BY ConstantsAssumption DEF Sound
  <1>2. PICK r : r = EnsureEnoughSpace(sched, Size[c], NULL)
    OBVIOUS
  <1>3. Works(sched, r.s) /\ r.out \in {"fits", "wait", "throw"}
    <2>1. Ring(sched) # {} \/ ~(Size[c] + Used(sched) - MemMax - ToBeFreed(sched) > 0)
      <3>1. CASE Ring(sched) = {}
        <4>1. \A d \in Chunks : sched.status[d] # "NONE" => sched.status[d] \in Away
          BY <3>1 DEF Sound
        <4> QED BY <1>1, <3>1, <4>1, EmptyRing
      <3> QED BY <3>1
    <2> QED BY <1>1, <1>2, <2>1, SpaceIs
  <1>4. AllocateRoom(t, c, r)
    BY <1>2 DEF Allocate
  <1>5. c \notin Ring(sched)
    BY <1>1 DEF Whole
  <1>6. r.s.status[c] = "NONE" /\ Ring(r.s) = Ring(sched) /\ Whole(r.s) /\ r.s.users = sched.users
        /\ r.s.asynchronous = sched.asynchronous /\ r.s.most = sched.most
    BY <1>3, <1>5 DEF Works
  <1>7. CASE r.out = "wait"
    <2>1. sched' = r.s /\ call' = [call EXCEPT ![t] = Begins("malloc", c)]
      BY <1>4, <1>7 DEF AllocateRoom, Becomes
    <2>2. "malloc" \in Places
      BY DEF Places
    <2>3. Begins("malloc", c) \in CallType /\ Begins("malloc", c).at = "malloc" /\ Begins("malloc", c).chunk = c
      BY <2>2, BeginsIs
    <2>4. Placed(r.s, t, Begins("malloc", c))
      BY <1>6, <2>3 DEF Placed
    <2> QED BY <1>3, <2>1, <2>3, <2>4, SoundWorks
  <1>8. CASE r.out = "throw"
    <2>1. sched' = r.s /\ call' = [call EXCEPT ![t] = Idle]
      BY <1>4, <1>8 DEF AllocateRoom, Returns, Becomes
    <2>2. Placed(r.s, t, Idle)
      BY BeginsIs DEF Placed
    <2> QED BY <1>3, <2>1, <2>2, SoundWorks, BeginsIs
  <1>9. CASE r.out = "fits"
    <2>1. PICK u : u = [r.s EXCEPT !.status[c] = "ALLOCATED"]
      OBVIOUS
    <2>2. sched' = Touch(SchedulerRegister(u, c), c) /\ call' = [call EXCEPT ![t] = Idle]
      BY <1>4, <1>9, <2>1 DEF AllocateRoom, Returns, Becomes
    <2>3. r.s \in SchedType
      BY <1>6 DEF Whole, Round, Plain
    <2>4. u \in SchedType
      BY <2>1, <2>3 DEF SchedType, Statuses
    <2>5. /\ u.next = r.s.next /\ u.prev = r.s.prev /\ u.active = r.s.active /\ u.counterActive = r.s.counterActive
          /\ u.preemptiveSwapIn = r.s.preemptiveSwapIn /\ u.preloaded = r.s.preloaded
          /\ u.preemptiveStart = r.s.preemptiveStart /\ u.preemptiveBytes = r.s.preemptiveBytes
          /\ u.users = r.s.users /\ u.asynchronous = r.s.asynchronous /\ u.most = r.s.most
          /\ u.status[c] = "ALLOCATED" /\ \A d \in Chunks : d # c => u.status[d] = r.s.status[d]
      BY <2>1, <2>3 DEF SchedType
    <2>6. Whole(u) /\ Ring(u) = Ring(sched)
      <3>1. \A d \in Ring(r.s) : u.status[d] # "NONE"
        <4>1. \A d \in Ring(r.s) : d # c /\ d \in Chunks /\ r.s.status[d] # "NONE"
          BY <1>5, <1>6 DEF Whole, Ring
        <4> QED BY <2>5, <4>1
      <3> QED BY <1>6, <2>4, <2>5, <3>1, WholeSame
    <2>7. PICK v : v = SchedulerRegister(u, c)
      OBVIOUS
    <2>8. Recast(u, v, Ring(u) \cup {c})
      <3>1. c \notin Ring(u) /\ u.status[c] # "NONE"
        BY <1>5, <2>5, <2>6
      <3> QED BY <2>6, <2>7, <3>1, RegisterIs
    <2>9. /\ Whole(v) /\ Ring(v) = Ring(sched) \cup {c} /\ v.status = u.status /\ v.users = u.users
          /\ v.asynchronous = u.asynchronous /\ v.most = u.most
      BY <2>6, <2>8 DEF Recast
    <2>10. PICK w : w = Touch(v, c)
      OBVIOUS
    <2>11. Works(v, w)
      BY <2>9, <2>10, TouchIs
    <2>12. /\ Whole(w) /\ Ring(w) = Ring(sched) \cup {c} /\ w.users = sched.users
           /\ w.asynchronous = sched.asynchronous /\ w.most = sched.most
      BY <1>6, <2>5, <2>9, <2>11 DEF Works
    <2>13. \A d \in Chunks \ Ring(w) : w.status[d] = sched.status[d]
      <3> TAKE d \in Chunks \ Ring(w)
      <3>1. d \notin Ring(v) /\ d \notin Ring(sched) /\ d # c
        BY <2>9, <2>12
      <3>2. w.status[d] = v.status[d]
        BY <2>11, <3>1 DEF Works
      <3>3. r.s.status[d] = sched.status[d]
        BY <1>3, <3>1 DEF Works
      <3> QED BY <2>5, <2>9, <3>1, <3>2, <3>3
    <2>14. Sound(w, [call EXCEPT ![t] = Idle])
      BY <1>5, <2>12, <2>13, SoundAdded
    <2> QED BY <2>2, <2>7, <2>10, <2>14
  <1> QED BY <1>3, <1>7, <1>8, <1>9

\* A chunk gets into use: it is marked and touched, and the call returns.
LEMMA GrantStep ==
    ASSUME NEW s, Sound(s, call), NEW t \in Threads, NEW o, o.chunk \in Ring(s), call[t].at # "free",
           Grant(t, s, o)
    PROVE  Sound(sched', call')
  <1>1. PICK c : c = o.chunk
    OBVIOUS
  <1>2. c \in Chunks /\ c \in Ring(s)
    BY <1>1 DEF Ring
  <1>3. PICK p : p = IF o.write THEN s.copies \ {c} ELSE s.copies
    OBVIOUS
  <1>4. s \in SchedType /\ Whole(s)
    BY DEF Sound, Whole, Round, Plain
  <1>5. p \in SUBSET Chunks
    BY <1>3, <1>4 DEF SchedType
  <1>6. PICK u : u = [s EXCEPT !.status[c] = "INUSE", !.copies = p]
    OBVIOUS
  <1>7. sched' = Touch(u, c) /\ call' = [call EXCEPT ![t] = Idle]
    <2>1. u = [s EXCEPT !.status[o.chunk] = "INUSE", !.copies = IF o.write THEN @ \ {o.chunk} ELSE @]
      BY <1>1, <1>3, <1>4, <1>6 DEF SchedType
    <2> QED BY <1>1, <2>1 DEF Grant, Returns, Becomes
  <1>8. u \in SchedType
    BY <1>4, <1>5, <1>6 DEF SchedType, Statuses
  <1>9. /\ u.next = s.next /\ u.prev = s.prev /\ u.active = s.active /\ u.counterActive = s.counterActive
        /\ u.preemptiveSwapIn = s.preemptiveSwapIn /\ u.preloaded = s.preloaded
        /\ u.preemptiveStart = s.preemptiveStart /\ u.preemptiveBytes = s.preemptiveBytes
        /\ u.users = s.users /\ u.asynchronous = s.asynchronous /\ u.most = s.most
        /\ u.status[c] = "INUSE" /\ \A d \in Chunks : d # c => u.status[d] = s.status[d]
    BY <1>2, <1>4, <1>6 DEF SchedType
  <1>10. Sound(u, call) /\ Ring(u) = Ring(s)
    <2>1. \A d \in Ring(s) : u.status[d] # "NONE"
      BY <1>4, <1>9 DEF Whole, Ring
    <2>2. \A d \in Chunks \ Ring(s) : u.status[d] = s.status[d] /\ u.users[d] = {}
      BY <1>2, <1>9 DEF Sound
    <2>3. \A x \in Threads : call[x].at \in {"waitIn", "waitOut", "room", "unuse"} => x \in u.users[call[x].chunk]
      BY <1>9 DEF Sound, Placed
    <2> QED BY <1>8, <1>9, <2>1, <2>2, <2>3, SoundMarked
  <1>11. Works(u, Touch(u, c))
    <2>1. Whole(u) /\ c \in Ring(u)
      BY <1>2, <1>10 DEF Sound
    <2> QED BY <2>1, TouchIs
  <1>12. Placed(Touch(u, c), t, Idle)
    BY BeginsIs DEF Placed
  <1>13. Sound(Touch(u, c), [call EXCEPT ![t] = Idle])
    BY <1>10, <1>11, <1>12, BeginsIs, SoundWorks
  <1> QED BY <1>7, <1>13

\* swapIn of the chunk of a call.
LEMMA SwapInStep ==
    ASSUME NEW s, Sound(s, call), NEW t \in Threads, call[t].at # "free", NEW o \in CallType,
           o.chunk \in Chunks, t \in s.users[o.chunk], NEW p, p = SwapIn(s, o) \/ p = SwapInWith(s, o),
           Becomes(t, p)
    PROVE  Sound(sched', call')
  <1>1. o.chunk \in Ring(s) /\ Whole(s)
    BY DEF Sound
  <1>2. Works(s, p.s) /\ Waits(o, p.o)
    BY <1>1, SwapInIs, SwapInWithIs
  <1>3. p.o \in CallType /\ Placed(p.s, t, p.o) /\ p.o.at # "free" /\ p.o.at # "malloc"
    <2>1. p.o \in CallType /\ p.o.chunk = o.chunk /\ p.o.at \in {"waitIn", "room", "unuse"} /\ p.s.users = s.users
      BY <1>2 DEF Works, Waits
    <2> QED BY <2>1 DEF Placed
  <1> QED BY <1>2, <1>3, SoundWorks DEF Becomes

\* The order of the ring, and the swap, are as before.
Ordered(s, r) == r.next = s.next /\ r.active = s.active /\ r.counterActive = s.counterActive /\ r.asynchronous = s.asynchronous

\* setUse notes the use before it looks at the status.
Begun(s, o, p, t, c) ==
    /\ Ordered(sched, s) /\ Sound(s, call) /\ Whole(s) /\ c \in Ring(s) /\ t \in s.users[c] /\ call[t].at # "free"
    /\ s.status = sched.status /\ \A d \in Chunks : sched.users[d] \subseteq s.users[d]
    /\ o \in CallType /\ o.chunk = c /\ o.at = "waitIn"
    /\ p \in CallType /\ p.chunk = c /\ p.at = "waitOut"
    /\ \/ s.status[c] \in {"ALLOCATED", "INUSE"} /\ Grant(t, s, o)
       \/ s.status[c] = "SWAPIN" /\ Becomes(t, [s |-> s, o |-> o])
       \/ Becomes(t, [s |-> s, o |-> p])
       \/ Becomes(t, SwapIn(s, o))

\* setUse up to there.
LEMMA SetUseIs ==
    ASSUME Sound(sched, call), NEW t \in Threads, NEW c \in Chunks, NEW write \in BOOLEAN, SetUse(t, c, write)
    PROVE  \E s, o, p : Begun(s, o, p, t, c)
  <1>1. /\ call[t].at = "idle" /\ c \in Ring(sched) /\ Whole(sched) /\ sched \in SchedType
    BY DEF SetUse, Sound, Whole, Round, Plain
  <1>2. PICK f : f = [sched.users EXCEPT ![c] = @ \cup {t}]
    OBVIOUS
  <1>3. sched.users \in [Chunks -> SUBSET Threads]
    BY <1>1 DEF SchedType
  <1>4. f \in [Chunks -> SUBSET Threads] /\ t \in f[c] /\ \A d \in Chunks : d # c => f[d] = sched.users[d]
    BY <1>2, <1>3
  <1>5. \A d \in Chunks : sched.users[d] \subseteq f[d]
    BY <1>2, <1>3
  <1>6. PICK s : s = [sched EXCEPT !.users = f]
    OBVIOUS
  <1>7. s = [sched EXCEPT !.users[c] = @ \cup {t}]
    BY <1>1, <1>2, <1>6 DEF SchedType
  <1>8. PICK o : o = [Begins("waitIn", c) EXCEPT !.write = write]
    OBVIOUS
  <1>9. o \in CallType /\ o.chunk = c /\ o.at = "waitIn"
    <2>1. "waitIn" \in Places
      BY DEF Places
    <2> QED BY <1>8, <2>1, BeginsIs DEF CallType
  <1>10. PICK p : p = [o EXCEPT !.at = "waitOut"]
    OBVIOUS
  <1>11. p \in CallType /\ p.chunk = c /\ p.at = "waitOut"
    <2>1. "waitOut" \in Places
      BY DEF Places
    <2> QED BY <1>9, <1>10, <2>1 DEF CallType
  <1>12. s \in SchedType
    BY <1>1, <1>4, <1>6 DEF SchedType
  <1>13. /\ s.next = sched.next /\ s.prev = sched.prev /\ s.active = sched.active
         /\ s.counterActive = sched.counterActive /\ s.preemptiveSwapIn = sched.preemptiveSwapIn
         /\ s.preloaded = sched.preloaded /\ s.preemptiveStart = sched.preemptiveStart
         /\ s.preemptiveBytes = sched.preemptiveBytes /\ s.asynchronous = sched.asynchronous
         /\ s.most = sched.most /\ s.status = sched.status /\ s.users = f
    BY <1>1, <1>6 DEF SchedType
  <1>14. Sound(s, call) /\ Ring(s) = Ring(sched)
    <2>1. \A d \in Ring(sched) : s.status[d] # "NONE"
      BY <1>1, <1>13 DEF Whole
    <2>2. \A d \in Chunks \ Ring(sched) : s.status[d] = sched.status[d] /\ s.users[d] = {}
      BY <1>1, <1>4, <1>13 DEF Sound
    <2>3. \A x \in Threads : call[x].at \in {"waitIn", "waitOut", "room", "unuse"} => x \in s.users[call[x].chunk]
      <3> SUFFICES ASSUME NEW x \in Threads, call[x].at \in {"waitIn", "waitOut", "room", "unuse"}
                   PROVE  x \in s.users[call[x].chunk]
        OBVIOUS
      <3>1. call[x].chunk \in Chunks /\ x \in sched.users[call[x].chunk]
        BY DEF Sound, Placed
      <3> QED BY <1>5, <1>13, <3>1
    <2> QED BY <1>12, <1>13, <2>1, <2>2, <2>3, SoundMarked
  <1>15. c \in Ring(s) /\ t \in s.users[c] /\ Whole(s)
    BY <1>1, <1>4, <1>13, <1>14 DEF Sound
  <1>16. call[t].at # "free"
    BY <1>1
  <1>17. s.status[c] \in Statuses /\ s.status[c] # "NONE"
    BY <1>12, <1>15 DEF SchedType, Whole
  <1>18. \/ s.status[c] \in {"ALLOCATED", "INUSE"} /\ Grant(t, s, o)
         \/ s.status[c] = "SWAPIN" /\ Becomes(t, [s |-> s, o |-> o])
         \/ Becomes(t, [s |-> s, o |-> p])
         \/ Becomes(t, SwapIn(s, o))
    <2>1. (CASE s.status[c] \in {"ALLOCATED", "INUSE"} -> Grant(t, s, o)
             [] s.status[c] = "SWAPIN"  -> Becomes(t, [s |-> s, o |-> o])
             [] s.status[c] = "SWAPOUT" -> Becomes(t, [s |-> s, o |-> p])
             [] s.status[c] = "SWAPPED" -> Becomes(t, SwapIn(s, o)))
      BY <1>7, <1>8, <1>10 DEF SetUse
    <2>2. s.status[c] \in {"ALLOCATED", "INUSE", "SWAPIN", "SWAPOUT", "SWAPPED"}
      BY <1>17 DEF Statuses
    <2> QED BY <2>1, <2>2
  <1>19. \A d \in Chunks : sched.users[d] \subseteq s.users[d]
    BY <1>5, <1>13
  <1>20. Ordered(sched, s)
    BY <1>13 DEF Ordered
  <1> QED BY <1>9, <1>11, <1>13, <1>14, <1>15, <1>16, <1>18, <1>19, <1>20 DEF Begun

\* setUse.
LEMMA SetUseStep ==
    ASSUME Sound(sched, call), NEW t \in Threads, NEW c \in Chunks, NEW write \in BOOLEAN, SetUse(t, c, write)
    PROVE  Sound(sched', call')
  <1>1. PICK s, o, p : Begun(s, o, p, t, c)
    BY SetUseIs
  <1>2. /\ Sound(s, call) /\ Whole(s) /\ c \in Ring(s) /\ t \in s.users[c] /\ call[t].at # "free"
        /\ o \in CallType /\ o.chunk = c /\ o.at = "waitIn"
        /\ p \in CallType /\ p.chunk = c /\ p.at = "waitOut"
    BY <1>1 DEF Begun
  <1>3. Works(s, s)
    BY <1>2, WorksNone
  <1>4. CASE Grant(t, s, o)
    BY <1>2, <1>4, GrantStep
  <1>5. CASE Becomes(t, [s |-> s, o |-> o])
    <2>1. sched' = s /\ call' = [call EXCEPT ![t] = o]
      BY <1>5 DEF Becomes
    <2>2. Placed(s, t, o) /\ o.at # "free" /\ o.at # "malloc"
      BY <1>2 DEF Placed
    <2>3. Sound(s, [call EXCEPT ![t] = o])
      BY <1>2, <1>3, <2>2, SoundWorks
    <2> QED BY <2>1, <2>3
  <1>6. CASE Becomes(t, [s |-> s, o |-> p])
    <2>1. sched' = s /\ call' = [call EXCEPT ![t] = p]
      BY <1>6 DEF Becomes
    <2>2. Placed(s, t, p) /\ p.at # "free" /\ p.at # "malloc"
      BY <1>2 DEF Placed
    <2>3. Sound(s, [call EXCEPT ![t] = p])
      BY <1>2, <1>3, <2>2, SoundWorks
    <2> QED BY <2>1, <2>3
  <1>7. CASE Becomes(t, SwapIn(s, o))
    BY <1>2, <1>7, SwapInStep
  <1> QED BY <1>1, <1>4, <1>5, <1>6, <1>7 DEF Begun

\* The chunk is given back before untouch makes room.
GivenBack(s, e, t) ==
    /\ sched' = Untouch(s) /\ call' = e /\ e = [e EXCEPT ![t] = Idle] /\ e[t] = Idle
    /\ e = [call EXCEPT ![t] = Idle]
    /\ Ordered(sched, s) /\ Sound(s, e) /\ Ring(s) = Ring(sched) /\ Ring(s) # {}
    /\ \A d \in Chunks : s.status[d] = sched.status[d] \/ (sched.status[d] = "INUSE" /\ s.status[d] = "ALLOCATED")

\* unsetUse up to there.
LEMMA UnsetUseIs ==
    ASSUME Sound(sched, call), NEW t \in Threads, NEW c \in Chunks, UnsetUse(t, c)
    PROVE  \E s, e : GivenBack(s, e, t)
  <1>1. /\ t \in sched.users[c] /\ c \in Ring(sched) /\ Whole(sched) /\ sched \in SchedType
        /\ call[t].at = "idle" \/ (call[t].at = "unuse" /\ call[t].chunk = c)
    BY DEF UnsetUse, Sound, Whole, Round, Plain
  <1>2. PICK f : f = [sched.users EXCEPT ![c] = @ \ {t}]
    OBVIOUS
  <1>3. sched.users \in [Chunks -> SUBSET Threads] /\ sched.status \in [Chunks -> Statuses]
    BY <1>1 DEF SchedType
  <1>4. f \in [Chunks -> SUBSET Threads] /\ f[c] = sched.users[c] \ {t} /\ \A d \in Chunks : d # c => f[d] = sched.users[d]
    BY <1>2, <1>3
  <1>5. PICK g : g = [sched.status EXCEPT ![c] = IF @ = "INUSE" /\ sched.users[c] \ {t} = {} THEN "ALLOCATED" ELSE @]
    OBVIOUS
  <1>6. g \in [Chunks -> Statuses] /\ \A d \in Chunks : g[d] = sched.status[d] \/ (d = c /\ g[d] = "ALLOCATED")
    BY <1>3, <1>5 DEF Statuses
  <1>7. PICK s : s = [sched EXCEPT !.users = f, !.status = g]
    OBVIOUS
  <1>8. sched' = Untouch(s) /\ call' = [call EXCEPT ![t] = Idle]
    <2>1. s = [sched EXCEPT !.users[c] = sched.users[c] \ {t},
                            !.status[c] = IF @ = "INUSE" /\ sched.users[c] \ {t} = {} THEN "ALLOCATED" ELSE @]
      BY <1>1, <1>2, <1>5, <1>7 DEF SchedType
    <2> QED BY <2>1 DEF UnsetUse, Returns, Becomes
  <1>9. s \in SchedType
    BY <1>1, <1>4, <1>6, <1>7 DEF SchedType
  <1>10. /\ s.next = sched.next /\ s.prev = sched.prev /\ s.active = sched.active
         /\ s.counterActive = sched.counterActive /\ s.preemptiveSwapIn = sched.preemptiveSwapIn
         /\ s.preloaded = sched.preloaded /\ s.preemptiveStart = sched.preemptiveStart
         /\ s.preemptiveBytes = sched.preemptiveBytes /\ s.asynchronous = sched.asynchronous
         /\ s.most = sched.most /\ s.status = g /\ s.users = f
    BY <1>1, <1>7 DEF SchedType
  <1>11. PICK e : e = [call EXCEPT ![t] = Idle]
    OBVIOUS
  <1>12. Sound(sched, e)
    <2>1. Placed(sched, t, Idle)
      BY BeginsIs DEF Placed
    <2>2. Works(sched, sched) /\ call[t].at # "free"
      BY <1>1, WorksNone
    <2> QED BY <1>11, <2>1, <2>2, BeginsIs, SoundWorks
  <1>13. e[t] = Idle /\ \A x \in Threads : x # t => e[x] = call[x]
    BY <1>11 DEF Sound
  <1>14. Sound(s, e) /\ Ring(s) = Ring(sched)
    <2>1. \A d \in Ring(sched) : s.status[d] # "NONE"
      <3>1. \A d \in Ring(sched) : d \in Chunks /\ sched.status[d] # "NONE"
        BY <1>1 DEF Whole, Ring
      <3> QED BY <1>6, <1>10, <3>1
    <2>2. \A d \in Chunks \ Ring(sched) : s.status[d] = sched.status[d] /\ s.users[d] = {}
      BY <1>1, <1>4, <1>6, <1>10 DEF Sound
    <2>3. \A x \in Threads : e[x].at \in {"waitIn", "waitOut", "room", "unuse"} => x \in s.users[e[x].chunk]
      <3> SUFFICES ASSUME NEW x \in Threads, e[x].at \in {"waitIn", "waitOut", "room", "unuse"}
                   PROVE  x \in s.users[e[x].chunk]
        OBVIOUS
      <3>1. x # t
        BY <1>13, BeginsIs
      <3>2. e[x].chunk \in Chunks /\ x \in sched.users[e[x].chunk]
        BY <1>12 DEF Sound, Placed
      <3>3. x \in f[e[x].chunk]
        BY <1>2, <1>3, <3>1, <3>2
      <3> QED BY <1>10, <3>3
    <2> QED BY <1>9, <1>10, <1>12, <2>1, <2>2, <2>3, SoundMarked
  <1>15. e = [e EXCEPT ![t] = Idle]
    BY <1>12, <1>13 DEF Sound
  <1>16. \A d \in Chunks : s.status[d] = sched.status[d] \/ (sched.status[d] = "INUSE" /\ s.status[d] = "ALLOCATED")
    BY <1>3, <1>5, <1>10
  <1>17. Ordered(sched, s)
    BY <1>10 DEF Ordered
  <1> QED BY <1>1, <1>8, <1>11, <1>13, <1>14, <1>15, <1>16, <1>17 DEF GivenBack

\* unsetUse, and the exception on the way out of setUse.
LEMMA UnsetUseStep ==
    ASSUME Sound(sched, call), NEW t \in Threads, NEW c \in Chunks, UnsetUse(t, c)
    PROVE  Sound(sched', call')
  <1>1. PICK s, e : GivenBack(s, e, t)
    BY UnsetUseIs
  <1>2. Whole(s) /\ Ring(s) # {} /\ Sound(s, e) /\ e[t] = Idle
    BY <1>1 DEF GivenBack, Sound
  <1>3. Works(s, Untouch(s))
    BY <1>2, UntouchIs
  <1>4. Placed(Untouch(s), t, Idle)
    BY BeginsIs DEF Placed
  <1>5. e[t].at # "free"
    BY <1>2, BeginsIs
  <1>6. Sound(Untouch(s), [e EXCEPT ![t] = Idle])
    BY <1>2, <1>3, <1>4, <1>5, BeginsIs, SoundWorks
  <1> QED BY <1>1, <1>6 DEF GivenBack

\* Status and copies of c when it is given up for good.
Dropped(s, c) == [s EXCEPT !.status[c] = "NONE", !.copies = @ \ {c}]

\* A chunk outside the ring is given up: the ring does not change.
LEMMA DroppedIs ==
    ASSUME NEW s, Whole(s), NEW c \in Chunks, c \notin Ring(s)
    PROVE  /\ Whole(Dropped(s, c)) /\ Ring(Dropped(s, c)) = Ring(s)
           /\ Dropped(s, c).users = s.users /\ Dropped(s, c).asynchronous = s.asynchronous
           /\ Dropped(s, c).most = s.most
           /\ Dropped(s, c).status[c] = "NONE"
           /\ \A d \in Chunks \ {c} : Dropped(s, c).status[d] = s.status[d]
  <1>1. s \in SchedType
    BY DEF Whole, Round, Plain
  <1>2. PICK r : r = Dropped(s, c)
    OBVIOUS
  <1>3. r \in SchedType
    BY <1>1, <1>2 DEF Dropped, SchedType, Statuses
  <1>4. /\ r.next = s.next /\ r.prev = s.prev /\ r.active = s.active /\ r.counterActive = s.counterActive
        /\ r.preemptiveSwapIn = s.preemptiveSwapIn /\ r.preloaded = s.preloaded
        /\ r.preemptiveStart = s.preemptiveStart /\ r.preemptiveBytes = s.preemptiveBytes
        /\ r.users = s.users /\ r.asynchronous = s.asynchronous /\ r.most = s.most
        /\ r.status[c] = "NONE" /\ \A d \in Chunks \ {c} : r.status[d] = s.status[d]
    BY <1>1, <1>2 DEF Dropped, SchedType
  <1>5. \A d \in Ring(s) : r.status[d] # "NONE"
    <2>1. \A d \in Ring(s) : d \in Chunks \ {c} /\ s.status[d] # "NONE"
      BY DEF Whole, Ring
    <2> QED BY <1>4, <2>1
  <1>6. Whole(r) /\ Ring(r) = Ring(s)
    BY <1>3, <1>4, <1>5, WholeSame
  <1> QED BY <1>2, <1>4, <1>6

\* mfree.
LEMMA MfreeStep ==
    ASSUME Sound(sched, call), NEW t \in Threads, NEW c \in Chunks, Mfree(t, c)
    PROVE  Sound(sched', call')
  <1>1. call[t].at = "idle" /\ c \in Ring(sched) /\ sched.users[c] = {} /\ Whole(sched)
    BY DEF Mfree, Sound
  <1>2. PICK s : s = SchedulerDelete(sched, c)
    OBVIOUS
  <1>3. Recast(sched, s, Ring(sched) \ {c})
    BY <1>1, <1>2, DeleteIs
  <1>4. /\ Whole(s) /\ Ring(s) = Ring(sched) \ {c} /\ s.status = sched.status /\ s.users = sched.users
        /\ s.asynchronous = sched.asynchronous /\ s.most = sched.most
    BY <1>3 DEF Recast
  <1>5. \A u \in Threads : u # t /\ call[u].at \in {"malloc", "free"} => call[u].chunk # c
    BY <1>1 DEF Sound, Placed, Whole
  <1>6. CASE sched.status[c] = "SWAPOUT"
    <2>1. sched' = s /\ call' = [call EXCEPT ![t] = Begins("free", c)]
      BY <1>2, <1>6 DEF Mfree, Becomes
    <2>2. Begins("free", c) \in CallType /\ Begins("free", c).at = "free" /\ Begins("free", c).chunk = c
      <3>1. "free" \in Places
        BY DEF Places
      <3> QED BY <3>1, BeginsIs
    <2>3. s.status[c] \in Away
      BY <1>4, <1>6 DEF Away
    <2> QED BY <1>1, <1>4, <1>5, <2>1, <2>2, <2>3, SoundRemoved
  <1>7. CASE sched.status[c] # "SWAPOUT"
    <2>1. sched' = Dropped(s, c) /\ call' = [call EXCEPT ![t] = Idle]
      BY <1>2, <1>7 DEF Mfree, Returns, Becomes, Dropped
    <2>2. PICK r : r = Dropped(s, c)
      OBVIOUS
    <2>3. /\ Whole(r) /\ Ring(r) = Ring(sched) \ {c} /\ r.users = sched.users
          /\ r.asynchronous = sched.asynchronous /\ r.most = sched.most
          /\ r.status[c] = "NONE" /\ \A d \in Chunks \ {c} : r.status[d] = sched.status[d]
      <3>1. c \notin Ring(s)
        BY <1>4
      <3> QED BY <1>4, <2>2, <3>1, DroppedIs
    <2>4. call[t].at = "free" => call[t].chunk = c
      BY <1>1
    <2>5. Idle \in CallType /\ Idle.at = "idle" /\ Idle.at # "free"
      BY BeginsIs
    <2>6. Sound(r, [call EXCEPT ![t] = Idle])
      BY <1>1, <1>5, <2>3, <2>4, <2>5, SoundRemoved
    <2> QED BY <2>1, <2>2, <2>6
  <1> QED BY <1>6, <1>7

\* mfree goes on when the chunk has been written.
LEMMA MfreeDoneStep ==
    ASSUME Sound(sched, call), NEW t \in Threads, MfreeDone(t)
    PROVE  Sound(sched', call')
  <1>1. PICK c : c = call[t].chunk
    OBVIOUS
  <1>2. call[t].at = "free" /\ sched' = Dropped(sched, c) /\ call' = [call EXCEPT ![t] = Idle]
    BY <1>1 DEF MfreeDone, Returns, Becomes, Dropped
  <1>3. c \in Chunks \ Ring(sched) /\ Whole(sched) /\ sched.users[c] = {}
    BY <1>1, <1>2 DEF Sound, Placed
  <1>4. \A u \in Threads : u # t /\ call[u].at \in {"malloc", "free"} => call[u].chunk # c
    BY <1>1, <1>2 DEF Sound, Apart
  <1>5. PICK r : r = Dropped(sched, c)
    OBVIOUS
  <1>6. /\ Whole(r) /\ Ring(r) = Ring(sched) \ {c} /\ r.users = sched.users
        /\ r.asynchronous = sched.asynchronous /\ r.most = sched.most
        /\ r.status[c] = "NONE" /\ \A d \in Chunks \ {c} : r.status[d] = sched.status[d]
    <2>1. Ring(sched) \ {c} = Ring(sched)
      BY <1>3
    <2> QED BY <1>3, <1>5, <2>1, DroppedIs
  <1>7. Idle \in CallType /\ Idle.at = "idle" /\ Idle.at # "free"
    BY BeginsIs
  <1>8. call[t].at = "free" => call[t].chunk = c
    BY <1>1
  <1>9. Sound(r, [call EXCEPT ![t] = Idle])
    BY <1>3, <1>4, <1>6, <1>7, <1>8, SoundRemoved
  <1> QED BY <1>2, <1>5, <1>9

\* A transfer arrives.
LEMMA ArriveStep ==
    ASSUME Sound(sched, call), NEW c \in Chunks, Arrive(c)
    PROVE  Sound(sched', call')
  <1>1. sched \in SchedType /\ Whole(sched)
    BY DEF Sound, Whole, Round, Plain
  <1>2. PICK g \in {"ALLOCATED", "SWAPPED"} :
          /\ sched' = [sched EXCEPT !.status[c] = g]
          /\ IF g = "ALLOCATED" THEN sched.status[c] = "SWAPIN" ELSE sched.status[c] = "SWAPOUT"
    BY DEF Arrive
  <1>3. PICK r : r = [sched EXCEPT !.status[c] = g]
    OBVIOUS
  <1>4. r \in SchedType
    BY <1>1, <1>3 DEF SchedType, Statuses
  <1>5. /\ r.next = sched.next /\ r.prev = sched.prev /\ r.active = sched.active
        /\ r.counterActive = sched.counterActive /\ r.preemptiveSwapIn = sched.preemptiveSwapIn
        /\ r.preloaded = sched.preloaded /\ r.preemptiveStart = sched.preemptiveStart
        /\ r.preemptiveBytes = sched.preemptiveBytes /\ r.asynchronous = sched.asynchronous
        /\ r.most = sched.most /\ r.users = sched.users
        /\ r.status[c] = g /\ \A d \in Chunks : d # c => r.status[d] = sched.status[d]
    BY <1>1, <1>3 DEF SchedType
  <1>6. \A d \in Ring(sched) : r.status[d] # "NONE"
    <2>1. \A d \in Ring(sched) : d \in Chunks /\ sched.status[d] # "NONE"
      BY <1>1 DEF Whole, Ring
    <2> QED BY <1>2, <1>5, <2>1
  <1>7. \A d \in Chunks \ Ring(sched) : r.status[d] = sched.status[d] \/ (r.status[d] \in Away /\ sched.status[d] \in Away)
    <2>1. c \in Ring(sched) \/ sched.status[c] \in Away \/ sched.status[c] = "NONE"
      BY DEF Sound
    <2> QED BY <1>2, <1>5, <2>1 DEF Away
  <1>8. \A d \in Chunks \ Ring(sched) : r.users[d] = {}
    BY <1>5 DEF Sound
  <1>9. \A x \in Threads : call[x].at \in {"waitIn", "waitOut", "room", "unuse"} => x \in r.users[call[x].chunk]
    BY <1>5 DEF Sound, Placed
  <1>10. Sound(r, call)
    BY <1>4, <1>5, <1>6, <1>7, <1>8, <1>9, SoundMarked
  <1>11. call' = call
    BY DEF Arrive
  <1> QED BY <1>2, <1>3, <1>10, <1>11

\* Every step of the program keeps the invariant.
LEMMA SoundStep ==
    ASSUME Sound(sched, call), [Next]_vars
    PROVE  Sound(sched', call')
  <1>1. ASSUME NEW t \in Threads, MmallocAgain(t)
        PROVE  Sound(sched', call')
    <2>1. PICK c : c = call[t].chunk
      OBVIOUS
    <2>2. call[t].at = "malloc" /\ Allocate(t, c)
      BY <1>1, <2>1 DEF MmallocAgain
    <2>3. c \in Chunks /\ sched.status[c] = "NONE"
      BY <2>1, <2>2 DEF Sound, Placed
    <2>4. \A u \in Threads : u # t /\ call[u].at \in {"malloc", "free"} => call[u].chunk # c
      BY <2>1, <2>2 DEF Sound, Apart
    <2>5. call[t].at # "free"
      BY <2>2
    <2> QED BY <2>2, <2>3, <2>4, <2>5, AllocateStep
  <1>2. ASSUME NEW t \in Threads, SwappedIn(t)
        PROVE  Sound(sched', call')
    <2>1. call[t].at = "waitIn" /\ Grant(t, sched, call[t])
      BY <1>2 DEF SwappedIn
    <2>2. call[t].chunk \in Ring(sched)
      BY <2>1 DEF Sound, Placed
    <2>3. call[t].at # "free"
      BY <2>1
    <2> QED BY <2>1, <2>2, <2>3, GrantStep
  <1>3. ASSUME NEW t \in Threads, SwappedOut(t)
        PROVE  Sound(sched', call')
    <2>1. PICK o : o = call[t]
      OBVIOUS
    <2>2. o \in CallType /\ o.at = "waitOut" /\ o.chunk \in Chunks /\ t \in sched.users[o.chunk] /\ Whole(sched)
      BY <1>3, <2>1 DEF SwappedOut, Sound, Placed
    <2>3. call[t].at # "free"
      BY <2>1, <2>2
    <2>4. CASE sched.status[o.chunk] = "SWAPPED"
      <3>1. Becomes(t, SwapIn(sched, o))
        BY <1>3, <2>1, <2>4 DEF SwappedOut
      <3> QED BY <2>2, <2>3, <3>1, SwapInStep
    <2>5. CASE sched.status[o.chunk] # "SWAPPED"
      <3>1. PICK p : p = [o EXCEPT !.at = "waitIn"]
        OBVIOUS
      <3>2. sched' = sched /\ call' = [call EXCEPT ![t] = p]
        BY <1>3, <2>1, <2>5, <3>1 DEF SwappedOut, Becomes
      <3>3. p \in CallType /\ p.at = "waitIn" /\ p.chunk = o.chunk
        <4>1. "waitIn" \in Places
          BY DEF Places
        <4> QED BY <2>2, <3>1, <4>1 DEF CallType
      <3>4. Placed(sched, t, p) /\ p.at # "free" /\ p.at # "malloc"
        BY <2>2, <3>3 DEF Placed
      <3>5. Works(sched, sched)
        BY <2>2, WorksNone
      <3>6. Sound(sched, [call EXCEPT ![t] = p])
        BY <2>3, <3>3, <3>4, <3>5, SoundWorks
      <3> QED BY <3>2, <3>6
    <2> QED BY <2>4, <2>5
  <1>4. ASSUME NEW t \in Threads, RoomAgain(t)
        PROVE  Sound(sched', call')
    <2>1. PICK o : o = call[t]
      OBVIOUS
    <2>2. o \in CallType /\ o.at = "room" /\ o.chunk \in Chunks /\ t \in sched.users[o.chunk]
      BY <1>4, <2>1 DEF RoomAgain, Sound, Placed
    <2>3. call[t].at # "free"
      BY <2>1, <2>2
    <2>4. Becomes(t, SwapInWith(sched, o))
      BY <1>4, <2>1 DEF RoomAgain
    <2> QED BY <2>2, <2>3, <2>4, SwapInStep
  <1>5. ASSUME NEW t \in Threads, NEW c \in Chunks, Mmalloc(t, c)
        PROVE  Sound(sched', call')
    <2>1. /\ call[t].at = "idle" /\ sched.status[c] = "NONE" /\ Allocate(t, c)
          /\ \A u \in Threads : call[u].chunk # c
      BY <1>5 DEF Mmalloc
    <2>2. call[t].at # "free"
      BY <2>1
    <2> QED BY <2>1, <2>2, AllocateStep
  <1>6. CASE UNCHANGED vars
    BY <1>6 DEF vars
  <1>7. CASE Next
    <2>1. \/ \E t \in Threads : MmallocAgain(t) \/ SwappedIn(t) \/ SwappedOut(t) \/ RoomAgain(t) \/ MfreeDone(t)
          \/ \E t \in Threads, c \in Chunks : Mmalloc(t, c) \/ UnsetUse(t, c) \/ Mfree(t, c)
          \/ \E t \in Threads, c \in Chunks, write \in BOOLEAN : SetUse(t, c, write)
          \/ \E c \in Chunks : Arrive(c)
      BY <1>7 DEF Next
    <2> QED BY <1>1, <1>2, <1>3, <1>4, <1>5, <2>1, MfreeDoneStep, UnsetUseStep, MfreeStep, SetUseStep, ArriveStep
  <1> QED BY <1>6, <1>7

\* Without guesses the manager stays sound: this is the invariant the theorems below rest on.
THEOREM SoundAlways == Spec /\ ~sched.preemptiveSwapIn => []Sound(sched, call)
  <1>1. Init /\ ~sched.preemptiveSwapIn => Sound(sched, call)
    BY SoundInit
  <1>2. Sound(sched, call) /\ [Next]_vars => Sound(sched, call)'
    BY SoundStep
  <1> QED BY <1>1, <1>2, PTL DEF Spec

\* Type correctness, without guesses.
THEOREM RingTyped == Spec /\ ~sched.preemptiveSwapIn => []TypeOK
  <1>1. Sound(sched, call) /\ corners \subseteq CornerCases => TypeOK
    <2> SUFFICES ASSUME Sound(sched, call), corners \subseteq CornerCases
                 PROVE  TypeOK
      OBVIOUS
    <2>1. sched \in SchedType
      BY DEF Sound, Whole, Round, Plain
    <2>2. call \in [Threads -> [at : Places, chunk : Elements, write : BOOLEAN, need : Nat, oldBorder : Elements]]
      BY DEF Sound, CallType
    <2>3. [asynchronous |-> sched.asynchronous, preemptiveSwapIn |-> sched.preemptiveSwapIn,
           most |-> sched.most] \in Modes
      BY DEF Sound
    <2> QED BY <2>1, <2>2, <2>3 DEF SchedType, TypeOK
  <1>2. Init => corners \subseteq CornerCases
    BY DEF Init
  <1>3. corners \subseteq CornerCases /\ [Next]_vars => (corners \subseteq CornerCases)'
    <2> SUFFICES ASSUME corners \subseteq CornerCases, [Next]_vars
                 PROVE  corners' \subseteq CornerCases
      BY DEF CornerCases
    <2>1. CornersMet \subseteq CornerCases
      BY DEF CornersMet
    <2>2. corners' = corners \/ corners' = corners \cup CornersMet
      BY DEF Next, vars
    <2> QED BY <2>1, <2>2
  <1> QED BY <1>1, <1>2, <1>3, SoundAlways, PTL DEF Spec

\* However touch, swapOut and swapIn cut and rejoin the ring, for any number of threads and of
\* chunks of any size: one round along next meets every registered chunk, links are mutual,
\* active and counterActive are in it, and what is outside is being deleted.
THEOREM RingWhole == Spec /\ ~sched.preemptiveSwapIn => []RingIntact
  <1>1. Sound(sched, call) => RingIntact
    <2> SUFFICES ASSUME Sound(sched, call)
                 PROVE  RingIntact
      OBVIOUS
    <2>1. PICK R : R = Ring(sched) /\ R \in SUBSET Chunks
      BY DEF Ring
    <2>2. /\ OneRing(sched.next, sched.prev, R) /\ sched.preemptiveStart = NULL
          /\ IF R = {} THEN sched.active = NULL /\ sched.counterActive = NULL
             ELSE sched.active \in R /\ sched.counterActive \in R
      BY <2>1 DEF Sound, Whole, Round, Plain
    <2>3. NULL \notin R
      BY <2>1, ConstantsAssumption
    <2>4. ToSet(InRing) = R
      <3>1. CASE R = {}
        <4>1. InRing = <<>>
          BY <2>2, <3>1 DEF InRing
        <4>2. DOMAIN <<>> = {}
          OBVIOUS
        <4> QED BY <3>1, <4>1, <4>2 DEF ToSet
      <3>2. CASE R # {}
        <4>1. InRing = Walk(sched.next, sched.active, Cardinality(R)) /\ sched.active \in R
          BY <2>1, <2>2, <2>3, <3>2 DEF InRing
        <4>2. PICK k : k = Cardinality(R)
          OBVIOUS
        <4>3. IsFiniteSet(R) /\ k \in Nat /\ k >= Cardinality(R)
          BY <2>1, <4>2, ConstantsAssumption, FS_Subset, FS_CardinalityType
        <4>4. \A x \in R : sched.next[x] \in R
          BY <2>2 DEF OneRing
        <4>5. DOMAIN InRing = 1..k
          BY <4>1, <4>2, <4>3, WalkIs
        <4>6. \A x \in R : \E i \in 1..Cardinality(R) : InRing[i] = x
          BY <2>2, <4>1, <4>2, <4>3, WalkCovers
        <4>7. \A i \in 1..k : InRing[i] \in R
          BY <4>1, <4>2, <4>3, <4>4, WalkStays
        <4> QED BY <4>2, <4>5, <4>6, <4>7 DEF ToSet
      <3> QED BY <3>1, <3>2
    <2>5. \A c \in R : sched.prev[sched.next[c]] = c
      BY <2>2 DEF OneRing
    <2>6. sched.active = NULL <=> sched.counterActive = NULL
      BY <2>2, <2>3
    <2>7. {sched.counterActive, sched.preemptiveStart} \subseteq R \cup {NULL}
      BY <2>2
    <2>8. \A c \in Chunks \ R : sched.status[c] # "NONE" => \E t \in Threads : call[t].at = "free" /\ call[t].chunk = c
      BY <2>1 DEF Sound
    <2> QED BY <2>1, <2>4, <2>5, <2>6, <2>7, <2>8 DEF RingIntact
  <1> QED BY <1>1, SoundAlways, PTL

-----------------------------------------------------------------------------
(* The limit of the memory *)

\* More bytes for one more chunk, and fewer for fewer chunks.
LEMMA BytesPart ==
    /\ \A S \in SUBSET Chunks : \A T \in SUBSET S : Bytes(T) <= Bytes(S)
    /\ \A S \in SUBSET Chunks : \A T \in SUBSET S : Bytes(S \ T) = Bytes(S) - Bytes(T)
    /\ \A S \in SUBSET Chunks : \A c \in Chunks : Bytes(S \cup {c}) <= Bytes(S) + Size[c]
    /\ \A S \in SUBSET Chunks : \A c \in S : Size[c] <= Bytes(S)
  <1>1. \A S : Bytes(S) = SumOver(Size, S)
    BY DEF Bytes, SumOver, MapThenSumSet, MapThenFoldSet
  <1>2. \A S \in SUBSET Chunks : IsFiniteSet(S) /\ \A c \in S : Size[c] \in Nat
    BY FS_Subset, ConstantsAssumption
  <1>3. ASSUME NEW S \in SUBSET Chunks, NEW T \in SUBSET S
        PROVE  Bytes(T) <= Bytes(S) /\ Bytes(S \ T) = Bytes(S) - Bytes(T)
    <2>1. IsFiniteSet(S) /\ \A c \in S : Size[c] \in Nat
      BY <1>2
    <2>2. SumOver(Size, T) <= SumOver(Size, S) /\ SumOver(Size, S \ T) = SumOver(Size, S) - SumOver(Size, T)
      BY <2>1, SumMonotone
    <2> QED BY <1>1, <2>2
  <1>4. ASSUME NEW S \in SUBSET Chunks, NEW c \in Chunks
        PROVE  Bytes(S \cup {c}) <= Bytes(S) + Size[c]
    <2>1. IsFiniteSet(S) /\ Size[c] \in Nat /\ \A d \in S : Size[d] \in Int
      BY <1>2, ConstantsAssumption
    <2>2. Bytes(S) \in Nat
      BY BytesType
    <2>3. CASE c \in S
      <3>1. S \cup {c} = S
        BY <2>3
      <3>2. Bytes(S \cup {c}) = Bytes(S)
        BY <3>1
      <3> QED BY <2>1, <2>2, <3>2
    <2>4. CASE c \notin S
      <3>1. Size[c] \in Int
        BY <2>1
      <3>2. SumOver(Size, S \cup {c}) = SumOver(Size, S) + Size[c]
        BY <2>1, <2>4, <3>1, SumAdd
      <3>3. Bytes(S \cup {c}) = Bytes(S) + Size[c]
        BY <1>1, <3>2
      <3> QED BY <2>1, <2>2, <3>3
    <2> QED BY <2>3, <2>4
  <1>5. ASSUME NEW S \in SUBSET Chunks, NEW c \in S
        PROVE  Size[c] <= Bytes(S)
    <2>1. IsFiniteSet(S) /\ \A d \in S : Size[d] \in Nat
      BY <1>2
    <2>2. Size[c] <= SumOver(Size, S)
      BY <2>1, SumBounds
    <2> QED BY <1>1, <2>2
  <1> QED BY <1>3, <1>4, <1>5

\* The chunks that take memory.
Taking(s) == In(s, {"ALLOCATED", "INUSE", "SWAPIN", "SWAPOUT"})

\* Memory is taken by no more chunks.
LEMMA UsedLess ==
    ASSUME NEW s, NEW r, Taking(r) \subseteq Taking(s)
    PROVE  Used(r) <= Used(s)
  <1>1. Taking(s) \in SUBSET Chunks /\ Taking(r) \in SUBSET Taking(s)
    BY DEF Taking, In
  <1>2. Bytes(Taking(r)) <= Bytes(Taking(s))
    BY <1>1, BytesPart
  <1> QED BY <1>2 DEF Used, Taking

\* Memory is taken by one more chunk at most.
LEMMA UsedMore ==
    ASSUME NEW s, NEW r, NEW c \in Chunks, Taking(r) \subseteq Taking(s) \cup {c}
    PROVE  Used(r) <= Used(s) + Size[c]
  <1>1. Taking(s) \in SUBSET Chunks /\ Taking(s) \cup {c} \in SUBSET Chunks /\ Taking(r) \in SUBSET (Taking(s) \cup {c})
    BY DEF Taking, In
  <1>2. Bytes(Taking(r)) <= Bytes(Taking(s) \cup {c}) /\ Bytes(Taking(s) \cup {c}) <= Bytes(Taking(s)) + Size[c]
    BY <1>1, BytesPart
  <1>3. Bytes(Taking(r)) \in Nat /\ Bytes(Taking(s) \cup {c}) \in Nat /\ Bytes(Taking(s)) \in Nat /\ Size[c] \in Nat
    <2>1. Taking(r) \in SUBSET Chunks
      BY <1>1
    <2> QED BY <1>1, <2>1, BytesType, ConstantsAssumption
  <1>4. Bytes(Taking(r)) <= Bytes(Taking(s)) + Size[c]
    BY <1>2, <1>3
  <1> QED BY <1>4 DEF Used, Taking

\* Chunks that nobody uses may have been unloaded.
Thinned(s, r) ==
    \A d \in Chunks : r.status[d] = s.status[d] \/ (Candidate(s, d) /\ r.status[d] \in {"SWAPPED", "SWAPOUT"})

\* What swapOut unloads, nobody uses.
LEMMA EvictedThinned ==
    ASSUME NEW s, NEW r, NEW V, Evicted(s, r, V)
    PROVE  Thinned(s, r)
  BY DEF Evicted, Gone, Thinned

\* swapOut as a whole.
LEMMA SwapOutThinned ==
    ASSUME NEW s, Whole(s), Ring(s) # {}, NEW n
    PROVE  Thinned(s, SwapOut(s, n).s)
  <1>1. PICK V : Evicted(s, SwapOut(s, n).s, V)
    BY SwapOutIs DEF Whole
  <1> QED BY <1>1, EvictedThinned

\* Unloading takes memory from nobody who uses it, and makes it no more.
LEMMA ThinnedUsed ==
    ASSUME NEW s, NEW r, Thinned(s, r)
    PROVE  /\ Used(r) <= Used(s)
           /\ \A d \in Chunks : s.users[d] # {} => r.status[d] = s.status[d]
  <1>1. Taking(r) \subseteq Taking(s)
    BY DEF Thinned, Taking, In, Candidate
  <1> QED BY <1>1, UsedLess DEF Thinned, Candidate

\* ensureEnoughSpace unloads what nobody uses, and says that there is room only if there is.
LEMMA SpaceThins ==
    ASSUME NEW s, Whole(s), NEW n, NEW c,
           Ring(s) # {} \/ ~(n + Used(s) - MemMax - ToBeFreed(s) > 0),
           NEW r, r = EnsureEnoughSpace(s, n, c)
    PROVE  /\ Thinned(s, r.s)
           /\ r.out = "fits" => Fits(r.s, n)
           /\ r.out = "there" => r.s = s /\ Present(s, c)
  <1>1. Thinned(s, s)
    BY DEF Thinned
  <1>2. CASE c # NULL /\ Present(s, c)
    <2>1. r = [s |-> s, out |-> "there"]
      BY <1>2 DEF EnsureEnoughSpace
    <2> QED BY <1>1, <1>2, <2>1
  <1>3. CASE ~(c # NULL /\ Present(s, c)) /\ Fits(s, n)
    <2>1. r = [s |-> s, out |-> "fits"]
      BY <1>3 DEF EnsureEnoughSpace
    <2> QED BY <1>1, <1>3, <2>1
  <1>4. CASE ~(c # NULL /\ Present(s, c)) /\ ~Fits(s, n)
    <2>1. PICK missing : missing = n + Used(s) - MemMax - ToBeFreed(s)
      OBVIOUS
    <2>2. PICK o : o = IF missing > 0 THEN SwapOut(s, missing) ELSE [s |-> s, ok |-> TRUE]
      OBVIOUS
    <2>3. r = RoomAfter(n, o)
      BY <1>4, <2>1, <2>2 DEF EnsureEnoughSpace
    <2>4. Thinned(s, o.s) /\ Works(s, o.s)
      <3>1. CASE missing > 0
        BY <2>1, <2>2, <3>1, SwapOutThinned, SwapOutWorks
      <3>2. CASE ~(missing > 0)
        BY <1>1, <2>2, <3>2, WorksNone
      <3> QED BY <3>1, <3>2
    <2>5. CASE ~o.ok /\ ToBeFreed(o.s) = 0
      <3>1. r.s = Cleaned(o.s) /\ r.out = "throw"
        BY <2>3, <2>5 DEF RoomAfter
      <3>2. Cleaned(o.s).status = o.s.status
        BY <2>4, CleanedIs DEF Works
      <3> QED BY <2>4, <3>1, <3>2 DEF Thinned
    <2>6. CASE ~(~o.ok /\ ToBeFreed(o.s) = 0)
      <3>1. r = [s |-> o.s, out |-> IF Fits(o.s, n) THEN "fits" ELSE "wait"]
        BY <2>3, <2>6 DEF RoomAfter
      <3> QED BY <2>4, <3>1
    <2> QED BY <2>5, <2>6
  <1> QED BY <1>2, <1>3, <1>4

\* Reading one chunk in changes no other.
LEMMA SwapInSingleStatus ==
    ASSUME NEW s, Whole(s), NEW c \in Ring(s), NEW r, r = SwapInSingle(s, c)
    PROVE  r.status[c] \in Here /\ \A d \in Chunks : d # c => r.status[d] = s.status[d]
  <1>1. PICK u : u = Load(s, {c})
    OBVIOUS
  <1>2. Works(s, u)
    BY <1>1, LoadIs
  <1>3. Whole(u) /\ c \in Ring(u) /\ c \in Chunks
    BY <1>2 DEF Works, Ring
  <1>4. PICK v : v = Touch(u, c)
    OBVIOUS
  <1>5. Works(u, v) /\ v.status = u.status
    BY <1>3, <1>4, TouchIs
  <1>6. Whole(v) /\ Ring(v) # {}
    BY <1>3, <1>5 DEF Works
  <1>7. r.status = u.status
    <2>1. Bordered(v).status = v.status
      BY <1>6, BorderedIs
    <2> QED BY <1>1, <1>4, <1>5, <2>1 DEF SwapInSingle
  <1>8. s \in SchedType
    BY DEF Whole, Round, Plain
  <1>9. \A d \in Chunks : u.status[d] = IF d # c THEN s.status[d]
                                       ELSE IF s.asynchronous THEN "SWAPIN" ELSE "ALLOCATED"
    BY <1>1, <1>8 DEF Load, SchedType
  <1> QED BY <1>3, <1>7, <1>9 DEF Here

\* What a call waits for is right, and the memory taken is within the limit.
Within(s, cl) ==
    /\ Used(s) <= MemMax
    /\ \A t \in Threads : /\ cl[t].at = "waitIn" => s.status[cl[t].chunk] \in Here
                          /\ cl[t].at = "room" => cl[t].need = Size[cl[t].chunk]

\* No chunk that is used and here goes.
Holds(s, r) == \A d \in Chunks : s.users[d] # {} /\ s.status[d] \in Here => r.status[d] \in Here

\* What Within asks of one call.
Awaits(s, o) == /\ o.at = "waitIn" => s.status[o.chunk] \in Here
                /\ o.at = "room" => o.need = Size[o.chunk]

\* Thread t goes on in its call, or leaves it.
LEMMA WithinStep ==
    ASSUME NEW s, NEW cl, Sound(s, cl), Within(s, cl), NEW t \in Threads, NEW r, NEW o,
           Used(r) <= MemMax, Holds(s, r), Awaits(r, o)
    PROVE  Within(r, [cl EXCEPT ![t] = o])
  <1>1. PICK e : e = [cl EXCEPT ![t] = o]
    OBVIOUS
  <1>2. e[t] = o /\ \A u \in Threads : u # t => e[u] = cl[u]
    BY <1>1 DEF Sound
  <1>3. ASSUME NEW u \in Threads
        PROVE  Awaits(r, e[u])
    <2>1. CASE u = t
      BY <1>2, <2>1
    <2>2. CASE u # t
      <3>1. e[u] = cl[u] /\ Awaits(s, cl[u])
        BY <1>2, <2>2 DEF Within, Awaits
      <3>2. cl[u].at = "waitIn" => cl[u].chunk \in Chunks /\ s.users[cl[u].chunk] # {}
        BY DEF Sound, Placed
      <3> QED BY <3>1, <3>2 DEF Awaits, Holds
    <2> QED BY <2>1, <2>2
  <1> QED BY <1>1, <1>3 DEF Within, Awaits

\* swapIn from ensureEnoughSpace on.
LEMMA SwapInWithFills ==
    ASSUME NEW s, Whole(s), Used(s) <= MemMax, NEW o \in CallType, o.chunk \in Ring(s),
           o.need = Size[o.chunk], NEW p, p = SwapInWith(s, o)
    PROVE  Used(p.s) <= MemMax /\ Holds(s, p.s) /\ Awaits(p.s, p.o)
  <1>1. PICK r : r = EnsureEnoughSpace(s, o.need, o.chunk)
    OBVIOUS
  <1>2. PICK c : c = o.chunk
    OBVIOUS
  <1>3. c \in Ring(s) /\ c \in Chunks /\ Size[c] \in Nat /\ MemMax \in Nat
    BY <1>2, ConstantsAssumption DEF Ring
  <1>4. /\ Thinned(s, r.s)
        /\ r.out = "fits" => Fits(r.s, o.need)
        /\ r.out = "there" => r.s = s /\ Present(s, c)
    BY <1>1, <1>2, <1>3, SpaceThins
  <1>5. Works(s, r.s) /\ r.out \in {"there", "fits", "wait", "throw"}
    BY <1>1, <1>2, <1>3, SpaceIs
  <1>6. p = SwapInRoom(r, o)
    BY <1>1 DEF SwapInWith
  <1>7. \A q : Used(q) \in Int
    <2> TAKE q
    <2>1. Taking(q) \in SUBSET Chunks
      BY DEF Taking, In
    <2>2. Bytes(Taking(q)) \in Nat
      BY <2>1, BytesType
    <2> QED BY <2>2 DEF Used, Taking
  <1>8. Used(r.s) <= MemMax /\ Holds(s, r.s)
    <2>1. Used(r.s) <= Used(s) /\ \A d \in Chunks : s.users[d] # {} => r.s.status[d] = s.status[d]
      BY <1>4, ThinnedUsed
    <2>2. Used(r.s) \in Int /\ Used(s) \in Int
      BY <1>7
    <2> QED BY <1>3, <2>1, <2>2 DEF Holds
  <1>9. CASE r.out = "there"
    <2>1. p = At("waitIn", r.s, o)
      BY <1>6, <1>9 DEF SwapInRoom
    <2>2. p.s = s /\ p.o.at = "waitIn" /\ p.o.chunk = c
      BY <1>2, <1>4, <1>9, <2>1 DEF At, CallType
    <2>3. s.status[c] \in Here
      BY <1>4, <1>9 DEF Present, Here
    <2> QED BY <1>4, <1>8, <1>9, <2>2, <2>3 DEF Awaits
  <1>10. CASE r.out = "wait"
    <2>1. p = At("room", r.s, o)
      BY <1>6, <1>10 DEF SwapInRoom
    <2>2. p.s = r.s /\ p.o.at = "room" /\ p.o.chunk = o.chunk /\ p.o.need = o.need
      BY <2>1 DEF At, CallType
    <2> QED BY <1>8, <2>2 DEF Awaits
  <1>11. CASE r.out = "throw"
    <2>1. p = At("unuse", r.s, o)
      BY <1>6, <1>11 DEF SwapInRoom
    <2>2. p.s = r.s /\ p.o.at = "unuse"
      BY <2>1 DEF At, CallType
    <2> QED BY <1>8, <2>2 DEF Awaits
  <1>12. CASE r.out = "fits"
    <2>1. ~r.s.preemptiveSwapIn /\ Whole(r.s) /\ c \in Ring(r.s) /\ r.s.users = s.users
      BY <1>3, <1>5 DEF Works, Whole, Round, Plain
    <2>2. p = At("waitIn", SwapInSingle(r.s, c), o)
      BY <1>2, <1>6, <1>12, <2>1 DEF SwapInRoom, SwapInFits
    <2>3. PICK v : v = SwapInSingle(r.s, c)
      OBVIOUS
    <2>4. v.status[c] \in Here /\ \A d \in Chunks : d # c => v.status[d] = r.s.status[d]
      BY <2>1, <2>3, SwapInSingleStatus
    <2>5. p.s = v /\ p.o.at = "waitIn" /\ p.o.chunk = c
      BY <1>2, <2>2, <2>3 DEF At, CallType
    <2>6. Used(v) <= Used(r.s) + Size[c]
      <3>1. Taking(v) \subseteq Taking(r.s) \cup {c}
        BY <2>4 DEF Taking, In
      <3> QED BY <1>3, <3>1, UsedMore
    <2>7. Size[c] + Used(r.s) <= MemMax
      BY <1>2, <1>4, <1>12 DEF Fits
    <2>8. Used(v) <= MemMax
      <3>1. Used(v) \in Int /\ Used(r.s) \in Int
        BY <1>7
      <3> QED BY <1>3, <2>6, <2>7, <3>1
    <2>9. Holds(s, v)
      BY <1>8, <2>4 DEF Holds
    <2> QED BY <2>4, <2>5, <2>8, <2>9 DEF Awaits
  <1> QED BY <1>5, <1>9, <1>10, <1>11, <1>12

\* swapIn.
LEMMA SwapInFills ==
    ASSUME NEW s, Whole(s), Used(s) <= MemMax, NEW o \in CallType, o.chunk \in Ring(s),
           NEW p, p = SwapIn(s, o)
    PROVE  Used(p.s) <= MemMax /\ Holds(s, p.s) /\ Awaits(p.s, p.o)
  <1>1. s \in SchedType /\ s.preemptiveStart = NULL /\ ~s.preemptiveSwapIn
    BY DEF Whole, Round, Plain
  <1>2. PICK u : u = BeforeSwapIn(s)
    OBVIOUS
  <1>3. u = [s EXCEPT !.consecutive = 0]
    <2>1. \A n : Decay(s, n) = s
      BY <1>1 DEF Decay
    <2> QED BY <1>2, <2>1 DEF BeforeSwapIn
  <1>4. u \in SchedType
    <2>1. 0 \in 0..2
      OBVIOUS
    <2> QED BY <1>1, <1>3, <2>1 DEF SchedType
  <1>5. /\ u.next = s.next /\ u.prev = s.prev /\ u.active = s.active /\ u.counterActive = s.counterActive
        /\ u.preemptiveSwapIn = s.preemptiveSwapIn /\ u.preloaded = s.preloaded
        /\ u.preemptiveStart = s.preemptiveStart /\ u.preemptiveBytes = s.preemptiveBytes
        /\ u.status = s.status /\ u.users = s.users
    BY <1>1, <1>3 DEF SchedType
  <1>6. Whole(u) /\ Ring(u) = Ring(s)
    <2>1. \A c \in Ring(s) : u.status[c] # "NONE"
      BY <1>5 DEF Whole
    <2> QED BY <1>4, <1>5, <2>1, WholeSame
  <1>7. PICK q : q = [[o EXCEPT !.need = Size[o.chunk]] EXCEPT !.oldBorder = u.counterActive]
    OBVIOUS
  <1>8. p = SwapInWith(u, q)
    <2>1. Wanted(u, Size[o.chunk]) = [s |-> u, need |-> Size[o.chunk]]
      BY <1>1, <1>5 DEF Wanted
    <2>2. SwapIn(s, o) = SwapInWanted([s |-> u, need |-> Size[o.chunk]], u.counterActive, o)
      BY <1>2, <2>1 DEF SwapIn, SwapInFrom
    <2>3. q = [o EXCEPT !.need = Size[o.chunk], !.oldBorder = u.counterActive]
      BY <1>7 DEF CallType
    <2> QED BY <2>2, <2>3 DEF SwapInWanted
  <1>9. q \in CallType /\ q.chunk = o.chunk /\ q.need = Size[o.chunk]
    <2>1. o.chunk \in Chunks
      BY DEF Ring
    <2>2. Size[o.chunk] \in Nat
      BY <2>1, ConstantsAssumption
    <2>3. u.counterActive \in Elements
      BY <1>4 DEF SchedType
    <2> QED BY <1>7, <2>2, <2>3 DEF CallType
  <1>10. Used(u) <= MemMax
    BY <1>5 DEF Used, In
  <1>11. Used(p.s) <= MemMax /\ Holds(u, p.s) /\ Awaits(p.s, p.o)
    BY <1>6, <1>8, <1>9, <1>10, SwapInWithFills
  <1> QED BY <1>5, <1>11 DEF Holds

\* The manager changes while every call stays where it is.
LEMMA WithinSame ==
    ASSUME NEW s, NEW cl, Sound(s, cl), Within(s, cl), NEW r, Used(r) <= MemMax, Holds(s, r)
    PROVE  Within(r, cl)
  <1>1. ASSUME NEW u \in Threads
        PROVE  Awaits(r, cl[u])
    <2>1. Awaits(s, cl[u])
      BY DEF Within, Awaits
    <2>2. cl[u].at = "waitIn" => cl[u].chunk \in Chunks /\ s.users[cl[u].chunk] # {}
      BY DEF Sound, Placed
    <2> QED BY <2>1, <2>2 DEF Awaits, Holds
  <1> QED BY <1>1 DEF Within, Awaits

\* Used is a number, and transitive in what follows.
LEMMA UsedType == \A s : Used(s) \in Int
  <1> TAKE s
  <1>1. Taking(s) \in SUBSET Chunks
    BY DEF Taking, In
  <1>2. Bytes(Taking(s)) \in Nat
    BY <1>1, BytesType
  <1> QED BY <1>2 DEF Used, Taking

\* No more memory is taken than before.
LEMMA UsedWithin ==
    ASSUME NEW s, Used(s) <= MemMax, NEW r, Taking(r) \subseteq Taking(s)
    PROVE  Used(r) <= MemMax
  <1>1. Used(r) <= Used(s)
    BY UsedLess
  <1> QED BY <1>1, UsedType, ConstantsAssumption

\* A call that does not wait.
LEMMA AwaitsNone ==
    /\ \A s : Awaits(s, Idle)
    /\ \A s, c : Awaits(s, Begins("malloc", c)) /\ Awaits(s, Begins("free", c))
  BY DEF Awaits, Begins, Idle

\* What unloads idle chunks keeps the limit.
LEMMA ThinnedWithin ==
    ASSUME NEW s, Used(s) <= MemMax, NEW r, Thinned(s, r)
    PROVE  Used(r) <= MemMax /\ Holds(s, r)
  <1>1. Used(r) <= Used(s) /\ \A d \in Chunks : s.users[d] # {} => r.status[d] = s.status[d]
    BY ThinnedUsed
  <1>2. Used(r) <= MemMax
    BY <1>1, UsedType, ConstantsAssumption
  <1> QED BY <1>1, <1>2 DEF Holds

\* mmalloc keeps the limit.
LEMMA AllocateWithin ==
    ASSUME Sound(sched, call), Within(sched, call), NEW t \in Threads, NEW c \in Chunks,
           sched.status[c] = "NONE", Allocate(t, c)
    PROVE  Within(sched', call')
  <1>1. Whole(sched) /\ Size[c] \in Nat /\ Size[c] <= MemMax /\ MemMax \in Nat /\ Used(sched) <= MemMax
    BY ConstantsAssumption DEF Sound, Within
  <1>2. PICK r : r = EnsureEnoughSpace(sched, Size[c], NULL)
    OBVIOUS
  <1>3. Ring(sched) # {} \/ ~(Size[c] + Used(sched) - MemMax - ToBeFreed(sched) > 0)
    <2>1. CASE Ring(sched) = {}
      <3>1. \A d \in Chunks : sched.status[d] # "NONE" => sched.status[d] \in Away
        BY <2>1 DEF Sound
      <3> QED BY <1>1, <2>1, <3>1, EmptyRing
    <2> QED BY <2>1
  <1>4. Works(sched, r.s) /\ r.out \in {"fits", "wait", "throw"}
    BY <1>1, <1>2, <1>3, SpaceIs
  <1>5. Thinned(sched, r.s) /\ (r.out = "fits" => Fits(r.s, Size[c]))
    BY <1>1, <1>2, <1>3, SpaceThins
  <1>6. Used(r.s) <= MemMax /\ Holds(sched, r.s)
    BY <1>1, <1>5, ThinnedWithin
  <1>7. AllocateRoom(t, c, r)
    BY <1>2 DEF Allocate
  <1>8. c \notin Ring(r.s) /\ r.s.users = sched.users /\ Whole(r.s)
    BY <1>1, <1>4 DEF Works, Whole
  <1>9. CASE r.out = "wait"
    <2>1. sched' = r.s /\ call' = [call EXCEPT ![t] = Begins("malloc", c)]
      BY <1>7, <1>9 DEF AllocateRoom, Becomes
    <2>2. Awaits(r.s, Begins("malloc", c))
      BY AwaitsNone
    <2>3. Within(r.s, [call EXCEPT ![t] = Begins("malloc", c)])
      BY <1>6, <2>2, WithinStep
    <2> QED BY <2>1, <2>3
  <1>10. CASE r.out = "throw"
    <2>1. sched' = r.s /\ call' = [call EXCEPT ![t] = Idle]
      BY <1>7, <1>10 DEF AllocateRoom, Returns, Becomes
    <2>2. Awaits(r.s, Idle)
      BY AwaitsNone
    <2>3. Within(r.s, [call EXCEPT ![t] = Idle])
      BY <1>6, <2>2, WithinStep
    <2> QED BY <2>1, <2>3
  <1>11. CASE r.out = "fits"
    <2>1. PICK u : u = [r.s EXCEPT !.status[c] = "ALLOCATED"]
      OBVIOUS
    <2>2. sched' = Touch(SchedulerRegister(u, c), c) /\ call' = [call EXCEPT ![t] = Idle]
      BY <1>7, <1>11, <2>1 DEF AllocateRoom, Returns, Becomes
    <2>3. r.s \in SchedType
      BY <1>8 DEF Whole, Round, Plain
    <2>4. u \in SchedType
      BY <2>1, <2>3 DEF SchedType, Statuses
    <2>5. /\ u.next = r.s.next /\ u.prev = r.s.prev /\ u.active = r.s.active /\ u.counterActive = r.s.counterActive
          /\ u.preemptiveSwapIn = r.s.preemptiveSwapIn /\ u.preloaded = r.s.preloaded
          /\ u.preemptiveStart = r.s.preemptiveStart /\ u.preemptiveBytes = r.s.preemptiveBytes
          /\ u.status[c] = "ALLOCATED" /\ \A d \in Chunks : d # c => u.status[d] = r.s.status[d]
      BY <2>1, <2>3 DEF SchedType
    <2>6. Whole(u) /\ Ring(u) = Ring(r.s)
      <3>1. \A d \in Ring(r.s) : u.status[d] # "NONE"
        <4>1. \A d \in Ring(r.s) : d # c /\ d \in Chunks /\ r.s.status[d] # "NONE"
          BY <1>8 DEF Whole, Ring
        <4> QED BY <2>5, <4>1
      <3> QED BY <1>8, <2>4, <2>5, <3>1, WholeSame
    <2>7. PICK v : v = SchedulerRegister(u, c)
      OBVIOUS
    <2>8. Recast(u, v, Ring(u) \cup {c})
      <3>1. c \notin Ring(u) /\ u.status[c] # "NONE"
        BY <1>8, <2>5, <2>6
      <3> QED BY <2>6, <2>7, <3>1, RegisterIs
    <2>9. Whole(v) /\ c \in Ring(v) /\ v.status = u.status
      BY <2>8 DEF Recast
    <2>10. PICK w : w = Touch(v, c)
      OBVIOUS
    <2>11. w.status = u.status
      BY <2>9, <2>10, TouchIs
    <2>12. Used(w) <= Used(r.s) + Size[c]
      <3>1. Taking(w) \subseteq Taking(r.s) \cup {c}
        BY <2>5, <2>11 DEF Taking, In
      <3> QED BY <3>1, UsedMore
    <2>13. Used(w) <= MemMax
      <3>1. Size[c] + Used(r.s) <= MemMax
        BY <1>5, <1>11 DEF Fits
      <3>2. Used(w) \in Int /\ Used(r.s) \in Int
        BY UsedType
      <3> QED BY <1>1, <2>12, <3>1, <3>2
    <2>14. Holds(sched, w)
      <3>1. \A d \in Chunks : d # c => w.status[d] = r.s.status[d]
        BY <2>5, <2>11
      <3>2. w.status[c] \in Here
        BY <2>5, <2>11 DEF Here
      <3> QED BY <1>6, <3>1, <3>2 DEF Holds
    <2>15. Awaits(w, Idle)
      BY AwaitsNone
    <2>16. Within(w, [call EXCEPT ![t] = Idle])
      BY <2>13, <2>14, <2>15, WithinStep
    <2> QED BY <2>2, <2>7, <2>10, <2>16
  <1> QED BY <1>4, <1>9, <1>10, <1>11

\* A chunk that is here gets into use.
LEMMA GrantWithin ==
    ASSUME NEW s, Sound(s, call), Within(s, call), NEW t \in Threads, NEW o, o.chunk \in Ring(s),
           s.status[o.chunk] \in Here, Grant(t, s, o)
    PROVE  Within(sched', call')
  <1>1. PICK c : c = o.chunk
    OBVIOUS
  <1>2. c \in Chunks /\ c \in Ring(s)
    BY <1>1 DEF Ring
  <1>3. PICK p : p = IF o.write THEN s.copies \ {c} ELSE s.copies
    OBVIOUS
  <1>4. s \in SchedType /\ Whole(s)
    BY DEF Sound, Whole, Round, Plain
  <1>5. p \in SUBSET Chunks
    BY <1>3, <1>4 DEF SchedType
  <1>6. PICK u : u = [s EXCEPT !.status[c] = "INUSE", !.copies = p]
    OBVIOUS
  <1>7. sched' = Touch(u, c) /\ call' = [call EXCEPT ![t] = Idle]
    <2>1. u = [s EXCEPT !.status[o.chunk] = "INUSE", !.copies = IF o.write THEN @ \ {o.chunk} ELSE @]
      BY <1>1, <1>3, <1>4, <1>6 DEF SchedType
    <2> QED BY <1>1, <2>1 DEF Grant, Returns, Becomes
  <1>8. u \in SchedType
    BY <1>4, <1>5, <1>6 DEF SchedType, Statuses
  <1>9. /\ u.next = s.next /\ u.prev = s.prev /\ u.active = s.active /\ u.counterActive = s.counterActive
        /\ u.preemptiveSwapIn = s.preemptiveSwapIn /\ u.preloaded = s.preloaded
        /\ u.preemptiveStart = s.preemptiveStart /\ u.preemptiveBytes = s.preemptiveBytes
        /\ u.status[c] = "INUSE" /\ \A d \in Chunks : d # c => u.status[d] = s.status[d]
    BY <1>2, <1>4, <1>6 DEF SchedType
  <1>10. Whole(u) /\ c \in Ring(u)
    <2>1. \A d \in Ring(s) : u.status[d] # "NONE"
      BY <1>4, <1>9 DEF Whole, Ring
    <2> QED BY <1>2, <1>4, <1>8, <1>9, <2>1, WholeSame
  <1>11. PICK w : w = Touch(u, c)
    OBVIOUS
  <1>12. w.status = u.status
    BY <1>10, <1>11, TouchIs
  <1>13. Used(w) <= MemMax
    <2>1. Taking(w) \subseteq Taking(s)
      BY <1>1, <1>9, <1>12 DEF Taking, In, Here
    <2> QED BY <2>1, UsedWithin DEF Within
  <1>14. Holds(s, w)
    <2>1. w.status[c] \in Here /\ \A d \in Chunks : d # c => w.status[d] = s.status[d]
      BY <1>9, <1>12 DEF Here
    <2> QED BY <2>1 DEF Holds
  <1>15. Awaits(w, Idle)
    BY AwaitsNone
  <1>16. Within(w, [call EXCEPT ![t] = Idle])
    BY <1>13, <1>14, <1>15, WithinStep
  <1> QED BY <1>7, <1>11, <1>16

\* swapIn of the chunk of a call.
LEMMA SwapInWithin ==
    ASSUME NEW s, Sound(s, call), Within(s, call), NEW t \in Threads, NEW o \in CallType,
           o.chunk \in Ring(s), NEW p, p = SwapIn(s, o) \/ (p = SwapInWith(s, o) /\ o.need = Size[o.chunk]),
           Becomes(t, p)
    PROVE  Within(sched', call')
  <1>1. Whole(s) /\ Used(s) <= MemMax
    BY DEF Sound, Within
  <1>2. Used(p.s) <= MemMax /\ Holds(s, p.s) /\ Awaits(p.s, p.o)
    BY <1>1, SwapInFills, SwapInWithFills
  <1>3. Within(p.s, [call EXCEPT ![t] = p.o])
    BY <1>2, WithinStep
  <1> QED BY <1>3 DEF Becomes

\* setUse keeps the limit.
LEMMA SetUseWithin ==
    ASSUME Sound(sched, call), Within(sched, call), NEW t \in Threads, NEW c \in Chunks,
           NEW write \in BOOLEAN, SetUse(t, c, write)
    PROVE  Within(sched', call')
  <1>1. PICK s, o, p : Begun(s, o, p, t, c)
    BY SetUseIs
  <1>2. /\ Sound(s, call) /\ c \in Ring(s)
        /\ s.status = sched.status /\ \A d \in Chunks : sched.users[d] \subseteq s.users[d]
        /\ o \in CallType /\ o.chunk = c /\ o.at = "waitIn" /\ p.at = "waitOut"
    BY <1>1 DEF Begun
  <1>3. Within(s, call)
    BY <1>2 DEF Within, Used, In
  <1>4. Used(s) <= MemMax /\ Holds(s, s)
    BY <1>3 DEF Within, Holds
  <1>5. CASE s.status[c] \in {"ALLOCATED", "INUSE"} /\ Grant(t, s, o)
    <2>1. s.status[o.chunk] \in Here /\ o.chunk \in Ring(s)
      BY <1>2, <1>5 DEF Here
    <2> QED BY <1>2, <1>3, <1>5, <2>1, GrantWithin
  <1>6. CASE s.status[c] = "SWAPIN" /\ Becomes(t, [s |-> s, o |-> o])
    <2>1. sched' = s /\ call' = [call EXCEPT ![t] = o]
      BY <1>6 DEF Becomes
    <2>2. Awaits(s, o)
      BY <1>2, <1>6 DEF Awaits, Here
    <2>3. Within(s, [call EXCEPT ![t] = o])
      BY <1>2, <1>3, <1>4, <2>2, WithinStep
    <2> QED BY <2>1, <2>3
  <1>7. CASE Becomes(t, [s |-> s, o |-> p])
    <2>1. sched' = s /\ call' = [call EXCEPT ![t] = p]
      BY <1>7 DEF Becomes
    <2>2. Awaits(s, p)
      BY <1>2 DEF Awaits
    <2>3. Within(s, [call EXCEPT ![t] = p])
      BY <1>2, <1>3, <1>4, <2>2, WithinStep
    <2> QED BY <2>1, <2>3
  <1>8. CASE Becomes(t, SwapIn(s, o))
    <2>1. o.chunk \in Ring(s)
      BY <1>2
    <2> QED BY <1>2, <1>3, <1>8, <2>1, SwapInWithin
  <1> QED BY <1>1, <1>5, <1>6, <1>7, <1>8 DEF Begun

\* unsetUse keeps the limit.
LEMMA UnsetUseWithin ==
    ASSUME Sound(sched, call), Within(sched, call), NEW t \in Threads, NEW c \in Chunks, UnsetUse(t, c)
    PROVE  Within(sched', call')
  <1>1. PICK s, e : GivenBack(s, e, t)
    BY UnsetUseIs
  <1>2. /\ sched' = Untouch(s) /\ call' = e /\ e = [e EXCEPT ![t] = Idle] /\ e = [call EXCEPT ![t] = Idle]
        /\ Sound(s, e) /\ Whole(s) /\ Ring(s) # {}
        /\ \A d \in Chunks : s.status[d] = sched.status[d] \/ (sched.status[d] = "INUSE" /\ s.status[d] = "ALLOCATED")
    BY <1>1 DEF GivenBack, Sound
  <1>3. Within(s, e)
    <2>1. Taking(s) \subseteq Taking(sched)
      BY <1>2 DEF Taking, In
    <2>2. Used(s) <= MemMax
      BY <2>1, UsedWithin DEF Within
    <2>3. Holds(sched, s)
      BY <1>2 DEF Holds, Here
    <2>4. Awaits(s, Idle)
      BY AwaitsNone
    <2>5. Within(s, [call EXCEPT ![t] = Idle])
      BY <2>2, <2>3, <2>4, WithinStep
    <2> QED BY <1>2, <2>5
  <1>4. Thinned(s, Untouch(s))
    <2>1. Untouch(s) = s \/ \E n : Untouch(s) = SwapOut(s, n).s
      BY DEF Untouch
    <2>2. Thinned(s, s)
      BY DEF Thinned
    <2> QED BY <1>2, <2>1, <2>2, SwapOutThinned
  <1>5. Used(Untouch(s)) <= MemMax /\ Holds(s, Untouch(s))
    <2>1. Used(s) <= MemMax
      BY <1>3 DEF Within
    <2> QED BY <1>4, <2>1, ThinnedWithin
  <1>6. Within(Untouch(s), e)
    BY <1>2, <1>3, <1>5, WithinSame
  <1> QED BY <1>2, <1>6

\* A chunk that is given up takes no memory any more.
LEMMA DroppedWithin ==
    ASSUME NEW s, NEW c \in Chunks, s \in SchedType, Used(s) <= MemMax, s.users[c] = {}
    PROVE  Used(Dropped(s, c)) <= MemMax /\ Holds(s, Dropped(s, c))
  <1>1. PICK r : r = Dropped(s, c)
    OBVIOUS
  <1>2. r.status[c] = "NONE" /\ \A d \in Chunks \ {c} : r.status[d] = s.status[d]
    BY <1>1 DEF Dropped, SchedType
  <1>3. Taking(r) \subseteq Taking(s)
    BY <1>2 DEF Taking, In
  <1>4. Used(r) <= MemMax
    BY <1>3, UsedWithin
  <1>5. Holds(s, r)
    BY <1>2 DEF Holds
  <1> QED BY <1>1, <1>4, <1>5

\* mfree keeps the limit.
LEMMA MfreeWithin ==
    ASSUME Sound(sched, call), Within(sched, call), NEW t \in Threads, NEW c \in Chunks, Mfree(t, c)
    PROVE  Within(sched', call')
  <1>1. c \in Ring(sched) /\ sched.users[c] = {} /\ Whole(sched) /\ Used(sched) <= MemMax
    BY DEF Mfree, Sound, Within
  <1>2. PICK s : s = SchedulerDelete(sched, c)
    OBVIOUS
  <1>3. s \in SchedType /\ s.status = sched.status /\ s.users = sched.users
    <2>1. Recast(sched, s, Ring(sched) \ {c})
      BY <1>1, <1>2, DeleteIs
    <2> QED BY <2>1 DEF Recast, Whole, Round, Plain
  <1>4. Used(s) <= MemMax
    BY <1>1, <1>3 DEF Used, In
  <1>5. CASE sched.status[c] = "SWAPOUT"
    <2>1. sched' = s /\ call' = [call EXCEPT ![t] = Begins("free", c)]
      BY <1>2, <1>5 DEF Mfree, Becomes
    <2>2. Holds(sched, s)
      BY <1>3 DEF Holds
    <2>3. Awaits(s, Begins("free", c))
      BY AwaitsNone
    <2>4. Within(s, [call EXCEPT ![t] = Begins("free", c)])
      BY <1>4, <2>2, <2>3, WithinStep
    <2> QED BY <2>1, <2>4
  <1>6. CASE sched.status[c] # "SWAPOUT"
    <2>1. sched' = Dropped(s, c) /\ call' = [call EXCEPT ![t] = Idle]
      BY <1>2, <1>6 DEF Mfree, Returns, Becomes, Dropped
    <2>2. PICK r : r = Dropped(s, c)
      OBVIOUS
    <2>3. Used(r) <= MemMax /\ Holds(s, r)
      BY <1>1, <1>3, <1>4, <2>2, DroppedWithin
    <2>4. Holds(sched, r)
      BY <1>3, <2>3 DEF Holds
    <2>5. Awaits(r, Idle)
      BY AwaitsNone
    <2>6. Within(r, [call EXCEPT ![t] = Idle])
      BY <2>3, <2>4, <2>5, WithinStep
    <2> QED BY <2>1, <2>2, <2>6
  <1> QED BY <1>5, <1>6

\* mfree that waited keeps the limit.
LEMMA MfreeDoneWithin ==
    ASSUME Sound(sched, call), Within(sched, call), NEW t \in Threads, MfreeDone(t)
    PROVE  Within(sched', call')
  <1>1. PICK c : c = call[t].chunk
    OBVIOUS
  <1>2. call[t].at = "free" /\ sched' = Dropped(sched, c) /\ call' = [call EXCEPT ![t] = Idle]
    BY <1>1 DEF MfreeDone, Returns, Becomes, Dropped
  <1>3. c \in Chunks \ Ring(sched) /\ sched.users[c] = {} /\ sched \in SchedType /\ Used(sched) <= MemMax
    BY <1>1, <1>2 DEF Sound, Placed, Whole, Round, Plain, Within
  <1>4. PICK r : r = Dropped(sched, c)
    OBVIOUS
  <1>5. Used(r) <= MemMax /\ Holds(sched, r)
    BY <1>3, <1>4, DroppedWithin
  <1>6. Awaits(r, Idle)
    BY AwaitsNone
  <1>7. Within(r, [call EXCEPT ![t] = Idle])
    BY <1>5, <1>6, WithinStep
  <1> QED BY <1>2, <1>4, <1>7

\* A transfer that arrives keeps the limit.
LEMMA ArriveWithin ==
    ASSUME Sound(sched, call), Within(sched, call), NEW c \in Chunks, Arrive(c)
    PROVE  Within(sched', call')
  <1>1. sched \in SchedType
    BY DEF Sound, Whole, Round, Plain
  <1>2. PICK g \in {"ALLOCATED", "SWAPPED"} :
          /\ sched' = [sched EXCEPT !.status[c] = g]
          /\ IF g = "ALLOCATED" THEN sched.status[c] = "SWAPIN" ELSE sched.status[c] = "SWAPOUT"
    BY DEF Arrive
  <1>3. PICK r : r = [sched EXCEPT !.status[c] = g]
    OBVIOUS
  <1>4. r.status[c] = g /\ \A d \in Chunks : d # c => r.status[d] = sched.status[d]
    BY <1>1, <1>3 DEF SchedType
  <1>5. Used(r) <= MemMax
    <2>1. Taking(r) \subseteq Taking(sched)
      BY <1>2, <1>4 DEF Taking, In
    <2> QED BY <2>1, UsedWithin DEF Within
  <1>6. Holds(sched, r)
    BY <1>2, <1>4 DEF Holds, Here
  <1>7. Within(r, call)
    BY <1>5, <1>6, WithinSame
  <1>8. call' = call
    BY DEF Arrive
  <1> QED BY <1>2, <1>3, <1>7, <1>8

\* Every step keeps the limit.
LEMMA WithinNext ==
    ASSUME Sound(sched, call), Within(sched, call), [Next]_vars
    PROVE  Within(sched', call')
  <1>1. ASSUME NEW t \in Threads, MmallocAgain(t)
        PROVE  Within(sched', call')
    <2>1. PICK c : c = call[t].chunk
      OBVIOUS
    <2>2. call[t].at = "malloc" /\ Allocate(t, c)
      BY <1>1, <2>1 DEF MmallocAgain
    <2>3. c \in Chunks /\ sched.status[c] = "NONE"
      BY <2>1, <2>2 DEF Sound, Placed
    <2> QED BY <2>2, <2>3, AllocateWithin
  <1>2. ASSUME NEW t \in Threads, SwappedIn(t)
        PROVE  Within(sched', call')
    <2>1. call[t].at = "waitIn" /\ Grant(t, sched, call[t])
      BY <1>2 DEF SwappedIn
    <2>2. call[t].chunk \in Ring(sched)
      BY <2>1 DEF Sound, Placed
    <2>3. sched.status[call[t].chunk] \in Here
      BY <2>1 DEF Within
    <2> QED BY <2>1, <2>2, <2>3, GrantWithin
  <1>3. ASSUME NEW t \in Threads, SwappedOut(t)
        PROVE  Within(sched', call')
    <2>1. PICK o : o = call[t]
      OBVIOUS
    <2>2. o \in CallType /\ o.at = "waitOut" /\ o.chunk \in Ring(sched) /\ o.chunk \in Chunks
          /\ sched \in SchedType /\ Whole(sched)
      BY <1>3, <2>1 DEF SwappedOut, Sound, Placed, Whole, Round, Plain
    <2>3. CASE sched.status[o.chunk] = "SWAPPED"
      <3>1. Becomes(t, SwapIn(sched, o))
        BY <1>3, <2>1, <2>3 DEF SwappedOut
      <3> QED BY <2>2, <3>1, SwapInWithin
    <2>4. CASE sched.status[o.chunk] # "SWAPPED"
      <3>1. PICK p : p = [o EXCEPT !.at = "waitIn"]
        OBVIOUS
      <3>2. sched' = sched /\ call' = [call EXCEPT ![t] = p] /\ sched.status[o.chunk] # "SWAPOUT"
        BY <1>3, <2>1, <2>4, <3>1 DEF SwappedOut, Becomes
      <3>3. p.at = "waitIn" /\ p.chunk = o.chunk
        BY <2>2, <3>1 DEF CallType
      <3>4. sched.status[o.chunk] \in Here
        <4>1. sched.status[o.chunk] \in Statuses /\ sched.status[o.chunk] # "NONE"
          BY <2>2 DEF SchedType, Whole
        <4> QED BY <2>4, <3>2, <4>1 DEF Statuses, Here
      <3>5. Awaits(sched, p)
        BY <3>3, <3>4 DEF Awaits
      <3>6. Used(sched) <= MemMax /\ Holds(sched, sched)
        BY DEF Within, Holds
      <3>7. Within(sched, [call EXCEPT ![t] = p])
        BY <3>5, <3>6, WithinStep
      <3> QED BY <3>2, <3>7
    <2> QED BY <2>3, <2>4
  <1>4. ASSUME NEW t \in Threads, RoomAgain(t)
        PROVE  Within(sched', call')
    <2>1. PICK o : o = call[t]
      OBVIOUS
    <2>2. o \in CallType /\ o.at = "room" /\ o.chunk \in Ring(sched)
      BY <1>4, <2>1 DEF RoomAgain, Sound, Placed
    <2>3. o.need = Size[o.chunk]
      BY <2>1, <2>2 DEF Within
    <2>4. Becomes(t, SwapInWith(sched, o))
      BY <1>4, <2>1 DEF RoomAgain
    <2> QED BY <2>2, <2>3, <2>4, SwapInWithin
  <1>5. ASSUME NEW t \in Threads, NEW c \in Chunks, Mmalloc(t, c)
        PROVE  Within(sched', call')
    <2>1. sched.status[c] = "NONE" /\ Allocate(t, c)
      BY <1>5 DEF Mmalloc
    <2> QED BY <2>1, AllocateWithin
  <1>6. CASE UNCHANGED vars
    BY <1>6 DEF vars
  <1>7. CASE Next
    <2>1. \/ \E t \in Threads : MmallocAgain(t) \/ SwappedIn(t) \/ SwappedOut(t) \/ RoomAgain(t) \/ MfreeDone(t)
          \/ \E t \in Threads, c \in Chunks : Mmalloc(t, c) \/ UnsetUse(t, c) \/ Mfree(t, c)
          \/ \E t \in Threads, c \in Chunks, write \in BOOLEAN : SetUse(t, c, write)
          \/ \E c \in Chunks : Arrive(c)
      BY <1>7 DEF Next
    <2> QED BY <1>1, <1>2, <1>3, <1>4, <1>5, <2>1, MfreeDoneWithin, UnsetUseWithin, MfreeWithin, SetUseWithin, ArriveWithin
  <1> QED BY <1>6, <1>7

\* Without guesses the chunks in memory never take more than memory_max.
THEOREM WithinAlways == Spec /\ ~sched.preemptiveSwapIn => []Within(sched, call)
  <1>1. Init => Within(sched, call)
    <2> SUFFICES ASSUME Init
                 PROVE  Within(sched, call)
      OBVIOUS
    <2>1. PICK m \in Modes : sched.status = [c \in Chunks |-> "NONE"]
      BY DEF Init
    <2>2. Taking(sched) = {}
      BY <2>1 DEF Taking, In
    <2>3. Used(sched) = 0
      BY <2>2, BytesNone DEF Used, Taking
    <2>4. \A t \in Threads : call[t].at = "idle"
      BY DEF Init, Idle
    <2> QED BY <2>3, <2>4, ConstantsAssumption DEF Within
  <1>2. Sound(sched, call) /\ Within(sched, call) /\ [Next]_vars => Within(sched, call)'
    BY WithinNext
  <1> QED BY <1>1, <1>2, SoundAlways, PTL DEF Spec

-----------------------------------------------------------------------------
(* swapOut misses no candidate *)

\* There is room in the page file for what is in memory, next to bytes that memory_max allows.
LEMMA FileHasRoom ==
    ASSUME NEW s, NEW c \in Chunks, s.status[c] = "ALLOCATED", NEW b \in Nat, b <= MemMax
    PROVE  b + Size[c] <= SwapFree(s)
  <1>1. PICK S : S = In(s, {"SWAPPED", "SWAPIN", "SWAPOUT"}) /\ S \in SUBSET Chunks /\ c \in Chunks \ S
    BY DEF In
  <1>2. Size[c] <= Bytes(Chunks \ S)
    <2>1. Chunks \ S \in SUBSET Chunks
      OBVIOUS
    <2> QED BY <1>1, <2>1, BytesPart
  <1>3. Bytes(Chunks \ S) = Bytes(Chunks) - Bytes(S)
    <2>1. Chunks \in SUBSET Chunks
      OBVIOUS
    <2> QED BY <1>1, <2>1, BytesPart
  <1>4. Bytes(Chunks) \in Nat /\ Bytes(S) \in Nat /\ Size[c] \in Nat
    BY <1>1, BytesType, ConstantsAssumption
  <1>5. SwapFree(s) = SwapSize - Bytes(S)
    BY <1>1 DEF SwapFree
  <1>6. SwapSize \in Nat /\ MemMax \in Nat /\ SwapSize >= MemMax + Bytes(Chunks)
    BY ConstantsAssumption
  <1> QED BY <1>2, <1>3, <1>4, <1>5, <1>6

\* swapOut is after as much as it is asked for, or more.
LEMMA GoalIs ==
    ASSUME NEW s, NEW n \in Int
    PROVE  Goal(s, n) >= n /\ Goal(s, n) \in Int
  <1>1. Used(s) \in Int /\ AllocMax \in Int
    BY UsedType, ConstantsAssumption DEF AllocMax
  <1>2. PICK over : over = Used(s) - AllocMax /\ over \in Int
    BY <1>1
  <1>3. Goal(s, n) = IF (IF over < n THEN n ELSE over) > SwapFree(s) THEN n ELSE IF over < n THEN n ELSE over
    BY <1>2 DEF Goal
  <1> QED BY <1>2, <1>3

\* The candidates among the first i elements of the walk.
Met(s, w, i) == {c \in Ring(s) : Candidate(s, c) /\ \E j \in 1..i : w[j] = c}

\* While it has less than it is asked for, swapOut has taken every candidate that it has met.
LEMMA VictimsMiss ==
    ASSUME NEW s, Circle(s), Ring(s) # {}, NEW n \in Nat, n <= MemMax, NEW k, k = Cardinality(memChunks(s)),
           Victims(s, n).bytes < n
    PROVE  Bytes(Met(s, Backward(s), k)) <= Victims(s, n).bytes
  <1>1. k \in Nat /\ DOMAIN Backward(s) = 1..k /\ \A i \in 1..k : Backward(s)[i] \in Ring(s)
    BY BackwardIs
  <1>2. PICK w, want : w = Backward(s) /\ want = Goal(s, n)
    OBVIOUS
  <1>3. want \in Int /\ want >= n /\ MemMax \in Nat
    BY <1>2, GoalIs, ConstantsAssumption
  <1> DEFINE base == [bytes |-> 0, list |-> <<>>, passed |-> 0, last |-> 0]
  <1>4. PICK h : Course(h, "victims", [s |-> s, want |-> want], base, w, k) /\ h[k] = Victims(s, n)
    BY <1>1, <1>2, VictimsWalk DEF Arrives
  <1>5. h[0] = base /\ \A i \in 1..k : h[i] = VictimStep(s, want, h[i - 1], w[i])
    BY <1>4 DEF Course, LoopStep
  <1> DEFINE G == {i \in Nat : i <= k => /\ h[i].bytes \in Nat
                                         /\ "bytes" \in DOMAIN h[i]
                                         /\ h[i].bytes < n => Bytes(Met(s, w, i)) <= h[i].bytes}
  <1>6. 0 \in G
    <2>1. Met(s, w, 0) = {}
      BY DEF Met
    <2>2. Bytes(Met(s, w, 0)) = 0
      BY <2>1, BytesNone
    <2> QED BY <1>5, <2>2
  <1>7. ASSUME NEW i \in Nat, i \in G PROVE i + 1 \in G
    <2>1. SUFFICES ASSUME i + 1 <= k
                   PROVE  /\ h[i + 1].bytes \in Nat
                          /\ "bytes" \in DOMAIN h[i + 1]
                          /\ h[i + 1].bytes < n => Bytes(Met(s, w, i + 1)) <= h[i + 1].bytes
      OBVIOUS
    <2>2. i + 1 \in 1..k /\ (i + 1) - 1 = i /\ i <= k
      BY <1>1, <2>1
    <2>3. PICK a, c : a = h[i] /\ c = w[i + 1] /\ c \in Ring(s) /\ c \in Chunks
      BY <1>1, <1>2, <2>2 DEF Ring
    <2>4. /\ a.bytes \in Nat /\ "bytes" \in DOMAIN a
          /\ a.bytes < n => Bytes(Met(s, w, i)) <= a.bytes
      BY <1>7, <2>2, <2>3
    <2>5. PICK b : b = VictimStep(s, want, a, c) /\ h[i + 1] = b
      BY <1>5, <2>2, <2>3
    <2>6. Size[c] \in Nat
      BY <2>3, ConstantsAssumption
    <2>7. Met(s, w, i) \in SUBSET Chunks
      BY DEF Met, Ring
    <2>8. CASE a.bytes >= want
      <3>1. b = a
        BY <2>5, <2>8 DEF VictimStep
      <3>2. ~(a.bytes < n)
        BY <1>3, <2>4, <2>8
      <3> QED BY <2>4, <2>5, <3>1, <3>2
    <2>9. CASE ~(a.bytes >= want) /\ Candidate(s, c) /\ a.bytes + Size[c] <= SwapFree(s)
      <3>1. b = [bytes |-> a.bytes + Size[c], list |-> Append(a.list, c),
                 passed |-> a.passed + 1, last |-> a.passed + 1]
        BY <2>5, <2>9 DEF VictimStep
      <3>2. b.bytes = a.bytes + Size[c] /\ b.bytes \in Nat /\ "bytes" \in DOMAIN b
        BY <2>4, <2>6, <3>1
      <3>3. Met(s, w, i + 1) \in SUBSET (Met(s, w, i) \cup {c})
        <4>1. \A j \in 1..(i + 1) : j \in 1..i \/ j = i + 1
          OBVIOUS
        <4> QED BY <2>3, <4>1 DEF Met
      <3>4. ASSUME b.bytes < n
            PROVE  Bytes(Met(s, w, i + 1)) <= b.bytes
        <4>1. Bytes(Met(s, w, i)) <= a.bytes
          BY <2>4, <2>6, <3>2, <3>4
        <4>2. Met(s, w, i) \cup {c} \in SUBSET Chunks /\ Met(s, w, i + 1) \in SUBSET Chunks
          BY <2>3, <2>7, <3>3
        <4>3. Bytes(Met(s, w, i) \cup {c}) <= Bytes(Met(s, w, i)) + Size[c]
          BY <2>3, <2>7, BytesPart
        <4>4. Bytes(Met(s, w, i + 1)) <= Bytes(Met(s, w, i) \cup {c})
          BY <3>3, <4>2, BytesPart
        <4>5. Bytes(Met(s, w, i)) \in Nat /\ Bytes(Met(s, w, i) \cup {c}) \in Nat /\ Bytes(Met(s, w, i + 1)) \in Nat
          BY <2>7, <4>2, BytesType
        <4> QED BY <2>4, <2>6, <3>2, <4>1, <4>3, <4>4, <4>5
      <3> QED BY <2>5, <3>2, <3>4
    <2>10. CASE ~(a.bytes >= want) /\ ~(Candidate(s, c) /\ a.bytes + Size[c] <= SwapFree(s))
      <3>1. b = [a EXCEPT !.passed = @ + 1]
        BY <2>5, <2>10 DEF VictimStep
      <3>2. b.bytes = a.bytes /\ "bytes" \in DOMAIN b
        BY <2>4, <3>1
      <3>3. ASSUME b.bytes < n
            PROVE  Bytes(Met(s, w, i + 1)) <= b.bytes
        <4>1. a.bytes <= MemMax
          BY <1>3, <2>4, <3>2, <3>3
        <4>2. ~Candidate(s, c)
          <5>1. Candidate(s, c) => a.bytes + Size[c] <= SwapFree(s)
            BY <2>3, <2>4, <4>1, FileHasRoom DEF Candidate
          <5> QED BY <2>10, <5>1
        <4>3. Met(s, w, i + 1) = Met(s, w, i)
          <5>1. \A j \in 1..(i + 1) : j \in 1..i \/ j = i + 1
            OBVIOUS
          <5>2. \A j \in 1..i : j \in 1..(i + 1)
            OBVIOUS
          <5> QED BY <2>3, <4>2, <5>1, <5>2 DEF Met
        <4>4. Bytes(Met(s, w, i)) <= a.bytes
          BY <2>4, <3>2, <3>3
        <4>5. Bytes(Met(s, w, i + 1)) = Bytes(Met(s, w, i))
          BY <4>3
        <4> QED BY <3>2, <4>4, <4>5
      <3> QED BY <2>4, <2>5, <3>2, <3>3
    <2> QED BY <2>8, <2>9, <2>10
  <1>8. k \in G
    <2> HIDE DEF G
    <2> QED BY <1>1, <1>6, <1>7, NumberInduction
  <1> QED BY <1>1, <1>2, <1>4, <1>8

\* The walk meets the whole ring.
LEMMA MetAll ==
    ASSUME NEW s, Circle(s), \A c \in Ring(s) : s.status[c] # "NONE", Ring(s) # {}, NEW k, k = Cardinality(memChunks(s))
    PROVE  Met(s, Backward(s), k) = {c \in Ring(s) : Candidate(s, c)}
  <1>1. /\ OneRing(s.next, s.prev, Ring(s)) /\ s.counterActive \in Ring(s) /\ k \in Nat
        /\ Ring(s) \in SUBSET memChunks(s) /\ Ring(s) \in SUBSET Chunks /\ memChunks(s) \in SUBSET Chunks
    BY CountIs DEF Circle, memChunks, Ring, In
  <1>2. OneRing(s.prev, s.next, Ring(s))
    BY <1>1, RingBack
  <1>3. IsFiniteSet(memChunks(s)) /\ IsFiniteSet(Ring(s)) /\ Cardinality(Ring(s)) \in Nat
    BY <1>1, ConstantsAssumption, FS_Subset, FS_CardinalityType
  <1>4. k >= Cardinality(Ring(s))
    <2>1. Cardinality(Ring(s)) <= Cardinality(memChunks(s))
      BY <1>1, <1>3, FS_Subset
    <2> QED BY <1>1, <1>3, <2>1
  <1>5. Backward(s) = Walk(s.prev, s.counterActive, k)
    BY DEF Backward
  <1>6. \A c \in Ring(s) : \E j \in 1..Cardinality(Ring(s)) : Backward(s)[j] = c
    BY <1>1, <1>2, <1>3, <1>4, <1>5, WalkCovers
  <1>7. \A j \in 1..Cardinality(Ring(s)) : j \in 1..k
    BY <1>1, <1>3, <1>4
  <1>8. \A c \in Ring(s) : \E j \in 1..k : Backward(s)[j] = c
    BY <1>6, <1>7
  <1> QED BY <1>8 DEF Met

\* An allocation, in any state without guesses and for any sizes, fails only if unloading all
\* that nobody uses could not make room: swapOut looks at every chunk of the ring and leaves
\* out no candidate while it needs more.
THEOREM RingEvictsAllItCan == Spec /\ ~sched.preemptiveSwapIn => []EvictsAllItCan
  <1>1. Sound(sched, call) /\ Within(sched, call) => EvictsAllItCan
    <2> SUFFICES ASSUME Sound(sched, call), Within(sched, call), NEW c \in In(sched, {"NONE"}),
                        EnsureEnoughSpace(sched, Size[c], NULL).out = "throw"
                 PROVE  Used(sched) - Bytes({d \in Ring(sched) : Candidate(sched, d)}) + Size[c] > MemMax
      BY DEF EvictsAllItCan
    <2>1. PICK s, n : s = sched /\ n = Size[c]
      OBVIOUS
    <2>2. n \in Nat /\ n <= MemMax /\ MemMax \in Nat /\ c \in Chunks
      <3>1. c \in Chunks
        BY DEF In
      <3> QED BY <2>1, <3>1, ConstantsAssumption
    <2>3. Whole(s) /\ Used(s) <= MemMax /\ Used(s) \in Int
      BY <2>1, UsedType DEF Sound, Within
    <2>4. PICK missing : missing = n + Used(s) - MemMax - ToBeFreed(s)
      OBVIOUS
    <2>5. ToBeFreed(s) \in Nat
      <3>1. In(s, {"SWAPOUT"}) \in SUBSET Chunks
        BY DEF In
      <3> QED BY <3>1, BytesType DEF ToBeFreed
    <2>6. missing \in Int /\ missing <= n + Used(s) - MemMax /\ missing <= MemMax
      BY <2>2, <2>3, <2>4, <2>5
    <2>7. PICK o : o = IF missing > 0 THEN SwapOut(s, missing) ELSE [s |-> s, ok |-> TRUE]
      OBVIOUS
    <2>8. ~Fits(s, n) /\ EnsureEnoughSpace(s, n, NULL) = RoomAfter(n, o)
      <3>1. ~Fits(s, n)
        BY <2>1 DEF EnsureEnoughSpace
      <3> QED BY <2>4, <2>7, <3>1 DEF EnsureEnoughSpace
    <2>9. ~o.ok
      BY <2>1, <2>8 DEF RoomAfter
    <2>10. missing > 0 /\ o = SwapOut(s, missing)
      BY <2>7, <2>9
    <2>11. Ring(s) # {}
      <3>1. \A d \in Chunks \ Ring(s) : s.status[d] # "NONE" => s.status[d] \in Away
        BY <2>1 DEF Sound
      <3>2. Ring(s) = {} => ~(missing > 0)
        BY <2>2, <2>3, <2>4, <3>1, EmptyRing
      <3> QED BY <2>10, <3>2
    <2>12. missing \in Nat
      BY <2>6, <2>10
    <2>13. PICK v : v = Victims(s, missing)
      OBVIOUS
    <2>14. o = SwapOutList(s, missing, v)
      <3>1. ~(missing > MemMax)
        BY <2>2, <2>6
      <3> QED BY <2>10, <2>13, <3>1 DEF SwapOut
    <2>15. PICK k : k = Cardinality(memChunks(s))
      OBVIOUS
    <2>16. Circle(s) /\ \A d \in Ring(s) : s.status[d] # "NONE"
      BY <2>3, RoundIsCircle DEF Whole
    <2>17. Chosen(s, Backward(s), Goal(s, missing), v, k)
      BY <2>11, <2>13, <2>15, <2>16, VictimsAre
    <2>18. v.bytes < missing /\ v.bytes \in Nat
      <3>1. v.bytes \in Nat /\ (v.list = <<>> => v.bytes = 0)
        BY <2>17 DEF Chosen
      <3>2. CASE v.list = <<>>
        BY <2>10, <3>1, <3>2
      <3>3. CASE v.list # <<>>
        <4>1. o.ok = (v.bytes >= missing)
          BY <2>14, <3>3 DEF SwapOutList
        <4>2. ~(v.bytes >= missing)
          BY <2>9, <4>1, Zenon
        <4> QED BY <2>6, <3>1, <4>2
      <3> QED BY <3>2, <3>3
    <2>19. Bytes({d \in Ring(s) : Candidate(s, d)}) <= v.bytes
      <3>1. Bytes(Met(s, Backward(s), k)) <= v.bytes
        BY <2>2, <2>6, <2>11, <2>12, <2>13, <2>15, <2>16, <2>18, VictimsMiss
      <3>2. Met(s, Backward(s), k) = {d \in Ring(s) : Candidate(s, d)}
        BY <2>11, <2>15, <2>16, MetAll
      <3> QED BY <3>1, <3>2
    <2>20. Bytes({d \in Ring(s) : Candidate(s, d)}) \in Nat
      <3>1. {d \in Ring(s) : Candidate(s, d)} \in SUBSET Chunks
        BY DEF Ring
      <3> QED BY <3>1, BytesType
    <2>21. Used(s) - Bytes({d \in Ring(s) : Candidate(s, d)}) + n > MemMax
      BY <2>2, <2>3, <2>6, <2>18, <2>19, <2>20
    <2> QED BY <2>1, <2>21
  <1> QED BY <1>1, SoundAlways, WithinAlways, PTL

-----------------------------------------------------------------------------
(* The order of the ring *)

\* From active, a, to counterActive, b, along next nx there are only chunks of A: from each of
\* them but the border one comes to another.
Together(nx, A, a, b) == IF A = {} THEN b = a ELSE a \in A /\ b \in A /\ \A c \in A \ {b} : nx[c] \in A

\* The chunks of V are among those from from to counterActive.
Covered(s, R, from, V) ==
    \A m \in Nat \ {0} : \A C : Stretch(s.next, R, C, m) /\ C[1] = from /\ C[m] = s.counterActive => V \subseteq Part(C, m)

\* GatherAway, which has taken V out of the chunks A that were in memory, leaves the others
\* together before the border.
LEMMA JoinsShrinks ==
    ASSUME NEW s \in SchedType, NEW R, R = Ring(s), OneRing(s.next, s.prev, R), s.active \in R,
           NEW from, NEW r, Joins(s, r, R, from), NEW A \in SUBSET R, NEW V \in SUBSET A, from \in V,
           s.counterActive \in A, \A c \in A \ {s.counterActive} : s.next[c] \in A,
           \A c \in A : s.status[c] \in Away <=> c \in V, Covered(s, R, from, V), A \ V # {}
    PROVE  r.counterActive \in A \ V /\ \A c \in (A \ V) \ {r.counterActive} : r.next[c] \in A \ V
  <1>1. PICK m, C, sep, l, kept, k, v, before, after : JoinsAt(s, r, R, from, m, C, sep, l, kept, k, v, before, after)
    BY DEF Joins
  <1>2. /\ m \in Nat \ {0} /\ Stretch(s.next, R, C, m) /\ C[1] = from /\ C[m] = s.counterActive
        /\ Sorted(s, C, m, Away, sep, l, kept, k, v) /\ l > 0
        /\ before \in R /\ after \in R /\ before = s.prev[C[1]] /\ after = s.next[C[m]]
        /\ Joined(s, r, C, m, sep, l, kept, k, before, after)
        /\ r.counterActive = IF k > 0 THEN kept[k] ELSE IF after # C[1] THEN before ELSE s.active
        /\ IF s.status[C[m]] \in Away THEN sep[l] = C[m] ELSE k > 0 /\ kept[k] = C[m]
    BY <1>1 DEF JoinsAt
  <1>3. /\ \A x \in R : s.next[x] \in R /\ s.prev[x] \in R /\ s.prev[s.next[x]] = x /\ s.next[s.prev[x]] = x
        /\ R \subseteq Chunks /\ 1 \in 1..m /\ m \in 1..m
    BY <1>2 DEF OneRing, Ring
  <1>4. /\ \A i \in 1..m : C[i] \in R
        /\ \A i, j \in 1..m : C[i] = C[j] => i = j
        /\ \A i \in 1..(m - 1) : s.next[C[i]] = C[i + 1]
    BY <1>2 DEF Stretch, Listed
  <1>5. V \subseteq Part(C, m)
    BY <1>2 DEF Covered
  <1>6. Part(C, m) \subseteq A
    <2> DEFINE G == {i \in Nat : i < m => C[i + 1] \in A}
    <2>1. 0 \in G
      BY <1>2
    <2>2. ASSUME NEW i \in Nat, i \in G PROVE i + 1 \in G
      <3>1. SUFFICES ASSUME i + 1 < m PROVE C[(i + 1) + 1] \in A
        OBVIOUS
      <3>2. i + 1 \in 1..(m - 1) /\ i + 1 \in 1..m /\ i + 1 # m /\ C[i + 1] \in A
        BY <1>2, <2>2, <3>1
      <3>3. C[i + 1] # s.counterActive
        BY <1>2, <1>3, <1>4, <3>2
      <3> QED BY <1>4, <3>2, <3>3
    <2>3. \A i \in Nat : i \in G
      <3> HIDE DEF G
      <3> QED BY <2>1, <2>2, NumberInduction
    <2>4. ASSUME NEW i \in 1..m PROVE C[i] \in A
      <3>1. i - 1 \in Nat /\ i - 1 < m /\ (i - 1) + 1 = i
        BY <1>2
      <3> QED BY <2>3, <3>1
    <2> QED BY <2>4 DEF Part
  <1>7. /\ k \in Nat /\ l \in Nat \ {0} /\ k + l = m
        /\ sep \in [1..l -> Part(C, m)] /\ kept \in [1..k -> Part(C, m)]
        /\ \A i \in 1..l, j \in 1..k : sep[i] # kept[j]
        /\ \A i \in 1..m : \/ s.status[C[i]] \in Away /\ \E j \in 1..l : C[i] = sep[j]
                           \/ s.status[C[i]] \notin Away /\ \E j \in 1..k : C[i] = kept[j]
    BY <1>2 DEF Sorted
  <1>8. /\ \A i, j \in 1..l : sep[i] = sep[j] => i = j
        /\ \A i, j \in 1..k : kept[i] = kept[j] => i = j
    BY <1>2 DEF Sorted, Listed
  <1>9. \A j \in 1..l : sep[j] \in V
    <2> SUFFICES ASSUME NEW j \in 1..l PROVE sep[j] \in V
      OBVIOUS
    <2>1. PICK i \in 1..m : sep[j] = C[i]
      BY <1>7 DEF Part
    <2>2. s.status[C[i]] \in Away
      BY <1>7, <2>1
    <2>3. C[i] \in A
      BY <1>6 DEF Part
    <2> QED BY <2>1, <2>2, <2>3
  <1>10. \A j \in 1..k : kept[j] \in A \ V
    <2> SUFFICES ASSUME NEW j \in 1..k PROVE kept[j] \in A \ V
      OBVIOUS
    <2>1. PICK i \in 1..m : kept[j] = C[i]
      BY <1>7 DEF Part
    <2>2. s.status[C[i]] \notin Away
      BY <1>7, <2>1
    <2>3. C[i] \in A
      BY <1>6 DEF Part
    <2> QED BY <2>1, <2>2, <2>3
  <1>11. \A x \in Part(C, m) : (x \in V /\ \E j \in 1..l : x = sep[j]) \/ (x \notin V /\ \E j \in 1..k : x = kept[j])
    <2> SUFFICES ASSUME NEW i \in 1..m
                 PROVE  (C[i] \in V /\ \E j \in 1..l : C[i] = sep[j]) \/ (C[i] \notin V /\ \E j \in 1..k : C[i] = kept[j])
      BY DEF Part
    <2>1. C[i] \in A
      BY <1>6 DEF Part
    <2>2. s.status[C[i]] \in Away <=> C[i] \in V
      BY <2>1
    <2> QED BY <1>7, <2>2
  <1>12. /\ Along(r, sep, l) /\ Along(r, kept, k)
         /\ k > 0 => r.next[kept[k]] = sep[1] /\ r.prev[sep[1]] = kept[k]
         /\ r.next[sep[l]] = IF after = C[1] THEN Foremost(kept, k, sep) ELSE after
         /\ r.prev[Foremost(kept, k, sep)] = IF after = C[1] THEN sep[l] ELSE before
         /\ after # C[1] => r.next[before] = Foremost(kept, k, sep) /\ r.prev[after] = sep[l]
         /\ \A x \in Chunks \ Part(C, m) : /\ x = before \/ r.next[x] = s.next[x]
                                           /\ x = after \/ r.prev[x] = s.prev[x]
    BY <1>2 DEF Joined
  <1>13. /\ Part(C, m) \subseteq R
         /\ after = C[1] => Part(C, m) = R
         /\ after # C[1] => before \notin Part(C, m) /\ after \notin Part(C, m)
         /\ \A x \in R \ Part(C, m) : s.next[x] \in Part(C, m) => x = before
    BY <1>2, StretchEnds
  <1>14. s.counterActive \in Part(C, m) /\ from \in Part(C, m)
    BY <1>2, <1>3 DEF Part
  <1>15. ASSUME NEW x \in A \ V, x \notin Part(C, m), x # before
         PROVE  r.next[x] \in A \ V
    <2>1. x \in R /\ x \in Chunks /\ x # s.counterActive
      BY <1>3, <1>14, <1>15
    <2>2. s.next[x] \in A /\ r.next[x] = s.next[x]
      BY <1>12, <1>15, <2>1
    <2>3. s.next[x] \notin Part(C, m)
      BY <1>13, <1>15, <2>1
    <2> QED BY <1>5, <2>2, <2>3
  <1>16. CASE k > 0
    <2>1. r.counterActive = kept[k] /\ k \in 1..k /\ 1 \in 1..k
      BY <1>2, <1>7, <1>16
    <2>2. ASSUME NEW x \in (A \ V) \ {kept[k]}
          PROVE  r.next[x] \in A \ V
      <3>1. CASE x \in Part(C, m)
        <4>1. PICK j \in 1..k : x = kept[j]
          BY <1>11, <2>2, <3>1
        <4>2. j \in 1..(k - 1) /\ j + 1 \in 1..k
          BY <1>7, <2>2, <4>1
        <4>3. r.next[x] = kept[j + 1]
          BY <1>12, <4>1, <4>2 DEF Along
        <4> QED BY <1>10, <4>2, <4>3
      <3>2. CASE x \notin Part(C, m) /\ x = before
        <4>1. after # C[1]
          BY <1>2, <1>13, <3>2
        <4>2. r.next[before] = kept[1]
          BY <1>12, <1>16, <4>1 DEF Foremost
        <4> QED BY <1>10, <2>1, <3>2, <4>2
      <3>3. CASE x \notin Part(C, m) /\ x # before
        BY <1>15, <2>2, <3>3
      <3> QED BY <3>1, <3>2, <3>3
    <2>3. kept[k] \in A \ V
      BY <1>10, <2>1
    <2> QED BY <2>1, <2>2, <2>3
  <1>17. CASE ~(k > 0)
    <2>1. k = 0
      BY <1>7, <1>17
    <2>2. \A x \in Part(C, m) : x \in V
      <3>1. 1..k = {}
        BY <2>1
      <3> QED BY <1>11, <3>1
    <2>3. after # C[1]
      BY <1>13, <2>2
    <2>4. r.counterActive = before
      BY <1>2, <1>17, <2>3
    <2>5. before \in A
      <3>1. SUFFICES ASSUME before \notin A PROVE FALSE
        OBVIOUS
      <3>2. \A x \in A \ V : s.next[x] \in A \ V
        <4> TAKE x \in A \ V
        <4>1. x \notin Part(C, m) /\ x \in R /\ x # before
          BY <2>2, <3>1
        <4>2. s.next[x] \in A /\ s.next[x] \notin Part(C, m)
          BY <1>13, <1>14, <4>1
        <4> QED BY <1>5, <4>2
      <3>3. A \ V \in SUBSET R
        OBVIOUS
      <3>4. A \ V = R
        BY <3>2, <3>3 DEF OneRing
      <3> QED BY <3>4
    <2>6. before \in A \ V
      BY <1>5, <1>13, <2>3, <2>5
    <2>7. ASSUME NEW x \in (A \ V) \ {before}
          PROVE  r.next[x] \in A \ V
      BY <1>15, <2>2, <2>7
    <2> QED BY <2>4, <2>6, <2>7
  <1> QED BY <1>16, <1>17

\* A walk back round the ring that is no longer than the ring meets no chunk twice.
LEMMA NoReturn ==
    ASSUME NEW nx, NEW pv, NEW R, OneRing(nx, pv, R), IsFiniteSet(R), NEW e \in R,
           NEW k \in Nat, k <= Cardinality(R), NEW n \in 1..(k - 1), NEW i \in 1..n
    PROVE  Walk(nx, e, k)[n + 1] # Walk(nx, e, k)[i]
  <1>1. SUFFICES ASSUME Walk(nx, e, k)[n + 1] = Walk(nx, e, k)[i] PROVE FALSE
    OBVIOUS
  <1>2. PICK w : w = Walk(nx, e, k)
    OBVIOUS
  <1>3. \A c \in R : \E j \in 1..n : w[j] = c
    BY <1>1, <1>2, WalkReturns
  <1>4. \A j \in 1..n : w[j] \in R
    <2>1. \A c \in R : nx[c] \in R
      BY DEF OneRing
    <2>2. \A j \in 1..k : w[j] \in R
      BY <1>2, <2>1, WalkStays
    <2> QED BY <2>2
  <1>5. PICK f : f = [j \in 1..n |-> w[j]]
    OBVIOUS
  <1>6. f \in Surjection(1..n, R)
    <2>1. f \in [1..n -> R]
      BY <1>4, <1>5
    <2>2. \A c \in R : \E j \in 1..n : f[j] = c
      BY <1>3, <1>5
    <2> QED BY <2>1, <2>2 DEF Surjection
  <1>7. IsFiniteSet(1..n) /\ Cardinality(1..n) = n
    <2>1. 1 \in Int /\ n \in Int
      OBVIOUS
    <2>2. IsFiniteSet(1..n) /\ Cardinality(1..n) = IF 1 > n THEN 0 ELSE n - 1 + 1
      BY <2>1, FS_Interval
    <2> QED BY <2>2
  <1>8. Cardinality(R) <= n
    BY <1>6, <1>7, FS_Surjection
  <1>9. Cardinality(R) \in Nat
    BY FS_CardinalityType
  <1> QED BY <1>8, <1>9

\* What swapOut takes is between the last chunk it has taken and counterActive.
LEMMA CoveredIs ==
    ASSUME NEW s, Circle(s), Ring(s) # {}, memChunks(s) = Ring(s), NEW k, k = Cardinality(memChunks(s)),
           NEW want, NEW v, Chosen(s, Backward(s), want, v, k), v.list # <<>>
    PROVE  Covered(s, Ring(s), Backward(s)[v.last], ToSet(v.list))
  <1>1. PICK R : R = Ring(s) /\ OneRing(s.next, s.prev, R) /\ s.counterActive \in R
    BY DEF Circle
  <1>2. OneRing(s.prev, s.next, R) /\ \A c \in R : s.next[s.prev[c]] = c
    <2>1. OneRing(s.prev, s.next, R)
      BY <1>1, RingBack
    <2>2. \A c \in R : s.next[s.prev[c]] = c
      BY <1>1 DEF OneRing
    <2> QED BY <2>1, <2>2
  <1>3. IsFiniteSet(R) /\ k \in Nat /\ k <= Cardinality(R)
    <2>1. R \in SUBSET Chunks
      BY <1>1 DEF Ring
    <2> QED BY <1>1, <2>1, ConstantsAssumption, FS_Subset, FS_CardinalityType
  <1>4. PICK w, pv, b : pv = s.prev /\ b = s.counterActive /\ w = Walk(pv, b, k) /\ w = Backward(s)
    BY DEF Backward
  <1>5. /\ v.last \in 1..k /\ \A j \in 1..Len(v.list) : \E e \in 1..v.last : v.list[j] = w[e]
        /\ DOMAIN v.list = 1..Len(v.list)
    BY <1>4 DEF Chosen
  <1>6. w[1] = s.counterActive /\ \A i \in 1..(k - 1) : w[i + 1] = s.prev[w[i]]
    <2>1. /\ k > 0 => Walk(pv, b, k)[1] = b
          /\ \A i \in 1..(k - 1) : Walk(pv, b, k)[i + 1] = pv[Walk(pv, b, k)[i]]
      BY <1>3, WalkIs
    <2> QED BY <1>3, <1>4, <1>5, <2>1
  <1>7. \A i \in 1..k : w[i] \in R
    <2>1. \A c \in R : pv[c] \in R
      BY <1>2, <1>4 DEF OneRing
    <2>2. b \in R
      BY <1>1, <1>4
    <2>3. \A i \in 1..k : Walk(pv, b, k)[i] \in R
      BY <1>3, <2>1, <2>2, WalkStays
    <2> QED BY <1>4, <2>3
  <1>8. \A n \in 1..(k - 1) : w[n + 1] # w[1]
    <2> TAKE n \in 1..(k - 1)
    <2>1. 1 \in 1..n
      OBVIOUS
    <2>2. OneRing(pv, s.next, R) /\ b \in R
      BY <1>1, <1>2, <1>4
    <2>3. Walk(pv, b, k)[n + 1] # Walk(pv, b, k)[1]
      BY <1>3, <2>1, <2>2, NoReturn
    <2> QED BY <1>4, <2>3
  <1>9. ASSUME NEW m \in Nat \ {0}, NEW C, Stretch(s.next, R, C, m), C[1] = w[v.last], C[m] = s.counterActive
        PROVE  ToSet(v.list) \subseteq Part(C, m)
    <2>1. PICK l \in 1..k : l = v.last
      BY <1>5
    <2> DEFINE G == {i \in Nat : i < l => w[l - i] \in Part(C, m)}
    <2>2. 0 \in G
      <3>1. 1 \in 1..m /\ l - 0 = l
        BY <1>9, <2>1
      <3> QED BY <1>9, <2>1, <3>1 DEF Part
    <2>3. ASSUME NEW i \in Nat, i \in G PROVE i + 1 \in G
      <3>1. SUFFICES ASSUME i + 1 < l PROVE w[l - (i + 1)] \in Part(C, m)
        OBVIOUS
      <3>2. PICK e \in 1..(k - 1) : e = l - (i + 1) /\ e + 1 = l - i /\ e \in 1..k
        BY <1>3, <2>1, <3>1
      <3>3. PICK j \in 1..m : w[e + 1] = C[j]
        BY <2>3, <3>1, <3>2 DEF Part
      <3>4. j # m
        BY <1>6, <1>8, <1>9, <3>2, <3>3
      <3>5. j \in 1..(m - 1) /\ j + 1 \in 1..m
        BY <1>9, <3>3, <3>4
      <3>6. s.next[w[e + 1]] = w[e]
        BY <1>2, <1>6, <1>7, <3>2
      <3>7. w[e] = C[j + 1]
        BY <1>9, <3>3, <3>5, <3>6 DEF Stretch
      <3> QED BY <3>2, <3>5, <3>7 DEF Part
    <2>4. \A i \in Nat : i \in G
      <3> HIDE DEF G
      <3> QED BY <2>2, <2>3, NumberInduction
    <2>5. ASSUME NEW e \in 1..l PROVE w[e] \in Part(C, m)
      <3>1. l - e \in Nat /\ l - e < l /\ l - (l - e) = e
        BY <2>1
      <3> QED BY <2>4, <3>1
    <2>6. \A j \in 1..Len(v.list) : v.list[j] \in Part(C, m)
      BY <1>5, <2>1, <2>5
    <2> QED BY <1>5, <2>6 DEF ToSet
  <1> QED BY <1>1, <1>4, <1>9 DEF Covered

\* The chunks of the ring that are in memory, with a swap that transfers at once.
Resident(s) == {c \in Ring(s) : s.status[c] # "SWAPPED"}

\* With such a swap nothing is on its way, what is not in the ring is gone, and the chunks in
\* memory go from active to counterActive.
Sectioned(s) ==
    /\ ~s.asynchronous
    /\ \A c \in Chunks : s.status[c] \in {"NONE", "ALLOCATED", "INUSE", "SWAPPED"}
    /\ \A c \in Chunks \ Ring(s) : s.status[c] = "NONE"
    /\ Together(s.next, Resident(s), s.active, s.counterActive)

\* The members Sectioned depends on.
LEMMA SectionedSame ==
    ASSUME NEW s, Sectioned(s), NEW r, r.next = s.next, r.status = s.status, r.active = s.active,
           r.counterActive = s.counterActive, r.asynchronous = s.asynchronous
    PROVE  Sectioned(r)
  <1>1. Ring(r) = Ring(s) /\ Resident(r) = Resident(s)
    BY DEF Ring, Resident
  <1> QED BY <1>1 DEF Sectioned

\* Then memChunks is the ring.
LEMMA SectionedCount ==
    ASSUME NEW s, Whole(s), Sectioned(s)
    PROVE  memChunks(s) = Ring(s)
  <1>1. \A c \in Chunks : c \in Ring(s) <=> s.status[c] # "NONE"
    BY DEF Whole, Sectioned
  <1>2. Ring(s) \subseteq Chunks
    BY DEF Ring
  <1> QED BY <1>1, <1>2 DEF memChunks, In

\* swapOut, where it takes any chunk, keeps the chunks in memory together.
LEMMA SwapOutListSections ==
    ASSUME NEW s, Whole(s), Sectioned(s), Ring(s) # {}, NEW k, k = Cardinality(memChunks(s)), NEW n, NEW want,
           NEW v, Chosen(s, Backward(s), want, v, k), v.list # <<>>, NEW r, r = SwapOutList(s, n, v).s
    PROVE  Sectioned(r)
  <1>1. Round(s) /\ Circle(s) /\ s \in SchedType
    BY RoundIsCircle DEF Whole, Round, Plain
  <1>2. PICK V, R, A : V = ToSet(v.list) /\ R = Ring(s) /\ A = Resident(s)
    OBVIOUS
  <1>3. Evicted(s, r, V)
    BY <1>1, <1>2, SwapOutListIs
  <1>4. /\ V \in SUBSET {c \in R : Candidate(s, c)} /\ r.status = Gone(s, V)
        /\ Ring(r) = R /\ r.asynchronous = s.asynchronous
    BY <1>2, <1>3 DEF Evicted, RingKept
  <1>5. R \subseteq Chunks /\ V \subseteq A /\ A \subseteq R /\ NULL \notin V /\ V \in SUBSET Chunks
    <2>1. R \subseteq Chunks
      BY <1>2 DEF Ring
    <2>2. V \subseteq A /\ A \subseteq R
      BY <1>2, <1>4 DEF Candidate, Resident
    <2> QED BY <2>1, <2>2, ConstantsAssumption
  <1>6. \A c \in Chunks : r.status[c] = IF c \in V THEN "SWAPPED" ELSE s.status[c]
    BY <1>4 DEF Gone, Sectioned
  <1>7. Resident(r) = A \ V
    BY <1>2, <1>4, <1>5, <1>6 DEF Resident
  <1>8. PICK from : from = Backward(s)[v.last]
    OBVIOUS
  <1>9. from \in V
    <2>1. \E j \in 1..Len(v.list) : v.list[j] = from
      BY <1>8 DEF Chosen
    <2>2. DOMAIN v.list = 1..Len(v.list)
      BY DEF Chosen
    <2> QED BY <1>2, <2>1, <2>2 DEF ToSet
  <1>10. v.list \in Seq(Ring(s))
    BY DEF Chosen
  <1>11. PICK a : a = Selected(s, v.list)
    OBVIOUS
  <1>12. /\ a \in SchedType /\ SameMembers(s, a) /\ a.next = s.next /\ a.prev = s.prev
         /\ a.counterActive = s.counterActive /\ a.active \in Ring(s)
    BY <1>1, <1>10, <1>11, SelectedIs
  <1>13. PICK b : b = Unload(a, V)
    OBVIOUS
  <1>14. /\ b \in SchedType /\ b.status = Gone(a, V)
         /\ b.next = a.next /\ b.prev = a.prev /\ b.active = a.active /\ b.counterActive = a.counterActive
         /\ b.preemptiveStart = a.preemptiveStart /\ b.preloaded = a.preloaded
    BY <1>5, <1>12, <1>13, UnloadIs
  <1>15. b.status = Gone(s, V)
    BY <1>12, <1>14 DEF Gone, SameMembers
  <1>16. R = Ring(b) /\ OneRing(b.next, b.prev, R) /\ b.counterActive \in R /\ b.active \in R /\ from \in R
    BY <1>1, <1>2, <1>5, <1>9, <1>12, <1>14 DEF Ring, Circle
  <1>17. \A c \in Chunks : b.status[c] = IF c \in V THEN "SWAPPED" ELSE s.status[c]
    BY <1>15 DEF Gone, Sectioned
  <1>18. PICK g : g = GatherAway(b, from)
    OBVIOUS
  <1>19. Joins(b, g, R, from)
    <2>1. b \in SchedType /\ b.status[from] \in Away
      BY <1>5, <1>9, <1>14, <1>17 DEF Away
    <2> QED BY <1>16, <1>18, <2>1, GatherAwayJoins
  <1>20. g \in SchedType /\ SameMembers(b, g) /\ g.active = b.active
    <2>1. b \in SchedType /\ b.status[from] \in Away
      BY <1>5, <1>9, <1>14, <1>17 DEF Away
    <2> QED BY <1>16, <1>18, <2>1, GatherAwayIs
  <1>21. r = MovePreemptive(MoveActive(g), V)
    BY <1>2, <1>8, <1>11, <1>13, <1>18 DEF SwapOutList
  <1>22. /\ r.next = g.next /\ r.counterActive = g.counterActive
         /\ r.active = IF Present(g, g.active) THEN g.active ELSE g.counterActive
    <2>1. g.preloaded = {} /\ g.preemptiveStart = NULL
      <3>1. s.preloaded = {} /\ s.preemptiveStart = NULL
        BY <1>1 DEF Round, Plain
      <3> QED BY <3>1, <1>12, <1>14, <1>20 DEF SameMembers
    <2>2. PICK u : u = IF Present(g, g.active) THEN g ELSE [g EXCEPT !.active = g.counterActive]
      OBVIOUS
    <2>3. MoveActive(g) = u
      BY <1>20, <2>1, <2>2 DEF MoveActive, SchedType
    <2>4. /\ u.next = g.next /\ u.counterActive = g.counterActive /\ u.preemptiveStart = g.preemptiveStart
          /\ u.active = IF Present(g, g.active) THEN g.active ELSE g.counterActive
      BY <1>20, <2>2 DEF SchedType
    <2>5. r = u
      BY <1>5, <1>21, <2>1, <2>3, <2>4 DEF MovePreemptive
    <2> QED BY <2>4, <2>5
  <1>23. Present(g, g.active) <=> g.active \in A \ V
    <2>1. g.active \in R /\ g.active \in Chunks /\ g.status = b.status
      BY <1>5, <1>16, <1>20 DEF SameMembers
    <2>2. s.status[g.active] \in {"ALLOCATED", "INUSE", "SWAPPED"}
      BY <1>2, <2>1 DEF Whole, Sectioned
    <2> QED BY <1>2, <1>17, <2>1, <2>2 DEF Present, Resident
  <1>24. Together(r.next, A \ V, r.active, r.counterActive)
    <2>1. CASE A \ V = {}
      BY <1>22, <1>23, <2>1 DEF Together
    <2>2. CASE A \ V # {}
      <3>1. s.counterActive \in A /\ \A c \in A \ {s.counterActive} : s.next[c] \in A
        BY <1>2, <2>2 DEF Sectioned, Together
      <3>2. b.counterActive = s.counterActive /\ b.next = s.next
        BY <1>12, <1>14
      <3>3. \A c \in A : b.status[c] \in Away <=> c \in V
        <4> TAKE c \in A
        <4>1. c \in Chunks /\ s.status[c] # "SWAPPED" /\ s.status[c] \in {"NONE", "ALLOCATED", "INUSE", "SWAPPED"}
          BY <1>2, <1>5 DEF Resident, Sectioned
        <4> QED BY <1>17, <4>1 DEF Away
      <3>4. Covered(b, R, from, V)
        <4>1. Covered(s, R, from, V)
          <5>1. memChunks(s) = Ring(s)
            BY SectionedCount
          <5> QED BY <1>1, <1>2, <1>8, <5>1, CoveredIs
        <4> QED BY <3>2, <4>1 DEF Covered
      <3>5. b \in SchedType /\ A \in SUBSET R /\ V \in SUBSET A
        BY <1>5, <1>14
      <3>6. b.counterActive \in A /\ \A c \in A \ {b.counterActive} : b.next[c] \in A
        BY <3>1, <3>2
      <3>7. g.counterActive \in A \ V /\ \A c \in (A \ V) \ {g.counterActive} : g.next[c] \in A \ V
        BY <1>9, <1>16, <1>19, <2>2, <3>3, <3>4, <3>5, <3>6, JoinsShrinks
      <3> QED BY <1>22, <1>23, <2>2, <3>7 DEF Together
    <2> QED BY <2>1, <2>2
  <1>25. \A c \in Chunks \ Ring(r) : r.status[c] = "NONE"
    BY <1>2, <1>4, <1>5, <1>6 DEF Sectioned
  <1>26. \A c \in Chunks : r.status[c] \in {"NONE", "ALLOCATED", "INUSE", "SWAPPED"}
    BY <1>6 DEF Sectioned
  <1>27. ~r.asynchronous
    BY <1>4 DEF Sectioned
  <1> QED BY <1>7, <1>24, <1>25, <1>26, <1>27 DEF Sectioned

\* swapOut keeps the chunks in memory together.
LEMMA SwapOutSections ==
    ASSUME NEW s, Whole(s), Sectioned(s), Ring(s) # {}, NEW n
    PROVE  Sectioned(SwapOut(s, n).s)
  <1>1. CASE n > MemMax
    <2>1. SwapOut(s, n).s = s
      BY <1>1 DEF SwapOut
    <2> QED BY <2>1
  <1>2. CASE ~(n > MemMax)
    <2>1. PICK v : v = Victims(s, n)
      OBVIOUS
    <2>2. PICK r : r = SwapOutList(s, n, v).s
      OBVIOUS
    <2>3. Chosen(s, Backward(s), Goal(s, n), v, Cardinality(memChunks(s)))
      BY <2>1, RoundIsCircle, VictimsAre DEF Whole
    <2>4. Sectioned(r)
      <3>1. CASE v.list = <<>>
        BY <2>2, <3>1 DEF SwapOutList
      <3>2. CASE v.list # <<>>
        BY <2>2, <2>3, <3>2, SwapOutListSections
      <3> QED BY <3>1, <3>2
    <2>5. SwapOut(s, n).s = r
      BY <1>2, <2>1, <2>2 DEF SwapOut
    <2> QED BY <2>4, <2>5
  <1> QED BY <1>1, <1>2

\* If the border is not alone, the chunk before it is in memory too.
LEMMA BeforeBorder ==
    ASSUME NEW nx, NEW pv, NEW R, OneRing(nx, pv, R), NEW A \in SUBSET R, NEW b \in A, A # {b},
           \A c \in A \ {b} : nx[c] \in A
    PROVE  pv[b] \in A \ {b}
  <1>1. \A c \in R : pv[nx[c]] = c
    BY DEF OneRing
  <1>2. pv[b] \in A
    <2>1. SUFFICES ASSUME pv[b] \notin A PROVE FALSE
      OBVIOUS
    <2>2. \A c \in A \ {b} : nx[c] \in A \ {b}
      BY <1>1, <2>1
    <2>3. A \ {b} \in SUBSET R /\ A \ {b} # {}
      OBVIOUS
    <2>4. A \ {b} = R
      BY <2>2, <2>3 DEF OneRing
    <2> QED BY <2>4
  <1>3. pv[b] # b
    <2>1. SUFFICES ASSUME pv[b] = b PROVE FALSE
      OBVIOUS
    <2>2. nx[b] = b
      BY <2>1 DEF OneRing
    <2>3. {b} \in SUBSET R /\ {b} # {} /\ \A c \in {b} : nx[c] \in {b}
      BY <2>2
    <2>4. {b} = R
      BY <2>3 DEF OneRing
    <2> QED BY <2>4
  <1> QED BY <1>2, <1>3

\* touch makes a chunk of the ring the first of those in memory.
LEMMA TouchTogether ==
    ASSUME NEW s, Whole(s), NEW c \in Ring(s), NEW A \in SUBSET Ring(s), A # {},
           Together(s.next, A, s.active, s.counterActive), NEW r, r = Touch(s, c)
    PROVE  Together(r.next, A \cup {c}, r.active, r.counterActive)
  <1>1. PICK R : R = Ring(s) /\ R \in SUBSET Chunks /\ c \in Chunks /\ c \in R
    BY DEF Ring
  <1>2. Round(s) /\ OneRing(s.next, s.prev, R) /\ s.next \in [Chunks -> Elements]
    BY <1>1 DEF Whole, Round, Plain, SchedType
  <1>3. \A x \in R : s.next[x] \in R /\ s.prev[x] \in R /\ s.prev[s.next[x]] = x /\ s.next[s.prev[x]] = x
    BY <1>2 DEF OneRing
  <1>4. PICK u : u = Counted(s, c)
    OBVIOUS
  <1>5. /\ Round(u) /\ u.next = s.next /\ u.prev = s.prev
        /\ u.active = s.active /\ u.counterActive = s.counterActive
    BY <1>1, <1>2, <1>4, CountedIs
  <1>6. s.active \in A /\ s.counterActive \in A /\ \A x \in A \ {s.counterActive} : s.next[x] \in A
    BY DEF Together
  <1>7. PICK d : d = IF s.counterActive = c THEN s.prev[c] ELSE s.counterActive
    OBVIOUS
  <1>8. s.active # c => /\ d \in A \cup {c} /\ (s.counterActive = c => d \in A \ {c})
                        /\ \A x \in A \ {c, d} : s.next[x] \in A
    <2>1. s.active # c /\ s.counterActive = c => s.prev[c] \in A \ {c}
      <3>1. SUFFICES ASSUME s.active # c, s.counterActive = c PROVE s.prev[c] \in A \ {c}
        OBVIOUS
      <3>2. c \in A /\ A # {c} /\ A \in SUBSET R /\ \A x \in A \ {c} : s.next[x] \in A
        BY <1>1, <1>6, <3>1
      <3>3. PICK nx, pv : nx = s.next /\ pv = s.prev
        OBVIOUS
      <3>4. OneRing(nx, pv, R) /\ \A x \in A \ {c} : nx[x] \in A
        BY <1>2, <3>2, <3>3
      <3>5. pv[c] \in A \ {c}
        BY <3>2, <3>4, BeforeBorder
      <3> QED BY <3>3, <3>5
    <2> QED BY <1>6, <1>7, <2>1
  <1>9. PICK g : g = [u EXCEPT !.active = c, !.counterActive = IF @ = c THEN s.prev[c] ELSE @]
    OBVIOUS
  <1>10. u \in SchedType
    BY <1>5 DEF Round, Plain
  <1>11. g.next = s.next /\ g.prev = s.prev /\ g.active = c /\ g.counterActive = d
    BY <1>5, <1>7, <1>9, <1>10 DEF SchedType
  <1>12. CASE s.active = c
    <2>1. r = u
      BY <1>4, <1>12 DEF Touch
    <2>2. A \cup {c} = A
      BY <1>6, <1>12
    <2> QED BY <1>5, <2>1, <2>2
  <1>13. CASE s.active # c /\ s.prev[s.active] = c
    <2>1. r = g
      BY <1>4, <1>9, <1>13 DEF Touch
    <2>2. s.next[c] = s.active
      BY <1>1, <1>3, <1>6, <1>13
    <2> QED BY <1>6, <1>8, <1>11, <1>13, <2>1, <2>2 DEF Together
  <1>14. CASE s.active # c /\ s.prev[s.active] # c
    <2>1. PICK a, b, p, e \in R : a = s.prev[c] /\ b = s.next[c] /\ p = s.prev[s.active] /\ e = s.active
      BY <1>1, <1>3, <1>6
    <2>2. a \in Chunks /\ b \in Chunks /\ p \in Chunks /\ e \in Chunks /\ e # c /\ p # c /\ e \in A
      BY <1>1, <1>6, <1>14, <2>1
    <2>3. d \in Elements /\ c \in Elements /\ g \in SchedType
      <3>1. d \in Elements /\ c \in Elements
        BY <1>1, <1>8, <1>14 DEF Elements
      <3>2. g = [u EXCEPT !.active = c, !.counterActive = d]
        BY <1>5, <1>7, <1>9, <1>10 DEF SchedType
      <3>3. g \in SchedType
        BY <1>10, <3>1, <3>2 DEF SchedType
      <3> QED BY <3>1, <3>3
    <2>4. PICK x : x = Connect(g, a, b)
      OBVIOUS
    <2>5. Relinked(g, x) /\ x.next = [s.next EXCEPT ![a] = b] /\ x.prev = [s.prev EXCEPT ![b] = a]
      <3>1. g \in SchedType /\ a \in Chunks /\ b \in Chunks /\ g.next = s.next /\ g.prev = s.prev
        BY <1>11, <2>2, <2>3
      <3> QED BY <2>4, <3>1, ConnectIs
    <2>6. PICK y : y = Connect(x, p, c)
      OBVIOUS
    <2>7. Relinked(x, y) /\ y.next = [x.next EXCEPT ![p] = c] /\ y.prev = [x.prev EXCEPT ![c] = p]
      <3>1. x \in SchedType /\ p \in Chunks
        BY <2>2, <2>5 DEF Relinked
      <3> QED BY <1>1, <2>6, <3>1, ConnectIs
    <2>8. PICK z : z = Connect(y, c, e)
      OBVIOUS
    <2>9. Relinked(y, z) /\ z.next = [y.next EXCEPT ![c] = e] /\ z.prev = [y.prev EXCEPT ![e] = c]
      <3>1. y \in SchedType /\ e \in Chunks
        BY <2>2, <2>7 DEF Relinked
      <3> QED BY <1>1, <2>8, <3>1, ConnectIs
    <2>10. r = z
      BY <1>4, <1>9, <1>14, <2>1, <2>4, <2>6, <2>8 DEF Touch
    <2>11. r.active = c /\ r.counterActive = d
      BY <1>11, <2>5, <2>7, <2>9, <2>10 DEF Relinked
    <2>12. /\ r.next[c] = e /\ r.next[p] = c
           /\ \A w \in Chunks \ {c, p} : r.next[w] = IF w = a THEN b ELSE s.next[w]
      BY <1>1, <1>2, <2>2, <2>5, <2>7, <2>9, <2>10
    <2>13. ASSUME NEW w \in (A \cup {c}) \ {d}
           PROVE  r.next[w] \in A \cup {c}
      <3>1. CASE w = c
        BY <2>2, <2>12, <3>1
      <3>2. CASE w = p
        BY <2>12, <3>2
      <3>3. CASE w # c /\ w # p
        <4>1. w \in A \ {c, d} /\ w \in R /\ w \in Chunks
          BY <1>1, <2>13, <3>3
        <4>2. s.next[w] \in A
          BY <1>8, <1>14, <4>1
        <4>3. CASE w # a
          BY <2>12, <3>3, <4>1, <4>2, <4>3
        <4>4. CASE w = a
          <5>1. s.next[w] = c /\ r.next[w] = b
            BY <1>1, <1>3, <2>1, <2>12, <3>3, <4>1, <4>4
          <5>2. c \in A /\ c # s.counterActive
            BY <1>7, <2>1, <4>1, <4>2, <4>4, <5>1
          <5> QED BY <1>6, <2>1, <5>1, <5>2
        <4> QED BY <4>3, <4>4
      <3> QED BY <3>1, <3>2, <3>3
    <2>14. d \in A \cup {c}
      BY <1>8, <1>14
    <2> QED BY <2>11, <2>13, <2>14 DEF Together
  <1> QED BY <1>12, <1>13, <1>14

\* touch of a chunk in memory.
LEMMA TouchSections ==
    ASSUME NEW s, Whole(s), Sectioned(s), NEW c \in Ring(s), s.status[c] # "SWAPPED"
    PROVE  Sectioned(Touch(s, c))
  <1>1. PICK r : r = Touch(s, c)
    OBVIOUS
  <1>2. Works(s, r) /\ r.status = s.status
    BY <1>1, TouchIs
  <1>3. Ring(r) = Ring(s) /\ r.asynchronous = s.asynchronous
    BY <1>2 DEF Works
  <1>4. Resident(r) = Resident(s) /\ Resident(s) \in SUBSET Ring(s) /\ c \in Resident(s)
    BY <1>2, <1>3 DEF Resident
  <1>5. Together(r.next, Resident(s) \cup {c}, r.active, r.counterActive)
    BY <1>1, <1>4, TouchTogether DEF Sectioned
  <1>6. Resident(s) \cup {c} = Resident(r)
    BY <1>4
  <1> QED BY <1>1, <1>2, <1>3, <1>5, <1>6 DEF Sectioned

\* schedulerRegister puts the new chunk before the others in memory.
LEMMA RegisterTogether ==
    ASSUME NEW s, Whole(s), NEW c \in Chunks, c \notin Ring(s), NEW A \in SUBSET Ring(s),
           Together(s.next, A, s.active, s.counterActive), \A x \in Ring(s) : s.status[x] \in Away <=> x \notin A,
           NEW r, r = SchedulerRegister(s, c)
    PROVE  Together(r.next, A \cup {c}, r.active, r.counterActive)
  <1>1. PICK R : R = Ring(s) /\ R \in SUBSET Chunks /\ c \notin R
    BY DEF Ring
  <1>2. /\ s \in SchedType /\ OneRing(s.next, s.prev, R)
        /\ IF R = {} THEN s.active = NULL /\ s.counterActive = NULL ELSE s.active \in R /\ s.counterActive \in R
    BY <1>1 DEF Whole, Round, Plain
  <1>3. c \in Elements /\ c # NULL /\ NULL \notin Chunks /\ s.counterActive \in Elements
        /\ s.next \in [Chunks -> Elements] /\ s.prev \in [Chunks -> Elements]
    BY <1>2, ConstantsAssumption DEF SchedType, Elements
  <1>4. s.active = NULL <=> R = {}
    BY <1>1, <1>2, <1>3
  <1>5. PICK u : u = IF R = {} THEN Connect(s, c, c) ELSE Connect(Connect(s, s.prev[s.active], c), c, s.active)
    OBVIOUS
  <1>6. PICK b : b = IF R = {} \/ (s.counterActive = s.active /\ s.status[s.counterActive] \in Away) THEN c
                     ELSE s.counterActive
    OBVIOUS
  <1>7. r = [u EXCEPT !.active = c, !.counterActive = b]
    BY <1>4, <1>5, <1>6 DEF SchedulerRegister
  <1>8. /\ u \in SchedType
        /\ R # {} => \E e, p \in R : /\ e = s.active /\ p = s.prev[e]
                                     /\ u.next = [[s.next EXCEPT ![p] = c] EXCEPT ![c] = e]
    <2>1. CASE R = {}
      <3>1. Relinked(s, u)
        BY <1>2, <1>5, <2>1, ConnectIs
      <3> QED BY <2>1, <3>1 DEF Relinked
    <2>2. CASE R # {}
      <3>1. PICK e, p \in R : e = s.active /\ p = s.prev[e]
        BY <1>2, <2>2 DEF OneRing
      <3>2. e \in Chunks /\ p \in Chunks
        BY <1>1
      <3>3. PICK x : x = Connect(s, p, c)
        OBVIOUS
      <3>4. Relinked(s, x) /\ x.next = [s.next EXCEPT ![p] = c] /\ x.prev = [s.prev EXCEPT ![c] = p]
        BY <1>2, <3>2, <3>3, ConnectIs
      <3>5. u = Connect(x, c, e)
        BY <1>5, <2>2, <3>1, <3>3
      <3>6. Relinked(x, u) /\ u.next = [x.next EXCEPT ![c] = e] /\ u.prev = [x.prev EXCEPT ![e] = c]
        <4>1. x \in SchedType
          BY <3>4 DEF Relinked
        <4> QED BY <3>2, <3>5, <4>1, ConnectIs
      <3>7. u \in SchedType
        BY <3>6 DEF Relinked
      <3>8. u.next = [[s.next EXCEPT ![p] = c] EXCEPT ![c] = e]
        BY <3>4, <3>6
      <3>9. \E f, q \in R : f = s.active /\ q = s.prev[f] /\ u.next = [[s.next EXCEPT ![q] = c] EXCEPT ![c] = f]
        BY <3>1, <3>8, Zenon
      <3> QED BY <3>7, <3>9
    <2> QED BY <2>1, <2>2
  <1>9. r.next = u.next /\ r.active = c /\ r.counterActive = b
    BY <1>7, <1>8 DEF SchedType
  <1>10. CASE A = {}
    <2>1. b = c
      <3>1. CASE R = {}
        BY <1>6, <3>1
      <3>2. CASE R # {}
        <4>1. s.counterActive = s.active /\ s.counterActive \in R
          BY <1>2, <1>10, <3>2 DEF Together
        <4>2. s.status[s.counterActive] \in Away
          BY <1>1, <1>10, <4>1
        <4> QED BY <1>6, <4>1, <4>2
      <3> QED BY <3>1, <3>2
    <2> QED BY <1>9, <1>10, <2>1 DEF Together
  <1>11. CASE A # {}
    <2>1. R # {} /\ s.active \in A /\ s.counterActive \in A /\ \A x \in A \ {s.counterActive} : s.next[x] \in A
      BY <1>1, <1>11 DEF Together
    <2>2. b = s.counterActive
      <3>1. s.status[s.counterActive] \notin Away
        BY <1>1, <2>1
      <3> QED BY <1>6, <2>1, <3>1
    <2>3. PICK e, p \in R : e = s.active /\ p = s.prev[e] /\ u.next = [[s.next EXCEPT ![p] = c] EXCEPT ![c] = e]
      BY <1>8, <2>1
    <2>4. /\ p \in Chunks /\ p # c /\ u.next[p] = c /\ u.next[c] = e
          /\ \A z \in Chunks \ {p, c} : u.next[z] = s.next[z]
      <3>1. p \in Chunks /\ p # c
        BY <1>1
      <3> QED BY <1>3, <2>3, <3>1
    <2>5. ASSUME NEW x \in (A \cup {c}) \ {b}
          PROVE  r.next[x] \in A \cup {c}
      <3>1. CASE x = c
        BY <1>9, <2>1, <2>3, <2>4, <3>1
      <3>2. CASE x = p
        BY <1>9, <2>4, <3>2
      <3>3. CASE x # c /\ x # p
        <4>1. x \in A \ {s.counterActive} /\ x \in Chunks \ {p, c}
          BY <1>1, <2>2, <2>5, <3>3
        <4> QED BY <1>9, <2>1, <2>4, <4>1
      <3> QED BY <3>1, <3>2, <3>3
    <2> QED BY <1>9, <2>1, <2>2, <2>5 DEF Together
  <1> QED BY <1>10, <1>11

\* A chunk is allocated, and touched.
LEMMA RegisterSections ==
    ASSUME NEW s, Whole(s), Sectioned(s), NEW c \in Chunks, c \notin Ring(s),
           NEW u, Whole(u), Ring(u) = Ring(s), u.next = s.next, u.active = s.active,
           u.counterActive = s.counterActive, u.asynchronous = s.asynchronous,
           u.status = [s.status EXCEPT ![c] = "ALLOCATED"]
    PROVE  Sectioned(Touch(SchedulerRegister(u, c), c))
  <1>1. PICK r : r = SchedulerRegister(u, c)
    OBVIOUS
  <1>2. s \in SchedType /\ Ring(s) \in SUBSET Chunks
    BY DEF Whole, Round, Plain, Ring
  <1>3. u.status[c] = "ALLOCATED" /\ \A x \in Chunks \ {c} : u.status[x] = s.status[x]
    BY <1>2 DEF SchedType
  <1>4. Recast(u, r, Ring(s) \cup {c})
    <2>1. c \notin Ring(u) /\ u.status[c] # "NONE"
      BY <1>3
    <2> QED BY <1>1, <2>1, RegisterIs
  <1>5. Whole(r) /\ Ring(r) = Ring(s) \cup {c} /\ r.status = u.status /\ r.asynchronous = s.asynchronous
    BY <1>4 DEF Recast
  <1>6. PICK A : A = Resident(s)
    OBVIOUS
  <1>7. Resident(r) = A \cup {c} /\ A \in SUBSET Ring(u)
    BY <1>2, <1>3, <1>5, <1>6 DEF Resident
  <1>8. Together(r.next, A \cup {c}, r.active, r.counterActive)
    <2>1. \A x \in Ring(u) : u.status[x] \in Away <=> x \notin A
      <3> TAKE x \in Ring(u)
      <3>1. x \in Chunks /\ x # c /\ x \in Ring(s) /\ u.status[x] = s.status[x]
        BY <1>2, <1>3
      <3>2. s.status[x] \in {"NONE", "ALLOCATED", "INUSE", "SWAPPED"}
        BY <3>1 DEF Sectioned
      <3> QED BY <1>6, <3>1, <3>2 DEF Away, Resident
    <2>2. Together(u.next, A, u.active, u.counterActive)
      BY <1>6 DEF Sectioned
    <2> QED BY <1>1, <1>7, <2>1, <2>2, RegisterTogether
  <1>9. Sectioned(r)
    BY <1>2, <1>3, <1>5, <1>7, <1>8 DEF Sectioned
  <1>10. c \in Ring(r) /\ r.status[c] # "SWAPPED"
    BY <1>3, <1>5
  <1> QED BY <1>1, <1>5, <1>9, <1>10, TouchSections

\* schedulerDelete takes a chunk from those in memory and leaves the others together, unless it
\* is both the first and the last of them.
LEMMA DeleteTogether ==
    ASSUME NEW s, Whole(s), NEW c \in Ring(s), NEW A \in SUBSET Ring(s),
           Together(s.next, A, s.active, s.counterActive),
           ~(s.active = c /\ s.counterActive = c /\ s.next[c] # c), NEW r, r = SchedulerDelete(s, c)
    PROVE  Together(r.next, A \ {c}, r.active, r.counterActive)
  <1>1. PICK u, a, b, w : Deleted(s, c, u, a, b, w)
    BY DeletedIs
  <1>2. PICK R : R = Ring(s) /\ R \in SUBSET Chunks /\ c \in R /\ c \in Chunks
    BY DEF Ring
  <1>3. s \in SchedType /\ OneRing(s.next, s.prev, R) /\ s.active \in R /\ s.counterActive \in R
        /\ s.next \in [Chunks -> Elements]
    BY <1>2 DEF Whole, Round, Plain, SchedType
  <1>4. \A x \in R : s.next[x] \in R /\ s.prev[x] \in R /\ s.prev[s.next[x]] = x /\ s.next[s.prev[x]] = x
    BY <1>3 DEF OneRing
  <1>5. /\ u = IF s.next[c] = c THEN s ELSE Connect(s, s.prev[c], s.next[c])
        /\ a = IF s.next[c] = c THEN NULL ELSE IF s.active = c THEN s.next[c] ELSE s.active
        /\ b = IF s.next[c] = c THEN NULL ELSE IF s.counterActive = c THEN s.prev[c] ELSE s.counterActive
        /\ r = w
    BY <1>1 DEF Deleted
  <1>6. /\ u \in SchedType /\ r.active = a /\ r.counterActive = b /\ r.next = [u.next EXCEPT ![c] = NULL]
        /\ R \ {c} = {} <=> s.next[c] = c
    BY <1>1, <1>2, <1>5 DEF Deleted, Relinked
  <1>7. CASE s.next[c] = c
    <2>1. A \ {c} = {} /\ a = b
      BY <1>2, <1>5, <1>6, <1>7
    <2> QED BY <1>6, <2>1 DEF Together
  <1>8. CASE s.next[c] # c
    <2>1. PICK p, n \in R : p = s.prev[c] /\ n = s.next[c] /\ p \in Chunks /\ n \in Chunks
      BY <1>2, <1>4
    <2>2. p # c /\ n # c
      BY <1>2, <1>4, <1>8, <2>1
    <2>3. u = Connect(s, p, n)
      BY <1>5, <1>8, <2>1
    <2>4. Relinked(s, u) /\ u.next = [s.next EXCEPT ![p] = n] /\ u.prev = [s.prev EXCEPT ![n] = p]
      BY <1>3, <2>1, <2>3, ConnectIs
    <2>5. \A x \in R \ {c} : r.next[x] = IF x = p THEN n ELSE s.next[x]
      <3>1. u.next \in [Chunks -> Elements]
        BY <1>6 DEF SchedType
      <3>2. \A x \in R \ {c} : r.next[x] = u.next[x]
        BY <1>2, <1>6, <3>1
      <3>3. \A x \in Chunks : u.next[x] = IF x = p THEN n ELSE s.next[x]
        BY <1>3, <2>1, <2>4
      <3> QED BY <1>2, <3>2, <3>3
    <2>6. CASE A \ {c} = {}
      <3>1. a = b
        <4>1. CASE A = {}
          <5>1. s.counterActive = s.active
            BY <4>1 DEF Together
          <5> QED BY <1>5, <1>8, <5>1
        <4>2. CASE A # {}
          <5>1. s.active = c /\ s.counterActive = c
            BY <2>6, <4>2 DEF Together
          <5> QED BY <1>8, <5>1
        <4> QED BY <4>1, <4>2
      <3> QED BY <1>6, <2>6, <3>1 DEF Together
    <2>7. CASE A \ {c} # {}
      <3>1. s.active \in A /\ s.counterActive \in A /\ \A x \in A \ {s.counterActive} : s.next[x] \in A
        BY <2>7 DEF Together
      <3>2. a \in A \ {c}
        <4>1. CASE s.active = c
          <5>1. s.counterActive # c
            BY <1>8, <4>1
          <5>2. s.next[c] \in A
            BY <3>1, <4>1, <5>1
          <5> QED BY <1>5, <1>8, <4>1, <5>2
        <4>2. CASE s.active # c
          BY <1>5, <1>8, <3>1, <4>2
        <4> QED BY <4>1, <4>2
      <3>3. b \in A \ {c}
        <4>1. CASE s.counterActive = c
          <5>1. A \in SUBSET R /\ c \in A /\ A # {c} /\ \A x \in A \ {c} : s.next[x] \in A
            BY <1>2, <2>7, <3>1, <4>1
          <5>2. s.prev[c] \in A \ {c}
            BY <1>3, <5>1, BeforeBorder
          <5> QED BY <1>5, <1>8, <4>1, <5>2
        <4>2. CASE s.counterActive # c
          BY <1>5, <1>8, <3>1, <4>2
        <4> QED BY <4>1, <4>2
      <3>4. ASSUME NEW x \in (A \ {c}) \ {b}
            PROVE  r.next[x] \in A \ {c}
        <4>1. x \in R \ {c} /\ x \in A
          BY <1>2, <3>4
        <4>2. s.counterActive = c => b = p
          BY <1>5, <1>8, <2>1
        <4>3. x # s.counterActive
          BY <1>5, <1>8, <3>4
        <4>4. s.next[x] \in A
          BY <3>1, <4>1, <4>3
        <4>5. CASE x = p
          <5>1. s.next[x] = c
            BY <1>2, <1>4, <2>1, <4>5
          <5>2. c # s.counterActive /\ c \in A
            BY <3>4, <4>2, <4>4, <4>5, <5>1
          <5>3. n \in A
            BY <2>1, <3>1, <5>2
          <5> QED BY <2>2, <2>5, <4>1, <4>5, <5>3
        <4>6. CASE x # p
          <5>1. s.next[x] # c
            BY <1>4, <2>1, <4>1, <4>6
          <5> QED BY <2>5, <4>1, <4>4, <4>6, <5>1
        <4> QED BY <4>5, <4>6
      <3> QED BY <1>6, <2>7, <3>2, <3>3, <3>4 DEF Together
    <2> QED BY <2>6, <2>7
  <1> QED BY <1>7, <1>8

\* A chunk is freed.
LEMMA DeleteSections ==
    ASSUME NEW s, Whole(s), Sectioned(s), NEW c \in Ring(s),
           ~(s.active = c /\ s.counterActive = c /\ s.next[c] # c),
           NEW d, d = SchedulerDelete(s, c), NEW r, r.next = d.next, r.active = d.active,
           r.counterActive = d.counterActive, r.asynchronous = d.asynchronous,
           r.status = [d.status EXCEPT ![c] = "NONE"]
    PROVE  Sectioned(r)
  <1>1. Recast(s, d, Ring(s) \ {c})
    BY DeleteIs
  <1>2. Whole(d) /\ Ring(d) = Ring(s) \ {c} /\ d.status = s.status /\ d.asynchronous = s.asynchronous
    BY <1>1 DEF Recast
  <1>3. d \in SchedType /\ Ring(s) \in SUBSET Chunks
    BY <1>2 DEF Whole, Round, Plain, Ring
  <1>4. Ring(r) = Ring(s) \ {c}
    BY <1>2 DEF Ring
  <1>5. r.status[c] = "NONE" /\ \A x \in Chunks \ {c} : r.status[x] = s.status[x]
    BY <1>2, <1>3 DEF SchedType
  <1>6. PICK A : A = Resident(s) /\ A \in SUBSET Ring(s)
    <2>1. Resident(s) \in SUBSET Ring(s)
      BY DEF Resident
    <2> QED BY <2>1
  <1>7. Resident(r) = A \ {c}
    BY <1>3, <1>4, <1>5, <1>6 DEF Resident
  <1>8. Together(r.next, A \ {c}, r.active, r.counterActive)
    <2>1. Together(s.next, A, s.active, s.counterActive)
      BY <1>6 DEF Sectioned
    <2>2. Together(d.next, A \ {c}, d.active, d.counterActive)
      BY <1>6, <2>1, DeleteTogether
    <2> QED BY <2>2
  <1> QED BY <1>2, <1>3, <1>4, <1>5, <1>7, <1>8 DEF Sectioned

\* The pointers touch leaves.
LEMMA TouchPointers ==
    ASSUME NEW s, Whole(s), NEW c \in Ring(s), NEW r, r = Touch(s, c)
    PROVE  /\ r.active = c
           /\ r.counterActive = IF s.active # c /\ s.counterActive = c THEN s.prev[c] ELSE s.counterActive
  <1>1. PICK R : R = Ring(s) /\ R \in SUBSET Chunks /\ c \in Chunks /\ c \in R
    BY DEF Ring
  <1>2. Round(s) /\ OneRing(s.next, s.prev, R) /\ s.active \in R
    BY <1>1 DEF Whole, Round
  <1>3. \A x \in R : s.next[x] \in R /\ s.prev[x] \in R
    BY <1>2 DEF OneRing
  <1>4. PICK u : u = Counted(s, c)
    OBVIOUS
  <1>5. Round(u) /\ u.active = s.active /\ u.counterActive = s.counterActive
    BY <1>1, <1>2, <1>4, CountedIs
  <1>6. u \in SchedType
    BY <1>5 DEF Round, Plain
  <1>7. PICK g : g = [u EXCEPT !.active = c, !.counterActive = IF @ = c THEN s.prev[c] ELSE @]
    OBVIOUS
  <1>8. PICK b : b = IF s.counterActive = c THEN s.prev[c] ELSE s.counterActive
    OBVIOUS
  <1>9. g.active = c /\ g.counterActive = b
    BY <1>5, <1>6, <1>7, <1>8 DEF SchedType
  <1>10. g \in SchedType
    <2>1. c \in Elements /\ b \in Elements
      <3>1. s.counterActive \in Elements
        BY <1>5, <1>6 DEF SchedType
      <3> QED BY <1>1, <1>3, <1>8, <3>1 DEF Elements
    <2>2. g = [u EXCEPT !.active = c, !.counterActive = b]
      BY <1>5, <1>6, <1>7, <1>8 DEF SchedType
    <2> QED BY <1>6, <2>1, <2>2 DEF SchedType
  <1>11. CASE s.active = c
    <2>1. r = u
      BY <1>4, <1>11 DEF Touch
    <2> QED BY <1>5, <1>11, <2>1
  <1>12. CASE s.active # c /\ s.prev[s.active] = c
    <2>1. r = g
      BY <1>4, <1>7, <1>12 DEF Touch
    <2> QED BY <1>8, <1>9, <1>12, <2>1
  <1>13. CASE s.active # c /\ s.prev[s.active] # c
    <2>1. PICK p, n, q, e \in Chunks : p = s.prev[c] /\ n = s.next[c] /\ q = s.prev[s.active] /\ e = s.active
      BY <1>1, <1>2, <1>3
    <2>2. PICK x : x = Connect(g, p, n)
      OBVIOUS
    <2>3. Relinked(g, x)
      BY <1>10, <2>1, <2>2, ConnectIs
    <2>4. PICK y : y = Connect(x, q, c)
      OBVIOUS
    <2>5. Relinked(x, y)
      <3>1. x \in SchedType
        BY <2>3 DEF Relinked
      <3> QED BY <1>1, <2>1, <2>4, <3>1, ConnectIs
    <2>6. PICK z : z = Connect(y, c, e)
      OBVIOUS
    <2>7. Relinked(y, z)
      <3>1. y \in SchedType
        BY <2>5 DEF Relinked
      <3> QED BY <1>1, <2>1, <2>6, <3>1, ConnectIs
    <2>8. r = z
      BY <1>4, <1>7, <1>13, <2>1, <2>2, <2>4, <2>6 DEF Touch
    <2>9. r.active = c /\ r.counterActive = b
      BY <1>9, <2>3, <2>5, <2>7, <2>8 DEF Relinked
    <2> QED BY <1>8, <1>13, <2>9
  <1> QED BY <1>11, <1>12, <1>13

\* A chunk that is swapped in becomes the first of those in memory, and the last if it is alone.
LEMMA SwapInSingleSections ==
    ASSUME NEW s, Whole(s), Sectioned(s), NEW c \in Ring(s), s.status[c] = "SWAPPED"
    PROVE  Sectioned(SwapInSingle(s, c))
  <1>1. PICK u : u = Load(s, {c})
    OBVIOUS
  <1>2. Works(s, u) /\ s \in SchedType /\ ~s.asynchronous /\ Ring(s) \in SUBSET Chunks /\ c \in Chunks
    BY <1>1, LoadIs DEF Whole, Round, Plain, Sectioned, Ring
  <1>3. Whole(u) /\ Ring(u) = Ring(s) /\ u.asynchronous = s.asynchronous
    BY <1>2 DEF Works
  <1>4. /\ u.next = s.next /\ u.active = s.active /\ u.counterActive = s.counterActive
        /\ u.status = [d \in Chunks |-> IF d # c THEN s.status[d] ELSE "ALLOCATED"]
    <2>1. PICK f : f = [d \in Chunks |-> IF d \notin {c} THEN s.status[d] ELSE IF s.asynchronous THEN "SWAPIN" ELSE "ALLOCATED"]
      OBVIOUS
    <2>2. PICK q : q = IF s.asynchronous THEN s.copies ELSE s.copies \ {c}
      OBVIOUS
    <2>3. u = [s EXCEPT !.status = f, !.copies = q]
      BY <1>1, <1>2, <2>1, <2>2 DEF Load, SchedType
    <2>4. u.next = s.next /\ u.active = s.active /\ u.counterActive = s.counterActive /\ u.status = f
      BY <1>2, <2>3 DEF SchedType
    <2>5. f = [d \in Chunks |-> IF d # c THEN s.status[d] ELSE "ALLOCATED"]
      BY <1>2, <2>1
    <2> QED BY <2>4, <2>5
  <1>5. PICK v : v = Touch(u, c)
    OBVIOUS
  <1>6. PICK r : r = Bordered(v)
    OBVIOUS
  <1>7. SwapInSingle(s, c) = r
    BY <1>1, <1>5, <1>6 DEF SwapInSingle
  <1>8. Works(u, v) /\ v.status = u.status
    BY <1>3, <1>5, TouchIs
  <1>9. Whole(v) /\ Ring(v) = Ring(s) /\ v.asynchronous = s.asynchronous
    BY <1>3, <1>8 DEF Works
  <1>10. Works(v, r) /\ r.status = v.status
    BY <1>6, <1>9, BorderedIs
  <1>11. Ring(r) = Ring(s) /\ r.asynchronous = s.asynchronous /\ v \in SchedType
    BY <1>9, <1>10 DEF Works, Whole, Round, Plain
  <1>12. PICK A : A = Resident(s) /\ A \in SUBSET Ring(s)
    BY DEF Resident
  <1>13. \A d \in Chunks : r.status[d] = IF d # c THEN s.status[d] ELSE "ALLOCATED"
    BY <1>4, <1>8, <1>10
  <1>14. Resident(r) = A \cup {c}
    BY <1>2, <1>11, <1>12, <1>13 DEF Resident
  <1>15. v.active = c /\ v.counterActive = IF u.active # c /\ u.counterActive = c THEN u.prev[c] ELSE u.counterActive
    BY <1>3, <1>5, TouchPointers
  <1>16. Together(r.next, A \cup {c}, r.active, r.counterActive)
    <2>1. CASE A = {}
      <3>1. u.counterActive = u.active
        BY <1>4, <1>12, <2>1 DEF Sectioned, Together
      <3>2. v.counterActive = u.active
        BY <1>15, <3>1
      <3>3. CASE u.active = c
        <4>1. v.status[v.counterActive] = "ALLOCATED"
          BY <1>2, <1>8, <1>4, <3>2, <3>3
        <4>2. r = v
          BY <1>6, <4>1 DEF Bordered
        <4> QED BY <1>15, <2>1, <3>2, <3>3, <4>2 DEF Together
      <3>4. CASE u.active # c
        <4>1. u.active \in Ring(s)
          BY <1>3 DEF Whole, Round
        <4>2. s.status[u.active] = "SWAPPED"
          BY <1>12, <2>1, <4>1 DEF Resident
        <4>3. v.status[v.counterActive] = "SWAPPED"
          BY <1>2, <1>4, <1>8, <3>2, <3>4, <4>1, <4>2
        <4>4. r = [v EXCEPT !.counterActive = v.active]
          BY <1>6, <4>3 DEF Bordered
        <4>5. r.active = c /\ r.counterActive = c
          BY <1>11, <1>15, <4>4 DEF SchedType
        <4> QED BY <2>1, <4>5 DEF Together
      <3> QED BY <3>3, <3>4
    <2>2. CASE A # {}
      <3>1. Together(u.next, A, u.active, u.counterActive)
        BY <1>4, <1>12 DEF Sectioned
      <3>2. Together(v.next, A \cup {c}, v.active, v.counterActive)
        BY <1>3, <1>5, <1>12, <2>2, <3>1, TouchTogether
      <3>3. v.counterActive \in A \cup {c}
        BY <2>2, <3>2 DEF Together
      <3>4. v.status[v.counterActive] # "SWAPPED"
        <4>1. v.counterActive \in Ring(r) /\ r.status[v.counterActive] # "SWAPPED"
          BY <1>14, <3>3 DEF Resident
        <4> QED BY <1>10, <4>1
      <3>5. r = v
        BY <1>6, <3>4 DEF Bordered
      <3> QED BY <3>2, <3>5
    <2> QED BY <2>1, <2>2
  <1>17. \A d \in Chunks : r.status[d] \in {"NONE", "ALLOCATED", "INUSE", "SWAPPED"}
    BY <1>13 DEF Sectioned
  <1>18. \A d \in Chunks \ Ring(r) : r.status[d] = "NONE"
    BY <1>11, <1>13 DEF Sectioned
  <1>19. Sectioned(r)
    BY <1>2, <1>11, <1>14, <1>16, <1>17, <1>18 DEF Sectioned
  <1> QED BY <1>7, <1>19

\* untouch keeps the chunks in memory together.
LEMMA UntouchSections ==
    ASSUME NEW s, Whole(s), Sectioned(s), Ring(s) # {}
    PROVE  Sectioned(Untouch(s))
  <1>1. Untouch(s) = s \/ \E n : Untouch(s) = SwapOut(s, n).s
    BY DEF Untouch
  <1> QED BY <1>1, SwapOutSections

\* ensureEnoughSpace.
LEMMA SpaceSections ==
    ASSUME NEW s, Whole(s), Sectioned(s), NEW n, NEW c,
           Ring(s) # {} \/ ~(n + Used(s) - MemMax - ToBeFreed(s) > 0),
           NEW r, r = EnsureEnoughSpace(s, n, c)
    PROVE  Sectioned(r.s) /\ (r.out = "fits" => ~(c # NULL /\ Present(s, c)))
  <1>1. CASE c # NULL /\ Present(s, c)
    <2>1. r = [s |-> s, out |-> "there"]
      BY <1>1 DEF EnsureEnoughSpace
    <2> QED BY <2>1
  <1>2. CASE ~(c # NULL /\ Present(s, c)) /\ Fits(s, n)
    <2>1. r = [s |-> s, out |-> "fits"]
      BY <1>2 DEF EnsureEnoughSpace
    <2> QED BY <1>2, <2>1
  <1>3. CASE ~(c # NULL /\ Present(s, c)) /\ ~Fits(s, n)
    <2>1. PICK missing : missing = n + Used(s) - MemMax - ToBeFreed(s)
      OBVIOUS
    <2>2. PICK o : o = IF missing > 0 THEN SwapOut(s, missing) ELSE [s |-> s, ok |-> TRUE]
      OBVIOUS
    <2>3. r = RoomAfter(n, o)
      BY <1>3, <2>1, <2>2 DEF EnsureEnoughSpace
    <2>4. Sectioned(o.s) /\ Whole(o.s)
      <3>1. CASE missing > 0
        <4>1. Ring(s) # {} /\ o.s = SwapOut(s, missing).s
          BY <2>1, <2>2, <3>1
        <4>2. Works(s, o.s)
          BY <4>1, SwapOutWorks
        <4>3. Sectioned(o.s)
          BY <4>1, SwapOutSections
        <4> QED BY <4>2, <4>3 DEF Works
      <3>2. CASE ~(missing > 0)
        BY <2>2, <3>2
      <3> QED BY <3>1, <3>2
    <2>5. CASE ~o.ok /\ ToBeFreed(o.s) = 0
      <3>1. r.s = Cleaned(o.s)
        BY <2>3, <2>5 DEF RoomAfter
      <3>2. o.s \in SchedType
        BY <2>4 DEF Whole, Round, Plain
      <3>3. PICK k : k = Cleaned(o.s)
        OBVIOUS
      <3>4. /\ k.next = o.s.next /\ k.status = o.s.status /\ k.active = o.s.active
            /\ k.counterActive = o.s.counterActive /\ k.asynchronous = o.s.asynchronous
        BY <3>2, <3>3 DEF Cleaned, SchedType
      <3>5. Sectioned(k)
        BY <2>4, <3>4, SectionedSame
      <3> QED BY <1>3, <3>1, <3>3, <3>5
    <2>6. CASE ~(~o.ok /\ ToBeFreed(o.s) = 0)
      <3>1. r = [s |-> o.s, out |-> IF Fits(o.s, n) THEN "fits" ELSE "wait"]
        BY <2>3, <2>6 DEF RoomAfter
      <3> QED BY <1>3, <2>4, <3>1
    <2> QED BY <2>5, <2>6
  <1> QED BY <1>1, <1>2, <1>3

\* swapIn from ensureEnoughSpace on.
LEMMA SwapInWithSections ==
    ASSUME NEW s, Whole(s), Sectioned(s), NEW o \in CallType, o.chunk \in Ring(s)
    PROVE  Sectioned(SwapInWith(s, o).s)
  <1>1. PICK r : r = EnsureEnoughSpace(s, o.need, o.chunk)
    OBVIOUS
  <1>2. PICK c, p : c = o.chunk /\ p = SwapInWith(s, o)
    OBVIOUS
  <1>3. c \in Ring(s) /\ c \in Chunks /\ c # NULL
    BY <1>2, ConstantsAssumption DEF Ring
  <1>4. Thinned(s, r.s)
    BY <1>1, <1>2, <1>3, SpaceThins
  <1>5. Works(s, r.s) /\ r.out \in {"there", "fits", "wait", "throw"}
    BY <1>1, <1>2, <1>3, SpaceIs
  <1>6. Sectioned(r.s) /\ (r.out = "fits" => ~Present(s, c))
    <2>1. Sectioned(r.s) /\ (r.out = "fits" => ~(c # NULL /\ Present(s, c)))
      BY <1>1, <1>2, <1>3, SpaceSections
    <2> QED BY <1>3, <2>1
  <1>7. p = SwapInRoom(r, o)
    BY <1>1, <1>2 DEF SwapInWith
  <1>8. CASE r.out # "fits"
    <2>1. p.s = r.s
      BY <1>5, <1>7, <1>8 DEF SwapInRoom, At
    <2> QED BY <1>2, <1>6, <2>1
  <1>9. CASE r.out = "fits"
    <2>1. ~r.s.preemptiveSwapIn /\ Whole(r.s) /\ c \in Ring(r.s)
      BY <1>3, <1>5 DEF Works, Whole, Round, Plain
    <2>2. p.s = SwapInSingle(r.s, c)
      BY <1>2, <1>7, <1>9, <2>1 DEF SwapInRoom, SwapInFits, At
    <2>3. r.s.status[c] = "SWAPPED"
      <3>1. s.status[c] \in {"NONE", "ALLOCATED", "INUSE", "SWAPPED"} /\ s.status[c] # "NONE"
        BY <1>3 DEF Sectioned, Whole
      <3>2. s.status[c] = "SWAPPED"
        BY <1>6, <1>9, <3>1 DEF Present
      <3> QED BY <1>3, <1>4, <3>2 DEF Thinned, Candidate
    <2>4. Sectioned(SwapInSingle(r.s, c))
      BY <1>6, <2>1, <2>3, SwapInSingleSections
    <2> QED BY <1>2, <2>2, <2>4
  <1> QED BY <1>8, <1>9

\* swapIn.
LEMMA SwapInSections ==
    ASSUME NEW s, Whole(s), Sectioned(s), NEW o \in CallType, o.chunk \in Ring(s)
    PROVE  Sectioned(SwapIn(s, o).s)
  <1>1. s \in SchedType /\ s.preemptiveStart = NULL /\ ~s.preemptiveSwapIn
    BY DEF Whole, Round, Plain
  <1>2. PICK u : u = BeforeSwapIn(s)
    OBVIOUS
  <1>3. u = [s EXCEPT !.consecutive = 0]
    <2>1. \A n : Decay(s, n) = s
      BY <1>1 DEF Decay
    <2> QED BY <1>2, <2>1 DEF BeforeSwapIn
  <1>4. u \in SchedType
    <2>1. 0 \in 0..2
      OBVIOUS
    <2> QED BY <1>1, <1>3, <2>1 DEF SchedType
  <1>5. /\ u.next = s.next /\ u.prev = s.prev /\ u.active = s.active /\ u.counterActive = s.counterActive
        /\ u.preemptiveSwapIn = s.preemptiveSwapIn /\ u.preloaded = s.preloaded
        /\ u.preemptiveStart = s.preemptiveStart /\ u.preemptiveBytes = s.preemptiveBytes
        /\ u.status = s.status /\ u.asynchronous = s.asynchronous
    BY <1>1, <1>3 DEF SchedType
  <1>6. Whole(u) /\ Ring(u) = Ring(s)
    <2>1. \A c \in Ring(s) : u.status[c] # "NONE"
      BY <1>5 DEF Whole
    <2> QED BY <1>4, <1>5, <2>1, WholeSame
  <1>7. Sectioned(u)
    BY <1>5, SectionedSame
  <1>8. PICK q : q = [[o EXCEPT !.need = Size[o.chunk]] EXCEPT !.oldBorder = u.counterActive]
    OBVIOUS
  <1>9. SwapIn(s, o) = SwapInWith(u, q)
    <2>1. Wanted(u, Size[o.chunk]) = [s |-> u, need |-> Size[o.chunk]]
      BY <1>1, <1>5 DEF Wanted
    <2>2. SwapIn(s, o) = SwapInWanted([s |-> u, need |-> Size[o.chunk]], u.counterActive, o)
      BY <1>2, <2>1 DEF SwapIn, SwapInFrom
    <2>3. q = [o EXCEPT !.need = Size[o.chunk], !.oldBorder = u.counterActive]
      BY <1>8 DEF CallType
    <2> QED BY <2>2, <2>3 DEF SwapInWanted
  <1>10. q \in CallType /\ q.chunk \in Ring(u)
    <2>1. o.chunk \in Chunks
      BY DEF Ring
    <2>2. Size[o.chunk] \in Nat
      BY <2>1, ConstantsAssumption
    <2>3. u.counterActive \in Elements
      BY <1>4 DEF SchedType
    <2> QED BY <1>6, <1>8, <2>2, <2>3 DEF CallType
  <1> QED BY <1>6, <1>7, <1>9, <1>10, SwapInWithSections

\* Chunks of the ring that are in memory get another status there.
LEMMA SectionedMarked ==
    ASSUME NEW s, Whole(s), Sectioned(s), NEW r, Ordered(s, r),
           \A c \in Chunks : \/ r.status[c] = s.status[c]
                             \/ s.status[c] \in {"ALLOCATED", "INUSE"} /\ r.status[c] \in {"ALLOCATED", "INUSE"}
    PROVE  Sectioned(r)
  <1>1. Ring(r) = Ring(s) /\ Ring(s) \subseteq Chunks
    BY DEF Ring, Ordered
  <1>2. Resident(r) = Resident(s)
    BY <1>1 DEF Resident
  <1>3. r.next = s.next /\ r.active = s.active /\ r.counterActive = s.counterActive /\ r.asynchronous = s.asynchronous
    BY DEF Ordered
  <1>4. Together(r.next, Resident(r), r.active, r.counterActive) /\ ~r.asynchronous
    BY <1>2, <1>3 DEF Sectioned
  <1>5. /\ \A c \in Chunks : r.status[c] \in {"NONE", "ALLOCATED", "INUSE", "SWAPPED"}
        /\ \A c \in Chunks \ Ring(r) : r.status[c] = "NONE"
    BY <1>1 DEF Sectioned
  <1> QED BY <1>4, <1>5 DEF Sectioned

\* mmalloc keeps the chunks in memory together.
LEMMA AllocateSections ==
    ASSUME Sound(sched, call), Sectioned(sched), NEW t \in Threads, NEW c \in Chunks,
           sched.status[c] = "NONE", Allocate(t, c)
    PROVE  Sectioned(sched')
  <1>1. Whole(sched) /\ Size[c] \in Nat /\ Size[c] <= MemMax /\ MemMax \in Nat
    BY ConstantsAssumption DEF Sound
  <1>2. PICK r : r = EnsureEnoughSpace(sched, Size[c], NULL)
    OBVIOUS
  <1>3. Ring(sched) # {} \/ ~(Size[c] + Used(sched) - MemMax - ToBeFreed(sched) > 0)
    <2>1. CASE Ring(sched) = {}
      <3>1. \A d \in Chunks : sched.status[d] # "NONE" => sched.status[d] \in Away
        BY <2>1 DEF Sound
      <3> QED BY <1>1, <2>1, <3>1, EmptyRing
    <2> QED BY <2>1
  <1>4. Works(sched, r.s) /\ r.out \in {"fits", "wait", "throw"}
    BY <1>1, <1>2, <1>3, SpaceIs
  <1>5. Sectioned(r.s)
    BY <1>1, <1>2, <1>3, SpaceSections
  <1>6. AllocateRoom(t, c, r)
    BY <1>2 DEF Allocate
  <1>7. c \notin Ring(r.s) /\ Whole(r.s)
    BY <1>1, <1>4 DEF Works, Whole
  <1>8. CASE r.out # "fits"
    <2>1. sched' = r.s
      BY <1>4, <1>6, <1>8 DEF AllocateRoom, Becomes, Returns
    <2> QED BY <1>5, <2>1
  <1>9. CASE r.out = "fits"
    <2>1. PICK u : u = [r.s EXCEPT !.status[c] = "ALLOCATED"]
      OBVIOUS
    <2>2. sched' = Touch(SchedulerRegister(u, c), c)
      BY <1>6, <1>9, <2>1 DEF AllocateRoom, Returns, Becomes
    <2>3. r.s \in SchedType
      BY <1>7 DEF Whole, Round, Plain
    <2>4. u \in SchedType
      BY <2>1, <2>3 DEF SchedType, Statuses
    <2>5. /\ u.next = r.s.next /\ u.prev = r.s.prev /\ u.active = r.s.active /\ u.counterActive = r.s.counterActive
          /\ u.preemptiveSwapIn = r.s.preemptiveSwapIn /\ u.preloaded = r.s.preloaded
          /\ u.preemptiveStart = r.s.preemptiveStart /\ u.preemptiveBytes = r.s.preemptiveBytes
          /\ u.asynchronous = r.s.asynchronous
          /\ u.status[c] = "ALLOCATED" /\ \A d \in Chunks : d # c => u.status[d] = r.s.status[d]
          /\ u.status = [r.s.status EXCEPT ![c] = "ALLOCATED"]
      BY <2>1, <2>3 DEF SchedType
    <2>6. Whole(u) /\ Ring(u) = Ring(r.s)
      <3>1. \A d \in Ring(r.s) : u.status[d] # "NONE"
        <4>1. \A d \in Ring(r.s) : d # c /\ d \in Chunks /\ r.s.status[d] # "NONE"
          BY <1>7 DEF Whole, Ring
        <4> QED BY <2>5, <4>1
      <3> QED BY <1>7, <2>4, <2>5, <3>1, WholeSame
    <2>7. Sectioned(Touch(SchedulerRegister(u, c), c))
      BY <1>5, <1>7, <2>5, <2>6, RegisterSections
    <2> QED BY <2>2, <2>7
  <1> QED BY <1>8, <1>9

\* A chunk that is in memory gets into use.
LEMMA GrantSections ==
    ASSUME NEW s, Sound(s, call), Sectioned(s), NEW t \in Threads, NEW o, o.chunk \in Ring(s),
           s.status[o.chunk] \in Here, Grant(t, s, o)
    PROVE  Sectioned(sched')
  <1>1. PICK c : c = o.chunk
    OBVIOUS
  <1>2. c \in Chunks /\ c \in Ring(s)
    BY <1>1 DEF Ring
  <1>3. PICK p : p = IF o.write THEN s.copies \ {c} ELSE s.copies
    OBVIOUS
  <1>4. s \in SchedType /\ Whole(s)
    BY DEF Sound, Whole, Round, Plain
  <1>5. p \in SUBSET Chunks
    BY <1>3, <1>4 DEF SchedType
  <1>6. PICK u : u = [s EXCEPT !.status[c] = "INUSE", !.copies = p]
    OBVIOUS
  <1>7. sched' = Touch(u, c)
    <2>1. u = [s EXCEPT !.status[o.chunk] = "INUSE", !.copies = IF o.write THEN @ \ {o.chunk} ELSE @]
      BY <1>1, <1>3, <1>4, <1>6 DEF SchedType
    <2> QED BY <1>1, <2>1 DEF Grant, Returns, Becomes
  <1>8. u \in SchedType
    BY <1>4, <1>5, <1>6 DEF SchedType, Statuses
  <1>9. /\ u.next = s.next /\ u.prev = s.prev /\ u.active = s.active /\ u.counterActive = s.counterActive
        /\ u.preemptiveSwapIn = s.preemptiveSwapIn /\ u.preloaded = s.preloaded
        /\ u.preemptiveStart = s.preemptiveStart /\ u.preemptiveBytes = s.preemptiveBytes
        /\ u.asynchronous = s.asynchronous
        /\ u.status[c] = "INUSE" /\ \A d \in Chunks : d # c => u.status[d] = s.status[d]
    BY <1>2, <1>4, <1>6 DEF SchedType
  <1>10. Whole(u) /\ Ring(u) = Ring(s)
    <2>1. \A d \in Ring(s) : u.status[d] # "NONE"
      BY <1>4, <1>9 DEF Whole, Ring
    <2> QED BY <1>4, <1>8, <1>9, <2>1, WholeSame
  <1>11. Sectioned(u)
    <2>1. s.status[c] \in {"ALLOCATED", "INUSE"}
      BY <1>1, <1>2 DEF Here, Sectioned
    <2>2. Ordered(s, u)
      BY <1>9 DEF Ordered
    <2> QED BY <1>4, <1>9, <2>1, <2>2, SectionedMarked
  <1>12. c \in Ring(u) /\ u.status[c] # "SWAPPED"
    BY <1>2, <1>9, <1>10
  <1>13. Sectioned(Touch(u, c))
    BY <1>10, <1>11, <1>12, TouchSections
  <1> QED BY <1>7, <1>13

\* swapIn of the chunk of a call.
LEMMA SwapInStepSections ==
    ASSUME NEW s, Sound(s, call), Sectioned(s), NEW t \in Threads, NEW o \in CallType, o.chunk \in Ring(s),
           NEW p, p = SwapIn(s, o) \/ p = SwapInWith(s, o), Becomes(t, p)
    PROVE  Sectioned(sched')
  <1>1. Whole(s)
    BY DEF Sound
  <1>2. Sectioned(p.s)
    BY <1>1, SwapInSections, SwapInWithSections
  <1> QED BY <1>2 DEF Becomes

\* setUse keeps the chunks in memory together.
LEMMA SetUseSections ==
    ASSUME Sound(sched, call), Sectioned(sched), NEW t \in Threads, NEW c \in Chunks,
           NEW write \in BOOLEAN, SetUse(t, c, write)
    PROVE  Sectioned(sched')
  <1>1. PICK s, o, p : Begun(s, o, p, t, c)
    BY SetUseIs
  <1>2. /\ Sound(s, call) /\ c \in Ring(s) /\ Ordered(sched, s) /\ s.status = sched.status
        /\ o \in CallType /\ o.chunk = c
    BY <1>1 DEF Begun
  <1>3. Sectioned(s)
    <2>1. Whole(sched)
      BY DEF Sound
    <2> QED BY <1>2, <2>1, SectionedMarked
  <1>4. CASE s.status[c] \in {"ALLOCATED", "INUSE"} /\ Grant(t, s, o)
    <2>1. s.status[o.chunk] \in Here /\ o.chunk \in Ring(s)
      BY <1>2, <1>4 DEF Here
    <2> QED BY <1>2, <1>3, <1>4, <2>1, GrantSections
  <1>5. CASE Becomes(t, [s |-> s, o |-> o]) \/ Becomes(t, [s |-> s, o |-> p])
    <2>1. sched' = s
      BY <1>5 DEF Becomes
    <2> QED BY <1>3, <2>1
  <1>6. CASE Becomes(t, SwapIn(s, o))
    <2>1. o.chunk \in Ring(s)
      BY <1>2
    <2> QED BY <1>2, <1>3, <1>6, <2>1, SwapInStepSections
  <1> QED BY <1>1, <1>4, <1>5, <1>6 DEF Begun

\* unsetUse keeps them together.
LEMMA UnsetUseSections ==
    ASSUME Sound(sched, call), Sectioned(sched), NEW t \in Threads, NEW c \in Chunks, UnsetUse(t, c)
    PROVE  Sectioned(sched')
  <1>1. PICK s, e : GivenBack(s, e, t)
    BY UnsetUseIs
  <1>2. /\ sched' = Untouch(s) /\ Ordered(sched, s) /\ Sound(s, e) /\ Ring(s) # {}
        /\ \A d \in Chunks : s.status[d] = sched.status[d] \/ (sched.status[d] = "INUSE" /\ s.status[d] = "ALLOCATED")
    BY <1>1 DEF GivenBack
  <1>3. Whole(sched) /\ Whole(s)
    BY <1>2 DEF Sound
  <1>4. Sectioned(s)
    <2>1. \A d \in Chunks : \/ s.status[d] = sched.status[d]
                            \/ sched.status[d] \in {"ALLOCATED", "INUSE"} /\ s.status[d] \in {"ALLOCATED", "INUSE"}
      BY <1>2
    <2> QED BY <1>2, <1>3, <2>1, SectionedMarked
  <1>5. Sectioned(Untouch(s))
    BY <1>2, <1>3, <1>4, UntouchSections
  <1> QED BY <1>2, <1>5

\* mfree keeps them together, unless the chunk was the only one of them and the ring had others.
LEMMA MfreeSections ==
    ASSUME Sound(sched, call), Sectioned(sched), ~SoleDeleted,
           NEW t \in Threads, NEW c \in Chunks, Mfree(t, c)
    PROVE  Sectioned(sched')
  <1>1. c \in Ring(sched) /\ Whole(sched)
    BY DEF Mfree, Sound
  <1>2. PICK d : d = SchedulerDelete(sched, c)
    OBVIOUS
  <1>3. Recast(sched, d, Ring(sched) \ {c})
    BY <1>1, <1>2, DeleteIs
  <1>4. sched.status[c] # "SWAPOUT"
    BY DEF Sectioned
  <1>5. sched' = Dropped(d, c)
    BY <1>2, <1>4 DEF Mfree, Returns, Becomes, Dropped
  <1>6. d \in SchedType
    BY <1>3 DEF Recast, Whole, Round, Plain
  <1>7. PICK r : r = Dropped(d, c)
    OBVIOUS
  <1>8. /\ r.next = d.next /\ r.active = d.active /\ r.counterActive = d.counterActive
        /\ r.asynchronous = d.asynchronous /\ r.status = [d.status EXCEPT ![c] = "NONE"]
    BY <1>6, <1>7 DEF Dropped, SchedType
  <1>9. ~(sched.active = c /\ sched.counterActive = c /\ sched.next[c] # c)
    <2> SUFFICES ASSUME sched.active = c, sched.counterActive = c, sched.next[c] # c
                 PROVE  SoleDeleted
      OBVIOUS
    <2>1. Ring(sched') = Ring(sched) \ {c}
      <3>1. sched'.next = d.next
        BY <1>5, <1>7, <1>8
      <3> QED BY <1>3, <3>1 DEF Recast, Ring
    <2>2. sched.next[c] \in Ring(sched)
      BY <1>1 DEF Whole, Round, OneRing
    <2>3. Ring(sched') # {}
      BY <2>1, <2>2
    <2>4. c # NULL
      BY <1>1, ConstantsAssumption DEF Ring
    <2> QED BY <2>1, <2>3, <2>4 DEF SoleDeleted
  <1>10. Sectioned(r)
    BY <1>1, <1>2, <1>8, <1>9, DeleteSections
  <1> QED BY <1>5, <1>7, <1>10

\* Every step keeps the chunks in memory together.
LEMMA SectionedNext ==
    ASSUME Sound(sched, call), Within(sched, call), Sectioned(sched), ~SoleDeleted, [Next]_vars
    PROVE  Sectioned(sched')
  <1>1. ASSUME NEW t \in Threads, MmallocAgain(t)
        PROVE  Sectioned(sched')
    <2>1. PICK c : c = call[t].chunk
      OBVIOUS
    <2>2. call[t].at = "malloc" /\ Allocate(t, c)
      BY <1>1, <2>1 DEF MmallocAgain
    <2>3. c \in Chunks /\ sched.status[c] = "NONE"
      BY <2>1, <2>2 DEF Sound, Placed
    <2> QED BY <2>2, <2>3, AllocateSections
  <1>2. ASSUME NEW t \in Threads, SwappedIn(t)
        PROVE  Sectioned(sched')
    <2>1. call[t].at = "waitIn" /\ Grant(t, sched, call[t])
      BY <1>2 DEF SwappedIn
    <2>2. call[t].chunk \in Ring(sched)
      BY <2>1 DEF Sound, Placed
    <2>3. sched.status[call[t].chunk] \in Here
      BY <2>1 DEF Within
    <2> QED BY <2>1, <2>2, <2>3, GrantSections
  <1>3. ASSUME NEW t \in Threads, SwappedOut(t)
        PROVE  Sectioned(sched')
    <2>1. PICK o : o = call[t]
      OBVIOUS
    <2>2. o \in CallType /\ o.at = "waitOut" /\ o.chunk \in Ring(sched)
      BY <1>3, <2>1 DEF SwappedOut, Sound, Placed
    <2>3. CASE sched.status[o.chunk] = "SWAPPED"
      <3>1. Becomes(t, SwapIn(sched, o))
        BY <1>3, <2>1, <2>3 DEF SwappedOut
      <3> QED BY <2>2, <3>1, SwapInStepSections
    <2>4. CASE sched.status[o.chunk] # "SWAPPED"
      <3>1. sched' = sched
        BY <1>3, <2>1, <2>4 DEF SwappedOut, Becomes
      <3> QED BY <3>1
    <2> QED BY <2>3, <2>4
  <1>4. ASSUME NEW t \in Threads, RoomAgain(t)
        PROVE  Sectioned(sched')
    <2>1. PICK o : o = call[t]
      OBVIOUS
    <2>2. o \in CallType /\ o.chunk \in Ring(sched)
      BY <1>4, <2>1 DEF RoomAgain, Sound, Placed
    <2>3. Becomes(t, SwapInWith(sched, o))
      BY <1>4, <2>1 DEF RoomAgain
    <2> QED BY <2>2, <2>3, SwapInStepSections
  <1>5. ASSUME NEW t \in Threads, MfreeDone(t)
        PROVE  Sectioned(sched')
    <2>1. call[t].at = "free"
      BY <1>5 DEF MfreeDone
    <2>2. call[t].chunk \in Chunks \ Ring(sched) /\ sched.status[call[t].chunk] \in Away
      BY <2>1 DEF Sound, Placed
    <2> QED BY <2>2 DEF Sectioned, Away
  <1>6. ASSUME NEW t \in Threads, NEW c \in Chunks, Mmalloc(t, c)
        PROVE  Sectioned(sched')
    <2>1. sched.status[c] = "NONE" /\ Allocate(t, c)
      BY <1>6 DEF Mmalloc
    <2> QED BY <2>1, AllocateSections
  <1>7. ASSUME NEW c \in Chunks, Arrive(c)
        PROVE  Sectioned(sched')
    <2>1. sched.status[c] \in {"SWAPIN", "SWAPOUT"}
      BY <1>7 DEF Arrive
    <2> QED BY <2>1 DEF Sectioned
  <1>8. CASE UNCHANGED vars
    BY <1>8 DEF vars
  <1>9. CASE Next
    <2>1. \/ \E t \in Threads : MmallocAgain(t) \/ SwappedIn(t) \/ SwappedOut(t) \/ RoomAgain(t) \/ MfreeDone(t)
          \/ \E t \in Threads, c \in Chunks : Mmalloc(t, c) \/ UnsetUse(t, c) \/ Mfree(t, c)
          \/ \E t \in Threads, c \in Chunks, write \in BOOLEAN : SetUse(t, c, write)
          \/ \E c \in Chunks : Arrive(c)
      BY <1>9 DEF Next
    <2> QED BY <1>1, <1>2, <1>3, <1>4, <1>5, <1>6, <1>7, <2>1, UnsetUseSections, MfreeSections, SetUseSections
  <1> QED BY <1>8, <1>9

\* The least of the places where a test holds, or 0.
LEMMA FirstIs ==
    ASSUME NEW k \in Nat, NEW I \in SUBSET (1..k), NEW b, b = IF I # {} THEN Min(I) ELSE 0
    PROVE  b \in 0..k /\ (b = 0 => I = {}) /\ (b # 0 => b \in I) /\ \A y \in I : b <= y
  <1>1. CASE I = {}
    BY <1>1
  <1>2. CASE I # {}
    <2>1. I \in SUBSET Int /\ \A y \in I : y >= 0
      OBVIOUS
    <2>2. Min(I) \in I /\ \A y \in I : Min(I) <= y
      BY <1>2, <2>1, MinIs
    <2>3. b \in I /\ \A y \in I : b <= y
      BY <1>2, <2>2
    <2> QED BY <1>2, <2>3
  <1> QED BY <1>1, <1>2

\* Seen along the ring, the chunks in memory are before the border and nowhere else.
LEMMA BorderHolds ==
    ASSUME Whole(sched), Sectioned(sched)
    PROVE  BorderTracked
  <1>1. PICK R, n, q, A, s : /\ s = sched /\ R = Ring(s) /\ n = Cardinality(R) /\ q = InRing /\ A = Resident(s)
    OBVIOUS
  <1>2. R \in SUBSET Chunks /\ A \in SUBSET R /\ NULL \notin R
    BY <1>1, ConstantsAssumption DEF Ring, Resident
  <1>3. /\ OneRing(s.next, s.prev, R) /\ Together(s.next, A, s.active, s.counterActive)
        /\ IF R = {} THEN s.active = NULL ELSE s.active \in R
    BY <1>1 DEF Whole, Round, Sectioned
  <1>4. \A c \in R : /\ s.status[c] \in Away <=> c \notin A
                     /\ s.status[c] = "SWAPPED" <=> c \notin A
    <2> TAKE c \in R
    <2>1. s.status[c] \in {"NONE", "ALLOCATED", "INUSE", "SWAPPED"}
      BY <1>1, <1>2 DEF Sectioned
    <2> QED BY <1>1, <2>1 DEF Away, Resident
  <1>5. CASE R = {}
    <2>1. InRing = <<>>
      BY <1>1, <1>3, <1>5 DEF InRing
    <2> QED BY <2>1 DEF BorderTracked
  <1>6. CASE R # {}
    <2>1. q = Walk(s.next, s.active, n) /\ s.active \in R
      BY <1>1, <1>2, <1>3, <1>6 DEF InRing
    <2>2. IsFiniteSet(R) /\ n \in Nat /\ n <= Cardinality(R)
      BY <1>1, <1>2, ConstantsAssumption, FS_Subset, FS_CardinalityType
    <2>3. \A x \in R : s.next[x] \in R
      BY <1>3 DEF OneRing
    <2>4. /\ DOMAIN q = 1..n /\ Len(q) = n
          /\ \A i \in 1..n : q[i] \in R
          /\ n > 0 => q[1] = s.active
          /\ \A i \in 1..(n - 1) : q[i + 1] = s.next[q[i]]
      <3>1. q \in Seq(R) /\ Len(q) = n
        BY <2>1, <2>2, <2>3, WalkIsSeq
      <3>2. (n > 0 => q[1] = s.active) /\ \A i \in 1..(n - 1) : q[i + 1] = s.next[q[i]]
        BY <2>1, <2>2, WalkIs
      <3> QED BY <3>1, <3>2
    <2>5. ASSUME NEW i \in 1..n, NEW j \in 1..n, i < j
          PROVE  q[j] # q[i]
      <3>1. j - 1 \in 1..(n - 1) /\ i \in 1..(j - 1) /\ (j - 1) + 1 = j
        BY <2>2, <2>5
      <3>2. Walk(s.next, s.active, n)[(j - 1) + 1] # Walk(s.next, s.active, n)[i]
        BY <1>3, <2>1, <2>2, <3>1, NoReturn
      <3> QED BY <2>1, <3>1, <3>2
    <2>6. PICK b : b = SelectInSeq(InRing, LAMBDA c : c = sched.counterActive)
      OBVIOUS
    <2>7. /\ b \in 0..n
          /\ b = 0 => \A i \in 1..n : q[i] # s.counterActive
          /\ b # 0 => q[b] = s.counterActive /\ \A i \in 1..n : q[i] = s.counterActive => b <= i
      <3>1. PICK I : I = {i \in 1..Len(InRing) : InRing[i] = sched.counterActive}
        OBVIOUS
      <3>2. b = IF I # {} THEN Min(I) ELSE 0
        BY <2>6, <3>1 DEF SelectInSeq
      <3>3. I = {i \in 1..n : q[i] = s.counterActive}
        BY <1>1, <2>4, <3>1
      <3>4. I \in SUBSET (1..n)
        BY <3>3
      <3>5. b \in 0..n /\ (b = 0 => I = {}) /\ (b # 0 => b \in I) /\ \A y \in I : b <= y
        BY <2>2, <3>2, <3>4, FirstIs
      <3> QED BY <3>3, <3>5
    <2>8. A # {} => s.active \in A /\ s.counterActive \in A /\ \A c \in A \ {s.counterActive} : s.next[c] \in A
      BY <1>3 DEF Together
    <2>9. q[1] \notin A \/ \A i \in 1..b : q[i] \in A
      <3>1. SUFFICES ASSUME q[1] \in A PROVE \A i \in 1..b : q[i] \in A
        OBVIOUS
      <3> DEFINE G == {i \in Nat : i < b => q[i + 1] \in A}
      <3>2. 0 \in G
        BY <3>1
      <3>3. ASSUME NEW i \in Nat, i \in G PROVE i + 1 \in G
        <4>1. SUFFICES ASSUME i + 1 < b PROVE q[(i + 1) + 1] \in A
          OBVIOUS
        <4>2. i + 1 \in 1..(n - 1) /\ i + 1 \in 1..n /\ i + 1 < b /\ q[i + 1] \in A
          BY <2>2, <2>7, <3>3, <4>1
        <4>3. q[i + 1] # s.counterActive
          BY <2>7, <4>2
        <4> QED BY <2>4, <2>8, <4>2, <4>3
      <3>4. \A i \in Nat : i \in G
        <4> HIDE DEF G
        <4> QED BY <3>2, <3>3, NumberInduction
      <3>5. ASSUME NEW i \in 1..b PROVE q[i] \in A
        <4>1. i - 1 \in Nat /\ i - 1 < b /\ (i - 1) + 1 = i
          BY <2>7
        <4> QED BY <3>4, <4>1
      <3> QED BY <3>5
    <2>10. ASSUME NEW i \in 1..n, NEW j \in 1..n, i > b, j > i, q[i] \in A
           PROVE  q[j] \in A
      <3>1. \A m \in 1..n : m >= i => q[m] # s.counterActive
        <4> SUFFICES ASSUME NEW m \in 1..n, m >= i, q[m] = s.counterActive PROVE FALSE
          OBVIOUS
        <4>1. b # 0
          BY <2>7
        <4>2. b \in 1..n /\ b < m /\ q[b] = q[m]
          BY <2>7, <2>10, <4>1
        <4> QED BY <2>5, <4>2
      <3> DEFINE G == {e \in Nat : i + e <= n => q[i + e] \in A}
      <3>2. 0 \in G
        BY <2>10
      <3>3. ASSUME NEW e \in Nat, e \in G PROVE e + 1 \in G
        <4>1. SUFFICES ASSUME i + (e + 1) <= n PROVE q[i + (e + 1)] \in A
          OBVIOUS
        <4>2. i + e \in 1..(n - 1) /\ i + e \in 1..n /\ i + e >= i /\ (i + e) + 1 = i + (e + 1) /\ q[i + e] \in A
          BY <2>2, <3>3, <4>1
        <4>3. q[i + e] # s.counterActive
          BY <3>1, <4>2
        <4>4. q[(i + e) + 1] \in A
          BY <2>4, <2>8, <4>2, <4>3
        <4> QED BY <4>2, <4>4
      <3>4. \A e \in Nat : e \in G
        <4> HIDE DEF G
        <4> QED BY <3>2, <3>3, NumberInduction
      <3>5. j - i \in Nat /\ i + (j - i) = j /\ j <= n
        BY <2>10
      <3>6. j - i \in G
        BY <3>4, <3>5
      <3> QED BY <3>5, <3>6
    <2>11. n > 0
      <3>1. n # 0
        BY <1>1, <1>6, <2>2, FS_EmptySet
      <3> QED BY <2>2, <3>1
    <2>12. s.status[q[1]] \in Away \/ \A i \in 1..b : ~(s.status[q[i]] \in Away)
      <3>1. 1 \in 1..n /\ \A i \in 1..b : i \in 1..n
        BY <2>2, <2>7, <2>11
      <3> QED BY <1>4, <2>4, <2>9, <3>1
    <2>13. \A i \in DOMAIN q, j \in DOMAIN q :
              (i > b /\ j > i /\ ~(s.status[q[i]] \in Away)) => s.status[q[j]] # "SWAPPED"
      <3>1. SUFFICES ASSUME NEW i \in 1..n, NEW j \in 1..n, i > b, j > i, ~(s.status[q[i]] \in Away)
                     PROVE  s.status[q[j]] # "SWAPPED"
        BY <2>4
      <3>2. q[i] \in A
        BY <1>4, <2>4, <3>1
      <3>3. q[j] \in A
        BY <2>10, <3>1, <3>2
      <3> QED BY <1>4, <2>4, <3>3
    <2>14. /\ sched.status[InRing[1]] \in Away \/ \A i \in 1..b : ~(sched.status[InRing[i]] \in Away)
           /\ \A i \in DOMAIN InRing, j \in DOMAIN InRing :
                 (i > b /\ j > i /\ ~(sched.status[InRing[i]] \in Away)) => sched.status[InRing[j]] # "SWAPPED"
      BY <1>1, <2>12, <2>13
    <2> QED BY <2>6, <2>14 DEF BorderTracked
  <1> QED BY <1>5, <1>6

\* With a swap that transfers at once and without guesses, counterActive is the border: the order
\* in which touch, swapOut, swapIn, allocation and deletion leave the chunks is the one swapOut
\* and swapIn count on, until a deletion takes the only chunk in memory from a ring that has
\* others.
THEOREM RingBorderTracked == Spec /\ ~sched.preemptiveSwapIn /\ ~sched.asynchronous => []BorderTracked
  <1> DEFINE Kept == "deleteSole" \in corners \/ Sectioned(sched)
  <1>1. Sound(sched, call) /\ Kept => BorderTracked
    <2>1. CASE "deleteSole" \in corners
      BY <2>1 DEF BorderTracked
    <2>2. Sound(sched, call) /\ Sectioned(sched) => BorderTracked
      BY BorderHolds DEF Sound
    <2> QED BY <2>1, <2>2
  <1>2. Init /\ ~sched.asynchronous => Kept
    <2> SUFFICES ASSUME Init, ~sched.asynchronous PROVE Sectioned(sched)
      OBVIOUS
    <2>1. /\ sched.next = [c \in Chunks |-> NULL] /\ sched.status = [c \in Chunks |-> "NONE"]
          /\ sched.active = NULL /\ sched.counterActive = NULL
      BY DEF Init
    <2>2. Ring(sched) = {}
      BY <2>1 DEF Ring
    <2>3. Resident(sched) = {}
      BY <2>2 DEF Resident
    <2> QED BY <2>1, <2>2, <2>3 DEF Sectioned, Together
  <1>3. Sound(sched, call) /\ Within(sched, call) /\ Kept /\ [Next]_vars => Kept'
    <2> SUFFICES ASSUME Sound(sched, call), Within(sched, call), Kept, [Next]_vars
                 PROVE  "deleteSole" \in corners' \/ Sectioned(sched')
      OBVIOUS
    <2>1. CASE UNCHANGED vars
      BY <2>1 DEF vars
    <2>2. CASE Next
      <3>1. corners' = corners \cup CornersMet
        BY <2>2 DEF Next
      <3>2. CASE "deleteSole" \in corners
        BY <3>1, <3>2
      <3>3. CASE SoleDeleted
        <4>1. "deleteSole" \in CornersMet
          BY <3>3 DEF CornersMet, CornerCases
        <4> QED BY <3>1, <4>1
      <3>4. CASE Sectioned(sched) /\ ~SoleDeleted
        BY <3>4, SectionedNext
      <3> QED BY <3>2, <3>3, <3>4
    <2> QED BY <2>1, <2>2
  <1> HIDE DEF Kept
  <1> QED BY <1>1, <1>2, <1>3, SoundAlways, WithinAlways, PTL DEF Spec
=============================================================================
