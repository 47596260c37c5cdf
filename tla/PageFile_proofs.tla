---------------------------- MODULE PageFile_proofs ----------------------------
(***************************************************************************)
(* What the operators of PageFile do, for every state in which the         *)
(* locations tile the swap.  In this order: allocInFree and one location   *)
(* of pffree keep the tiling (AllocTiled, FreeTiled) and swapFree follows  *)
(* the bytes they lose or take back (AllocBalanced, FreeBalanced); pffree  *)
(* gives back the chain of a chunk from its front (PffreeIs);              *)
(* cleanupCachedElements deletes whole page copies (CleanupIs); and        *)
(* pfmalloc finds locations for all of a chunk, or none (PfmallocIs).      *)
(* The loops of the code are folds; each is shown to be a walk, step by    *)
(* step (module Walks), and followed by induction on the number of steps.  *)
(***************************************************************************)
EXTENDS PageFile, Sums, SequenceTheorems

-----------------------------------------------------------------------------
(* The loops *)

\* One step of each walk of the model along a sequence: of Pffree along the locations of a
\* chunk, of CleanupCachedElements along the chunks, of Distribute along the free locations,
\* and of the sum over the locations of a chunk.
PffreeStep(c, a, off) ==
    IF off # Head(a.parts[c]) \/ off \in a.pending THEN a
    ELSE [FreeLocation(a, off) EXCEPT !.parts[c] = Tail(@)]

CleanupStep(minimum, a, c) ==
    IF c \in Cached(a.s) /\ (minimum = 0 \/ a.cleanedUp < minimum)
    THEN [s |-> Pffree(a.s, c), cleanedUp |-> a.cleanedUp + Size[c]] ELSE a

DistributeStep(s, a, off) ==
    LET avail == Least(LocationSize(a.s, off), a.left)
        here  == IF a.left > avail THEN avail - (avail % s.layout.alignment) ELSE avail
        last  == a.left = here
    IN  IF a.left = 0 THEN a
        ELSE [s |-> AllocInFree(a.s, off, here, IF last THEN "END" ELSE "PART"),
              parts |-> Append(a.parts, off), left |-> a.left - here]

WalkStep(walk, x, a, e) ==
    CASE walk = "pffree"     -> PffreeStep(x, a, e)
      [] walk = "cleanup"    -> CleanupStep(x, a, e)
      [] walk = "distribute" -> DistributeStep(x, a, e)
      [] walk = "bytes"      -> a + LocationSize(x, e)

INSTANCE Walks WITH Step <- WalkStep

-----------------------------------------------------------------------------
(* Numbers *)

\* Multiples are what leaves no remainder.
LEMMA Multiples ==
    ASSUME NEW x \in Int, NEW a \in Nat \ {0}
    PROVE  x % a = 0 <=> \E k \in Int : x = a * k
  <1>1. PICK d \in Int, r \in Int : d = x \div a /\ r = x % a
    OBVIOUS
  <1>2. x = a * d + r
    BY <1>1
  <1>3. \A k \in Int : x = a * k => x % a = 0
    OBVIOUS
  <1>4. x % a = 0 => x = a * d
    BY <1>1, <1>2
  <1> QED BY <1>1, <1>3, <1>4

\* Sums and differences of multiples are multiples.
LEMMA MultiplesAdd ==
    ASSUME NEW x \in Int, NEW y \in Int, NEW a \in Nat \ {0}, x % a = 0, y % a = 0
    PROVE  (x + y) % a = 0 /\ (x - y) % a = 0
  <1>1. PICK k \in Int : x = a * k
    BY Multiples
  <1>2. PICK l \in Int : y = a * l
    BY Multiples
  <1>3. x + y = a * (k + l) /\ x - y = a * (k - l)
    BY <1>1, <1>2
  <1>4. k + l \in Int /\ k - l \in Int /\ x + y \in Int /\ x - y \in Int
    OBVIOUS
  <1> QED BY <1>3, <1>4, Multiples

-----------------------------------------------------------------------------
(* The locations *)

Location == [size : Nat \ {0}, status : {"FREE", "PART", "END"}]

SwapType ==
    [all_space : UNION {[D -> Location] : D \in SUBSET Nat}, free_space : SUBSET Nat,
     swapSize : Nat, swapFree : 0..(2^Width - 1), parts : [Chunks -> Seq(Nat)],
     pending : SUBSET Nat, tracker : [Chunks -> Int], status : [Chunks -> Statuses],
     memChunks : Seq(Chunks), thrown : Chunks \cup {"none", "past the end"},
     layout : Layouts, policy : Policies]

Used(s) == DOMAIN s.all_space \ s.free_space

Span(s) == DOMAIN s.all_space \subseteq 0..(s.swapSize - 1)

\* nx is the key after off, or the end of the swap.
IsNext(s, off, nx) ==
    /\ nx \in DOMAIN s.all_space \cup {s.swapSize} /\ nx > off
    /\ \A o \in DOMAIN s.all_space : o > off => o >= nx

Files(s) ==
    /\ \E k \in 1..MaxFiles : s.swapSize = k * PageFileSize
    /\ Span(s)
    /\ \A off \in 0..(s.swapSize - 1) : StartOfFile(off) => off \in DOMAIN s.all_space
    /\ s.free_space = {off \in DOMAIN s.all_space : Free(s, off)}

\* What SpaceTiled says of one location.
Placed(s, off) ==
    /\ off % s.layout.alignment = 0
    /\ \A next \in Nat : IsNext(s, off, next) =>
          IF Free(s, off) THEN off + LocationSize(s, off) = next /\ (Free(s, next) => StartOfFile(next))
          ELSE /\ off + LocationSize(s, off) <= next
               /\ next <= off + LocationSize(s, off) + s.layout.alignment + s.layout.record

Tiled(s) == Files(s) /\ \A off \in DOMAIN s.all_space : Placed(s, off)

\* The keys are natural numbers and map to locations.
LEMMA KeysAre ==
    ASSUME NEW s \in SwapType
    PROVE  /\ DOMAIN s.all_space \subseteq Nat /\ s.swapSize \in Nat
           /\ \A off \in DOMAIN s.all_space : /\ off \in Nat /\ s.all_space[off] \in Location
                                             /\ LocationSize(s, off) \in Nat \ {0}
  <1>1. PICK D \in SUBSET Nat : s.all_space \in [D -> Location]
    BY DEF SwapType
  <1>2. s.swapSize \in Nat
    BY DEF SwapType
  <1> QED BY <1>1, <1>2 DEF LocationSize, Location

\* Following is the next key, and the only one.
LEMMA FollowingIs ==
    ASSUME NEW s \in SwapType, Span(s), NEW off \in Int, off < s.swapSize
    PROVE  /\ Following(s, off) \in Nat /\ IsNext(s, off, Following(s, off))
           /\ \A nx \in Nat : IsNext(s, off, nx) => nx = Following(s, off)
  <1> DEFINE S == {o \in DOMAIN s.all_space : o > off} \cup {s.swapSize}
  <1>1. DOMAIN s.all_space \subseteq Nat /\ s.swapSize \in Nat
    BY KeysAre
  <1>2. S \in SUBSET Int /\ S # {} /\ 0 \in Int /\ \A x \in S : x >= 0
    BY <1>1
  <1>3. Min(S) \in S /\ \A y \in S : Min(S) <= y
    <2> HIDE DEF S
    <2> QED BY <1>2, MinIs
  <1>4. Following(s, off) = Min(S)
    BY DEF Following
  <1>5. Min(S) \in Nat /\ IsNext(s, off, Min(S))
    BY <1>1, <1>3 DEF IsNext
  <1>6. ASSUME NEW nx \in Nat, IsNext(s, off, nx) PROVE nx = Min(S)
    <2>1. nx \in S
      BY <1>6 DEF IsNext
    <2>2. Min(S) >= nx
      BY <1>1, <1>3, <1>6 DEF IsNext, Span
    <2>3. Min(S) <= nx
      BY <1>3, <2>1
    <2> QED BY <1>5, <2>2, <2>3
  <1> QED BY <1>4, <1>5, <1>6

\* The key before off, or -1.
LEMMA PrecedingIs ==
    ASSUME NEW s \in SwapType, NEW off \in Nat,
           NEW b, b = Max({o \in DOMAIN s.all_space : o < off} \cup {-1})
    PROVE  /\ b \in DOMAIN s.all_space \cup {-1} /\ b \in Int /\ b < off
           /\ \A o \in DOMAIN s.all_space : o < off => o <= b
  <1> DEFINE S == {o \in DOMAIN s.all_space : o < off} \cup {-1}
  <1>1. DOMAIN s.all_space \subseteq Nat
    BY KeysAre
  <1>2. S \in SUBSET Int /\ S # {} /\ off \in Int /\ \A x \in S : x <= off
    BY <1>1
  <1>3. b \in S /\ \A y \in S : b >= y
    <2>1. b = Max(S)
      OBVIOUS
    <2> HIDE DEF S
    <2> QED BY <1>2, <2>1, MaxIs
  <1> QED BY <1>1, <1>3

\* Layouts are what ConstantsAssumption says.
LEMMA LayoutIs ==
    ASSUME NEW s \in SwapType
    PROVE  /\ s.layout.alignment \in Nat \ {0} /\ s.layout.record \in Nat \ {0}
           /\ PageFileSize % s.layout.alignment = 0
  BY ConstantsAssumption DEF SwapType

\* Padding goes up to the next multiple of the alignment.
LEMMA PaddedIs ==
    ASSUME NEW s \in SwapType, NEW n \in Nat
    PROVE  /\ Padded(s, n) \in Nat /\ Padded(s, n) % s.layout.alignment = 0
           /\ n <= Padded(s, n) /\ Padded(s, n) < n + s.layout.alignment
           /\ \A m \in Nat : (m % s.layout.alignment = 0 /\ n <= m) => Padded(s, n) <= m
  <1>1. PICK a \in Nat \ {0} : a = s.layout.alignment
    BY LayoutIs
  <1>2. PICK d \in Int, r \in Int : d = (n + a - 1) \div a /\ r = (n + a - 1) % a
    BY <1>1
  <1>3. n + a - 1 = a * d + r /\ r >= 0 /\ r <= a - 1 /\ d \in Int /\ r \in Int
    <2>1. a \in Nat \ {0}
      BY <1>1
    <2>2. n + a - 1 = a * d + r /\ r >= 0 /\ r <= a - 1
      BY <1>2, <2>1
    <2> QED BY <1>2, <2>2
  <1>4. Padded(s, n) = d * a
    BY <1>1, <1>2 DEF Padded
  <1>5. PICK p \in Int : p = a * d
    BY <1>1, <1>2
  <1>6. p % a = 0
    BY <1>1, <1>2, <1>5, Multiples
  <1>7. n <= p /\ p < n + a
    <2>1. n + a - 1 = p + r
      BY <1>3, <1>5
    <2>2. p \in Int /\ a \in Nat /\ r \in Int /\ r >= 0 /\ r <= a - 1
      BY <1>1, <1>3, <1>5
    <2> QED BY <2>1, <2>2
  <1>8. \A m \in Nat : (m % a = 0 /\ n <= m) => p <= m
    <2>1. SUFFICES ASSUME NEW m \in Nat, m % a = 0, n <= m, m < p PROVE FALSE
      BY <1>5
    <2>2. PICK k \in Int : m = a * k
      <3>1. m \in Int /\ a \in Nat \ {0} /\ m % a = 0
        BY <1>1, <2>1
      <3> QED BY <3>1, Multiples
    <2>3. PICK e \in Int : e = d - k
      <3>1. d \in Int /\ k \in Int
        BY <1>3, <2>2
      <3> QED BY <3>1
    <2>4. a * e = p - m
      BY <1>1, <1>3, <1>5, <2>2, <2>3
    <2>5. e >= 1
      <3>1. e <= 0 => a * e <= 0
        BY <1>1, <2>3
      <3> QED BY <1>5, <2>1, <2>3, <2>4, <3>1
    <2>6. a * e >= a
      BY <1>1, <2>3, <2>5
    <2>7. n + a > m + a
      BY <1>1, <1>5, <1>7, <2>1, <2>4, <2>6
    <2> QED BY <1>1, <2>1, <2>7
  <1> QED BY <1>1, <1>4, <1>5, <1>6, <1>7, <1>8

\* The end of the swap and the starts of files are aligned.
LEMMA SwapSizeAligned ==
    ASSUME NEW s \in SwapType, Files(s)
    PROVE  s.swapSize % s.layout.alignment = 0
  <1>1. PICK a \in Nat \ {0} : a = s.layout.alignment /\ PageFileSize % a = 0
    BY LayoutIs
  <1>2. PICK j \in Int : PageFileSize = a * j
    <2>1. PageFileSize \in Int
      BY ConstantsAssumption
    <2> QED BY <1>1, <2>1, Multiples
  <1>3. PICK k \in Int : s.swapSize = k * PageFileSize
    BY DEF Files
  <1>4. PICK i \in Int : i = k * j
    BY <1>2, <1>3
  <1>5. s.swapSize = a * i /\ s.swapSize \in Int
    BY <1>1, <1>2, <1>3, <1>4, KeysAre
  <1> QED BY <1>1, <1>4, <1>5, Multiples

\* Every location but the last ends where an aligned one begins; free ones are aligned in size.
LEMMA FreeAligned ==
    ASSUME NEW s \in SwapType, Tiled(s), NEW off \in s.free_space
    PROVE  /\ off \in DOMAIN s.all_space /\ Free(s, off) /\ off \in Nat /\ off < s.swapSize
           /\ off % s.layout.alignment = 0
           /\ LocationSize(s, off) \in Nat \ {0} /\ LocationSize(s, off) % s.layout.alignment = 0
           /\ IsNext(s, off, off + LocationSize(s, off))
           /\ \A next \in Nat : IsNext(s, off, next) => next = off + LocationSize(s, off)
  <1>1. off \in DOMAIN s.all_space /\ Free(s, off) /\ Placed(s, off) /\ Span(s)
    BY DEF Tiled, Files
  <1>2. off \in Nat /\ LocationSize(s, off) \in Nat \ {0} /\ off < s.swapSize
    BY <1>1, KeysAre DEF Span
  <1>3. PICK nx \in Nat : IsNext(s, off, nx)
    BY <1>1, <1>2, FollowingIs
  <1>4. off + LocationSize(s, off) = nx
    BY <1>1, <1>3 DEF Placed
  <1>5. nx % s.layout.alignment = 0
    <2>1. CASE nx = s.swapSize
      BY <2>1, SwapSizeAligned DEF Tiled
    <2>2. CASE nx \in DOMAIN s.all_space
      BY <2>2 DEF Tiled, Placed
    <2> QED BY <1>3, <2>1, <2>2 DEF IsNext
  <1>6. PICK a \in Nat \ {0} : a = s.layout.alignment
    BY LayoutIs
  <1>7. (nx - off) % a = 0
    BY <1>1, <1>2, <1>5, <1>6, MultiplesAdd DEF Placed
  <1>8. nx - off = LocationSize(s, off)
    BY <1>2, <1>4
  <1>9. \A next \in Nat : IsNext(s, off, next) => next = off + LocationSize(s, off)
    BY <1>1 DEF Placed
  <1> QED BY <1>1, <1>2, <1>3, <1>4, <1>6, <1>7, <1>8, <1>9 DEF Placed

-----------------------------------------------------------------------------
(* allocInFree *)

\* r differs from s at most in what the locations are and in the bytes that are free.
Beside(s, r) ==
    /\ r.swapSize = s.swapSize /\ r.parts = s.parts /\ r.pending = s.pending
    /\ r.tracker = s.tracker /\ r.status = s.status /\ r.memChunks = s.memChunks
    /\ r.thrown = s.thrown /\ r.layout = s.layout /\ r.policy = s.policy

\* In r, n bytes at off are used that were free in s, and nothing else is.
Alloced(s, r, off, n, status) ==
    /\ off \in DOMAIN r.all_space /\ r.all_space[off] = [size |-> n, status |-> status]
    /\ Used(r) = Used(s) \cup {off}
    /\ \A o \in DOMAIN s.all_space \ {off} : o \in DOMAIN r.all_space /\ r.all_space[o] = s.all_space[o]
    /\ s.free_space \ {off} \subseteq r.free_space

\* What Wrap gives is an unsigned number.
LEMMA WrapIs ==
    ASSUME NEW n \in Int
    PROVE  Wrap(n) \in 0..(2^Width - 1)
  <1>1. PICK w \in Int : w = 2^Width /\ w > 0
    BY ConstantsAssumption
  <1>2. n % w \in 0..(w - 1)
    BY <1>1
  <1> QED BY <1>1, <1>2 DEF Wrap

\* The two ways in which allocInFree ends; P bytes are what n bytes are padded to.
AllocEnds(s, r, off, n, status, P) ==
    /\ r \in SwapType /\ Beside(s, r) /\ P \in Nat /\ n <= P /\ P <= LocationSize(s, off)
    /\ P < n + s.layout.alignment /\ P % s.layout.alignment = 0
    /\ \/ /\ LocationSize(s, off) < P + s.layout.record
          /\ DOMAIN r.all_space = DOMAIN s.all_space
          /\ r.all_space[off] = [size |-> n, status |-> status]
          /\ \A o \in DOMAIN s.all_space \ {off} : r.all_space[o] = s.all_space[o]
          /\ r.free_space = s.free_space \ {off}
          /\ r.swapFree = Wrap(s.swapFree - (P - n) - (LocationSize(s, off) - P))
       \/ /\ LocationSize(s, off) >= P + s.layout.record
          /\ DOMAIN r.all_space = DOMAIN s.all_space \cup {off + P}
          /\ r.all_space[off] = [size |-> n, status |-> status]
          /\ r.all_space[off + P] = [size |-> LocationSize(s, off) - P, status |-> "FREE"]
          /\ \A o \in DOMAIN s.all_space \ {off, off + P} : r.all_space[o] = s.all_space[o]
          /\ r.free_space = (s.free_space \ {off}) \cup {off + P}
          /\ r.swapFree = Wrap(s.swapFree - (P - n))

\* These are all.
LEMMA AllocFields ==
    ASSUME NEW s \in SwapType, Tiled(s), NEW off \in s.free_space,
           NEW n \in 1..LocationSize(s, off), NEW status \in {"PART", "END"},
           NEW r, r = AllocInFree(s, off, n, status)
    PROVE  AllocEnds(s, r, off, n, status, Padded(s, n))
  <1> DEFINE P == Padded(s, n)
  <1>1. /\ off \in DOMAIN s.all_space /\ off \in Nat
        /\ LocationSize(s, off) \in Nat \ {0} /\ LocationSize(s, off) % s.layout.alignment = 0
    BY FreeAligned
  <1>2. n \in Nat \ {0}
    BY <1>1
  <1>3. /\ P \in Nat /\ n <= P /\ P < n + s.layout.alignment /\ P <= LocationSize(s, off)
        /\ P % s.layout.alignment = 0
    BY <1>1, <1>2, PaddedIs
  <1>4. s.layout.record \in Nat \ {0} /\ s.layout.alignment \in Nat \ {0}
    BY LayoutIs
  <1>5. PICK D \in SUBSET Nat : s.all_space \in [D -> Location] /\ D = DOMAIN s.all_space
    BY DEF SwapType
  <1>6. PICK here : here = Put(s.all_space, off, [size |-> n, status |-> status])
    OBVIOUS
  <1>7. [size |-> n, status |-> status] \in Location
    BY <1>2 DEF Location
  <1>8. /\ here \in [D -> Location] /\ DOMAIN here = D
        /\ here[off] = [size |-> n, status |-> status] /\ \A x \in D \ {off} : here[x] = s.all_space[x]
    <2>1. D \cup {off} = D
      BY <1>1, <1>5
    <2>2. PICK f : f = s.all_space
      OBVIOUS
    <2>3. PICK v \in Location : v = [size |-> n, status |-> status]
      BY <1>7
    <2>4. /\ here \in [D \cup {off} -> Location] /\ DOMAIN here = D \cup {off}
          /\ here[off] = v /\ \A x \in D \ {off} : here[x] = f[x]
      <3>1. f \in [DOMAIN f -> Location] /\ DOMAIN f = D /\ here = Put(f, off, v)
        BY <1>5, <1>6, <2>2, <2>3
      <3> QED BY <2>3, <3>1 DEF Put
    <2> QED BY <2>1, <2>2, <2>3, <2>4
  <1>9. /\ s.swapFree \in Int /\ s.free_space \in SUBSET Nat
        /\ s.swapFree - (P - n) - (LocationSize(s, off) - P) \in Int
        /\ s.swapFree - (P - n) \in Int
    <2>1. 2^Width \in Int
      BY ConstantsAssumption
    <2>2. s.swapFree \in Int
      <3>1. s.swapFree \in 0..(2^Width - 1)
        BY DEF SwapType
      <3> QED BY <2>1, <3>1
    <2>3. s.free_space \in SUBSET Nat
      BY DEF SwapType
    <2> QED BY <1>1, <1>2, <1>3, <2>2, <2>3
  <1>10. CASE LocationSize(s, off) < P + s.layout.record
    <2>1. PICK w : w = Wrap(s.swapFree - (P - n) - (LocationSize(s, off) - P))
      OBVIOUS
    <2>2. w \in 0..(2^Width - 1)
      BY <1>9, <2>1, WrapIs
    <2>3. LocationSize(s, off) - P < s.layout.record
      BY <1>1, <1>3, <1>4, <1>10
    <2>4. r = [s EXCEPT !.all_space = here, !.free_space = s.free_space \ {off}, !.swapFree = w]
      BY <1>6, <2>1, <2>3 DEF AllocInFree
    <2>5. /\ r \in SwapType /\ Beside(s, r) /\ r.all_space = here /\ r.free_space = s.free_space \ {off}
          /\ r.swapFree = w
      <3>1. here \in UNION {[E -> Location] : E \in SUBSET Nat}
        BY <1>8
      <3>2. s.free_space \ {off} \in SUBSET Nat
        BY <1>9
      <3> QED BY <2>2, <2>4, <3>1, <3>2 DEF SwapType, Beside
    <2> QED BY <1>3, <1>5, <1>8, <1>10, <2>1, <2>5 DEF AllocEnds
  <1>11. CASE LocationSize(s, off) >= P + s.layout.record
    <2>1. PICK w : w = Wrap(s.swapFree - (P - n))
      OBVIOUS
    <2>2. w \in 0..(2^Width - 1)
      BY <1>9, <2>1, WrapIs
    <2>3. ~ LocationSize(s, off) - P < s.layout.record
      BY <1>1, <1>3, <1>4, <1>11
    <2>4. PICK v : v = [size |-> LocationSize(s, off) - P, status |-> "FREE"]
      OBVIOUS
    <2>5. v \in Location
      <3>1. LocationSize(s, off) - P \in Nat \ {0}
        BY <1>1, <1>3, <1>4, <1>11
      <3> QED BY <2>4, <3>1 DEF Location
    <2>6. PICK new \in Nat : new = off + P /\ new # off
      BY <1>1, <1>2, <1>3
    <2>7. PICK two : two = Put(here, new, v)
      OBVIOUS
    <2>8. /\ two \in [D \cup {new} -> Location] /\ DOMAIN two = D \cup {new} /\ two[new] = v
          /\ \A x \in D \ {new} : two[x] = here[x]
      <3>1. here \in [DOMAIN here -> Location] /\ DOMAIN here = D
        BY <1>8
      <3> QED BY <2>5, <2>7, <3>1 DEF Put
    <2>9. r = [s EXCEPT !.all_space = two, !.free_space = (s.free_space \ {off}) \cup {new}, !.swapFree = w]
      BY <1>6, <2>1, <2>3, <2>4, <2>6, <2>7 DEF AllocInFree
    <2>10. /\ r \in SwapType /\ Beside(s, r) /\ r.all_space = two
           /\ r.free_space = (s.free_space \ {off}) \cup {new} /\ r.swapFree = w
      <3>1. two \in UNION {[E -> Location] : E \in SUBSET Nat}
        <4>1. D \cup {new} \in SUBSET Nat
          BY <1>5, <2>6
        <4> QED BY <2>8, <4>1
      <3>2. (s.free_space \ {off}) \cup {new} \in SUBSET Nat
        BY <1>9, <2>6
      <3> QED BY <2>2, <2>9, <3>1, <3>2 DEF SwapType, Beside
    <2>11. two[off] = [size |-> n, status |-> status]
      BY <1>1, <1>5, <1>8, <2>6, <2>8
    <2>12. \A o \in D \ {off, new} : two[o] = s.all_space[o]
      BY <1>8, <2>8
    <2> QED BY <1>3, <1>5, <1>11, <2>1, <2>4, <2>6, <2>8, <2>10, <2>11, <2>12 DEF AllocEnds
  <1> QED BY <1>1, <1>3, <1>4, <1>10, <1>11

\* What free means, spelled out.
LEMMA FreeIs ==
    ASSUME NEW s \in SwapType, NEW off
    PROVE  Free(s, off) <=> off \in DOMAIN s.all_space /\ s.all_space[off].status = "FREE"
  BY DEF Free

\* allocInFree keeps the locations a tiling, and uses what it was asked for.
LEMMA AllocTiled ==
    ASSUME NEW s \in SwapType, Tiled(s), NEW off \in s.free_space,
           NEW n \in 1..LocationSize(s, off), NEW status \in {"PART", "END"},
           NEW r, r = AllocInFree(s, off, n, status)
    PROVE  r \in SwapType /\ Beside(s, r) /\ Tiled(r) /\ Alloced(s, r, off, n, status)
  <1> DEFINE A == s.all_space
             B == r.all_space
             P == Padded(s, n)
             size == LocationSize(s, off)
             new == off + P
  <1>1. /\ r \in SwapType /\ Beside(s, r) /\ P \in Nat /\ n <= P /\ P <= size
        /\ P < n + s.layout.alignment /\ P % s.layout.alignment = 0
        /\ \/ /\ size < P + s.layout.record
              /\ DOMAIN B = DOMAIN A /\ B[off] = [size |-> n, status |-> status]
              /\ \A o \in DOMAIN A \ {off} : B[o] = A[o]
              /\ r.free_space = s.free_space \ {off}
           \/ /\ size >= P + s.layout.record
              /\ DOMAIN B = DOMAIN A \cup {new} /\ B[off] = [size |-> n, status |-> status]
              /\ B[new] = [size |-> size - P, status |-> "FREE"]
              /\ \A o \in DOMAIN A \ {off, new} : B[o] = A[o]
              /\ r.free_space = (s.free_space \ {off}) \cup {new}
    <2>1. AllocEnds(s, r, off, n, status, Padded(s, n))
      BY AllocFields
    <2> QED BY <2>1 DEF AllocEnds
  <1>2. /\ off \in DOMAIN A /\ Free(s, off) /\ off \in Nat /\ off < s.swapSize
        /\ off % s.layout.alignment = 0 /\ size \in Nat \ {0} /\ IsNext(s, off, off + size)
        /\ \A next \in Nat : IsNext(s, off, next) => next = off + size
    BY FreeAligned
  <1>3. /\ DOMAIN A \subseteq Nat /\ s.swapSize \in Nat /\ n \in Nat \ {0}
        /\ \A o \in DOMAIN A : o \in Nat /\ A[o].size \in Nat \ {0}
    BY <1>2, KeysAre DEF LocationSize
  <1>4. s.layout.record \in Nat \ {0} /\ s.layout.alignment \in Nat \ {0}
    BY LayoutIs
  <1>5. r.swapSize = s.swapSize /\ r.layout = s.layout
    BY <1>1 DEF Beside
  <1>6. /\ \E k \in 1..MaxFiles : s.swapSize = k * PageFileSize
        /\ DOMAIN A \subseteq 0..(s.swapSize - 1)
        /\ \A o \in 0..(s.swapSize - 1) : StartOfFile(o) => o \in DOMAIN A
        /\ \A o \in Nat : o \in s.free_space <=> o \in DOMAIN A /\ A[o].status = "FREE"
        /\ s.free_space \subseteq DOMAIN A
    BY FreeIs DEF Tiled, Files, Span
  <1>7. \A o \in DOMAIN A : Placed(s, o)
    BY DEF Tiled
  <1>8. B[off].status # "FREE" /\ B[off].size = n
    BY <1>1
  <1> HIDE DEF P, size, new
  <1>9. CASE /\ size < P + s.layout.record
             /\ DOMAIN B = DOMAIN A /\ B[off] = [size |-> n, status |-> status]
             /\ \A o \in DOMAIN A \ {off} : B[o] = A[o]
             /\ r.free_space = s.free_space \ {off}
    <2>1. \A o, next : IsNext(r, o, next) <=> IsNext(s, o, next)
      BY <1>5, <1>9 DEF IsNext
    <2>2. \A o \in Nat : o \in r.free_space <=> o \in DOMAIN B /\ B[o].status = "FREE"
      BY <1>2, <1>6, <1>8, <1>9
    <2>3. \A o : Free(r, o) => Free(s, o)
      BY <1>1, <1>8, <1>9, FreeIs
    <2>4. Files(r)
      <3>1. r.free_space = {o \in DOMAIN B : Free(r, o)}
        BY <1>1, <1>3, <1>6, <1>9, <2>2, FreeIs
      <3> QED BY <1>5, <1>6, <1>9, <3>1 DEF Files, Span
    <2>5. ASSUME NEW o \in DOMAIN B PROVE Placed(r, o)
      <3>1. CASE o = off
        <4>1. ASSUME NEW next \in Nat, IsNext(r, o, next)
              PROVE  off + n <= next /\ next <= off + n + s.layout.alignment + s.layout.record
          <5>1. next = off + size
            BY <1>2, <2>1, <3>1, <4>1
          <5> QED BY <1>1, <1>2, <1>3, <1>4, <1>9, <5>1
        <4>2. ~ Free(r, o)
          BY <1>1, <1>8, <3>1, FreeIs
        <4> QED BY <1>2, <1>5, <1>8, <3>1, <4>1, <4>2 DEF Placed, LocationSize
      <3>2. CASE o # off
        <4>1. B[o] = A[o] /\ o \in DOMAIN A
          BY <1>9, <3>2
        <4>2. (Free(r, o) <=> Free(s, o)) /\ LocationSize(r, o) = LocationSize(s, o)
          BY <1>1, <1>9, <4>1, FreeIs DEF LocationSize
        <4> QED BY <1>5, <1>7, <2>1, <2>3, <4>1, <4>2 DEF Placed
      <3> QED BY <3>1, <3>2
    <2>6. Alloced(s, r, off, n, status)
      <3>1. Used(r) = Used(s) \cup {off}
        BY <1>2, <1>6, <1>9 DEF Used
      <3> QED BY <1>2, <1>9, <3>1 DEF Alloced
    <2> QED BY <1>1, <2>4, <2>5, <2>6 DEF Tiled
  <1>10. CASE /\ size >= P + s.layout.record
              /\ DOMAIN B = DOMAIN A \cup {new} /\ B[off] = [size |-> n, status |-> status]
              /\ B[new] = [size |-> size - P, status |-> "FREE"]
              /\ \A o \in DOMAIN A \ {off, new} : B[o] = A[o]
              /\ r.free_space = (s.free_space \ {off}) \cup {new}
    <2>1. new \in Nat /\ off < new /\ new < off + size /\ new = off + P
      BY <1>1, <1>2, <1>3, <1>4, <1>10 DEF new
    <2>2. new \notin DOMAIN A
      BY <1>2, <1>3, <2>1 DEF IsNext
    <2>3. B[new].status = "FREE" /\ B[new].size = size - P
      BY <1>10
    <2>4. off + size <= s.swapSize
      BY <1>2, <1>3, <1>6 DEF IsNext
    <2>5. \A o \in Nat : o \in r.free_space <=> o \in DOMAIN B /\ B[o].status = "FREE"
      BY <1>2, <1>6, <1>8, <1>10, <2>2, <2>3
    <2>6. \A o : o # new /\ Free(r, o) => Free(s, o)
      BY <1>1, <1>8, <1>10, FreeIs
    <2>7. Files(r)
      <3>1. r.free_space = {o \in DOMAIN B : Free(r, o)}
        BY <1>1, <1>3, <1>6, <1>10, <2>1, <2>5, FreeIs
      <3>2. DOMAIN B \subseteq 0..(s.swapSize - 1)
        BY <1>2, <1>3, <1>6, <1>10, <2>1, <2>4
      <3> QED BY <1>5, <1>6, <1>10, <3>1, <3>2 DEF Files, Span
    <2>8. ASSUME NEW o \in DOMAIN B PROVE Placed(r, o)
      <3>1. CASE o = off
        <4>1. ASSUME NEW next \in Nat, IsNext(r, o, next) PROVE next = new
          <5>1. next <= new /\ next > off /\ next \in DOMAIN A \cup {new, s.swapSize}
            BY <1>5, <1>10, <2>1, <3>1, <4>1 DEF IsNext
          <5>2. next \in DOMAIN A => next >= off + size
            BY <1>2, <5>1 DEF IsNext
          <5> QED BY <1>2, <1>3, <2>1, <2>4, <5>1, <5>2
        <4>2. off + n <= new /\ new <= off + n + s.layout.alignment + s.layout.record
          BY <1>1, <1>2, <1>3, <1>4, <2>1
        <4>3. ~ Free(r, o)
          BY <1>1, <1>8, <3>1, FreeIs
        <4> QED BY <1>2, <1>5, <1>8, <3>1, <4>1, <4>2, <4>3 DEF Placed, LocationSize
      <3>2. CASE o = new
        <4>1. new % s.layout.alignment = 0
          BY <1>1, <1>2, <1>4, <2>1, MultiplesAdd
        <4>2. ASSUME NEW next \in Nat, IsNext(r, o, next)
              PROVE  IsNext(s, off, next) /\ next # new
          BY <1>2, <1>3, <1>5, <1>10, <2>1, <3>2, <4>2 DEF IsNext
        <4>3. ASSUME NEW next \in Nat, IsNext(r, o, next)
              PROVE  new + (size - P) = next /\ (Free(r, next) => StartOfFile(next))
          <5>1. next = off + size /\ IsNext(s, off, next) /\ next # new
            BY <1>2, <4>2, <4>3
          <5>2. Free(s, next) => StartOfFile(next)
            BY <1>2, <1>7, <5>1 DEF Placed
          <5>3. new + (size - P) = next
            BY <1>1, <1>2, <2>1, <5>1
          <5> QED BY <2>6, <5>1, <5>2, <5>3
        <4>4. Free(r, o)
          BY <1>1, <1>10, <2>3, <3>2, FreeIs
        <4> QED BY <1>5, <2>3, <3>2, <4>1, <4>3, <4>4 DEF Placed, LocationSize
      <3>3. CASE o # off /\ o # new
        <4>1. B[o] = A[o] /\ o \in DOMAIN A /\ o \in Nat
          BY <1>3, <1>10, <3>3
        <4>2. (Free(r, o) <=> Free(s, o)) /\ LocationSize(r, o) = LocationSize(s, o)
          BY <1>1, <1>10, <4>1, FreeIs DEF LocationSize
        <4>3. ASSUME NEW next \in Nat, IsNext(r, o, next)
              PROVE  next # new /\ IsNext(s, o, next)
          <5>1. o < off \/ o >= off + size
            BY <1>2, <1>3, <3>3, <4>1 DEF IsNext
          <5>2. next # new
            BY <1>2, <1>3, <1>10, <2>1, <4>1, <4>3, <5>1 DEF IsNext
          <5> QED BY <1>5, <1>10, <4>3, <5>2 DEF IsNext
        <4> QED BY <1>5, <1>7, <2>6, <4>1, <4>2, <4>3 DEF Placed
      <3> QED BY <3>1, <3>2, <3>3
    <2>9. Alloced(s, r, off, n, status)
      <3>1. Used(r) = Used(s) \cup {off}
        BY <1>2, <1>6, <1>10, <2>1, <2>2 DEF Used
      <3> QED BY <1>2, <1>10, <2>2, <3>1 DEF Alloced
    <2> QED BY <1>1, <2>7, <2>8, <2>9 DEF Tiled
  <1> QED BY <1>1, <1>9, <1>10

-----------------------------------------------------------------------------
(* pffree of one location *)

Before(s, off) == Max({o \in DOMAIN s.all_space : o < off} \cup {-1})
Merges(s, off) == ~StartOfFile(off) /\ Free(s, Before(s, off))
Joins(s, off)  == Free(s, Following(s, off)) /\ ~StartOfFile(Following(s, off))
Start(s, off)  == IF Merges(s, off) THEN Before(s, off) ELSE off
Gone(s, off)   == (IF Merges(s, off) THEN {off} ELSE {}) \cup (IF Joins(s, off) THEN {Following(s, off)} ELSE {})
Had(s, off)    == LocationSize(s, off) + (IF Merges(s, off) THEN LocationSize(s, Before(s, off)) ELSE 0)
End(s, off)    == Following(s, off) + (IF Joins(s, off) THEN LocationSize(s, Following(s, off)) ELSE 0)

\* In r, the location at off is not used any more, and nothing else has changed.
Freed(s, r, off) ==
    /\ Used(r) = Used(s) \ {off}
    /\ \A o \in Used(s) \ {off} : r.all_space[o] = s.all_space[o]

\* The neighbours of a used location, and where the free one made of it begins and ends.
LEMMA FreeAround ==
    ASSUME NEW s \in SwapType, Tiled(s), NEW off \in Used(s)
    PROVE  /\ off \in DOMAIN s.all_space /\ off \in Nat /\ off < s.swapSize /\ ~Free(s, off)
           /\ Following(s, off) \in Nat /\ IsNext(s, off, Following(s, off))
           /\ Before(s, off) \in Int /\ Before(s, off) < off
           /\ Merges(s, off) => Before(s, off) \in s.free_space
           /\ Joins(s, off) => Following(s, off) \in s.free_space
           /\ \A o \in DOMAIN s.all_space : o < off => o <= Before(s, off)
           /\ Start(s, off) \in DOMAIN s.all_space /\ Start(s, off) <= off
           /\ Start(s, off) \notin Gone(s, off)
           /\ Start(s, off) = off \/ Start(s, off) \in s.free_space
           /\ End(s, off) \in Nat /\ End(s, off) >= Following(s, off)
           /\ \A o \in DOMAIN s.all_space : o > Start(s, off) /\ o \notin Gone(s, off) => o >= End(s, off)
           /\ End(s, off) \in DOMAIN s.all_space \cup {s.swapSize}
  <1> DEFINE A == s.all_space
             b == Before(s, off)
             after == Following(s, off)
  <1>1. /\ DOMAIN A \subseteq Nat /\ s.swapSize \in Nat
        /\ \A o \in DOMAIN A : o \in Nat /\ LocationSize(s, o) \in Nat \ {0}
    BY KeysAre
  <1>2. Span(s) /\ \A o \in Nat : o \in s.free_space <=> o \in DOMAIN A /\ Free(s, o)
    BY <1>1 DEF Tiled, Files
  <1>3. off \in DOMAIN A /\ off \in Nat /\ off < s.swapSize /\ ~Free(s, off)
    BY <1>1, <1>2 DEF Used, Span
  <1>4. after \in Nat /\ IsNext(s, off, after)
    BY <1>2, <1>3, FollowingIs
  <1>5. /\ b \in DOMAIN A \cup {-1} /\ b \in Int /\ b < off
        /\ \A o \in DOMAIN A : o < off => o <= b
    BY <1>3, PrecedingIs DEF Before
  <1>6. Merges(s, off) => b \in DOMAIN A /\ Free(s, b) /\ b \in s.free_space
    <2>1. Free(s, b) => b \in DOMAIN A
      BY FreeIs
    <2> QED BY <1>1, <1>2, <2>1 DEF Merges
  <1>7. Joins(s, off) => /\ after \in DOMAIN A /\ Free(s, after) /\ after \in s.free_space
                         /\ IsNext(s, after, after + LocationSize(s, after))
    <2>1. Free(s, after) => after \in DOMAIN A
      BY FreeIs
    <2>2. Joins(s, off) => after \in s.free_space
      BY <1>1, <1>2, <2>1 DEF Joins
    <2> QED BY <2>1, <2>2, FreeAligned DEF Joins
  <1>8. /\ Start(s, off) = (IF Merges(s, off) THEN b ELSE off)
        /\ Gone(s, off) = (IF Merges(s, off) THEN {off} ELSE {}) \cup (IF Joins(s, off) THEN {after} ELSE {})
        /\ End(s, off) = after + (IF Joins(s, off) THEN LocationSize(s, after) ELSE 0)
    BY DEF Start, Gone, End
  <1> HIDE DEF b, after
  <1>9. after > off /\ \A o \in DOMAIN A : o > off => o >= after
    BY <1>4 DEF IsNext
  <1>10. /\ Start(s, off) \in DOMAIN A /\ Start(s, off) <= off /\ Start(s, off) \notin Gone(s, off)
         /\ Start(s, off) = off \/ Start(s, off) \in s.free_space
    BY <1>3, <1>4, <1>5, <1>6, <1>8, <1>9
  <1>11. End(s, off) \in Nat /\ End(s, off) >= after
    <2>1. CASE Joins(s, off)
      BY <1>1, <1>4, <1>7, <1>8, <2>1
    <2>2. CASE ~Joins(s, off)
      BY <1>4, <1>8, <2>2
    <2> QED BY <2>1, <2>2
  <1>12. ASSUME NEW o \in DOMAIN A, o > Start(s, off), o \notin Gone(s, off)
         PROVE  o >= End(s, off)
    <2>1. o \in Nat /\ o >= off
      BY <1>1, <1>3, <1>5, <1>8, <1>12
    <2>2. o # off
      BY <1>3, <1>8, <1>12
    <2>3. o >= after
      BY <1>3, <1>9, <2>1, <2>2
    <2>4. CASE Joins(s, off)
      <3>1. o > after
        BY <1>4, <1>8, <1>12, <2>1, <2>3, <2>4
      <3> QED BY <1>7, <1>8, <2>4, <3>1 DEF IsNext
    <2>5. CASE ~Joins(s, off)
      BY <1>4, <1>8, <2>3, <2>5
    <2> QED BY <2>4, <2>5
  <1>13. End(s, off) \in DOMAIN A \cup {s.swapSize}
    <2>1. CASE Joins(s, off)
      BY <1>7, <1>8, <2>1 DEF IsNext
    <2>2. CASE ~Joins(s, off)
      <3>1. End(s, off) = after
        BY <1>4, <1>8, <2>2
      <3> QED BY <1>4, <3>1 DEF IsNext
    <2> QED BY <2>1, <2>2
  <1> QED BY <1>3, <1>4, <1>5, <1>6, <1>7, <1>10, <1>11, <1>12, <1>13 DEF b, after

\* How pffree of a location ends.
FreeEnds(s, r, off) ==
    /\ r \in SwapType /\ Beside(s, r)
    /\ DOMAIN r.all_space = DOMAIN s.all_space \ Gone(s, off)
    /\ r.all_space[Start(s, off)] = [size |-> End(s, off) - Start(s, off), status |-> "FREE"]
    /\ \A o \in DOMAIN r.all_space \ {Start(s, off)} : r.all_space[o] = s.all_space[o]
    /\ r.free_space = (s.free_space \ Gone(s, off)) \cup {Start(s, off)}
    /\ r.swapFree = Wrap(s.swapFree + (Following(s, off) - Start(s, off)) - Had(s, off))

\* It ends so.
LEMMA FreeFields ==
    ASSUME NEW s \in SwapType, Tiled(s), NEW off \in Used(s), NEW r, r = FreeLocation(s, off)
    PROVE  FreeEnds(s, r, off)
  <1> DEFINE start == Start(s, off)
             gone  == Gone(s, off)
             after == Following(s, off)
  <1>1. /\ after \in Nat /\ start \in DOMAIN s.all_space /\ start <= off /\ start \notin gone
        /\ off \in DOMAIN s.all_space /\ after > off /\ off \in Nat
        /\ End(s, off) \in Nat /\ End(s, off) >= after
        /\ Merges(s, off) => Before(s, off) \in s.free_space
    BY FreeAround DEF IsNext
  <1>2. PICK D \in SUBSET Nat : s.all_space \in [D -> Location] /\ D = DOMAIN s.all_space
    BY DEF SwapType
  <1>3. PICK v : v = [size |-> End(s, off) - start, status |-> "FREE"]
    OBVIOUS
  <1>4. v \in Location
    <2>1. start \in Nat
      BY <1>1, <1>2
    <2>2. End(s, off) - start \in Nat \ {0}
      BY <1>1, <2>1
    <2> QED BY <1>3, <2>2 DEF Location
  <1>5. PICK f : f = Put(Restrict(s.all_space, DOMAIN s.all_space \ gone), start, v)
    OBVIOUS
  <1>6. /\ f \in [D \ gone -> Location] /\ DOMAIN f = D \ gone /\ f[start] = v
        /\ \A o \in (D \ gone) \ {start} : f[o] = s.all_space[o]
    <2>1. PICK g : g = Restrict(s.all_space, D \ gone)
      OBVIOUS
    <2>2. g \in [D \ gone -> Location] /\ DOMAIN g = D \ gone /\ \A o \in D \ gone : g[o] = s.all_space[o]
      BY <1>2, <2>1 DEF Restrict
    <2>3. f = Put(g, start, v) /\ (D \ gone) \cup {start} = D \ gone
      BY <1>1, <1>2, <1>5, <2>1
    <2> QED BY <1>4, <2>2, <2>3 DEF Put
  <1>7. PICK w : w = Wrap(s.swapFree + (after - start) - Had(s, off))
    OBVIOUS
  <1>8. w \in 0..(2^Width - 1)
    <2>1. s.swapFree \in Int
      <3>1. s.swapFree \in 0..(2^Width - 1)
        BY DEF SwapType
      <3>2. 2^Width \in Int
        BY ConstantsAssumption
      <3> QED BY <3>1, <3>2
    <2>2. Had(s, off) \in Int
      <3>1. LocationSize(s, off) \in Int
        BY <1>1, KeysAre
      <3>2. Merges(s, off) => LocationSize(s, Before(s, off)) \in Int
        BY <1>1, FreeAligned
      <3> QED BY <3>1, <3>2 DEF Had
    <2>3. start \in Int
      BY <1>1, KeysAre
    <2>4. s.swapFree + (after - start) - Had(s, off) \in Int
      BY <1>1, <2>1, <2>2, <2>3
    <2> QED BY <1>7, <2>4, WrapIs
  <1>9. r = [s EXCEPT !.swapFree = w, !.free_space = (s.free_space \ gone) \cup {start}, !.all_space = f]
    <2>1. End(s, off) - start = after - start + (IF Joins(s, off) THEN LocationSize(s, after) ELSE 0)
      <3>1. start \in Int
        BY <1>1, KeysAre
      <3>2. Joins(s, off) => LocationSize(s, after) \in Int
        BY FreeAround, FreeAligned
      <3>3. CASE Joins(s, off)
        BY <1>1, <3>1, <3>2, <3>3 DEF End
      <3>4. CASE ~Joins(s, off)
        BY <1>1, <3>1, <3>4 DEF End
      <3> QED BY <3>3, <3>4
    <2>2. r = [s EXCEPT !.swapFree = w, !.free_space = (s.free_space \ gone) \cup {start},
                        !.all_space = Put(Restrict(s.all_space, DOMAIN s.all_space \ gone), start,
                            [size |-> after - start + (IF Joins(s, off) THEN LocationSize(s, after) ELSE 0),
                             status |-> "FREE"])]
      BY <1>7 DEF FreeLocation, Start, Gone, Had, Merges, Joins, Before
    <2> QED BY <1>3, <1>5, <2>1, <2>2
  <1> HIDE DEF start, gone, after
  <1>10. /\ r \in SwapType /\ Beside(s, r) /\ r.all_space = f
         /\ r.free_space = (s.free_space \ gone) \cup {start} /\ r.swapFree = w
    <2>1. f \in UNION {[E -> Location] : E \in SUBSET Nat}
      <3>1. D \ gone \in SUBSET Nat
        BY <1>2
      <3> QED BY <1>6, <3>1
    <2>2. (s.free_space \ gone) \cup {start} \in SUBSET Nat
      <3>1. s.free_space \in SUBSET Nat
        BY DEF SwapType
      <3> QED BY <1>1, <1>2, <3>1
    <2> QED BY <1>8, <1>9, <2>1, <2>2 DEF SwapType, Beside
  <1> QED BY <1>2, <1>3, <1>6, <1>7, <1>10 DEF FreeEnds, start, gone, after

\* pffree of a location keeps the locations a tiling: what it merges and takes back leaves
\* neither a gap nor two free neighbours in one file.
LEMMA FreeTiled ==
    ASSUME NEW s \in SwapType, Tiled(s), NEW off \in Used(s), NEW r, r = FreeLocation(s, off)
    PROVE  r \in SwapType /\ Beside(s, r) /\ Tiled(r) /\ Freed(s, r, off)
  <1> DEFINE A == s.all_space
             B == r.all_space
             start == Start(s, off)
             gone  == Gone(s, off)
             after == Following(s, off)
             end   == End(s, off)
  <1>1. FreeEnds(s, r, off)
    BY FreeFields
  <1>2. /\ r \in SwapType /\ Beside(s, r) /\ DOMAIN B = DOMAIN A \ gone
        /\ B[start].size = end - start /\ B[start].status = "FREE"
        /\ \A o \in DOMAIN B \ {start} : B[o] = A[o]
        /\ r.free_space = (s.free_space \ gone) \cup {start}
        /\ r.swapSize = s.swapSize /\ r.layout = s.layout
    BY <1>1 DEF FreeEnds, Beside
  <1>3. /\ off \in DOMAIN A /\ off \in Nat /\ ~Free(s, off) /\ after \in Nat /\ IsNext(s, off, after)
        /\ \A o \in DOMAIN A : o < off => o <= Before(s, off)
        /\ start \in DOMAIN A /\ start <= off /\ start \notin gone
        /\ start = off \/ start \in s.free_space
        /\ end \in Nat /\ end >= after /\ end \in DOMAIN A \cup {s.swapSize}
        /\ \A o \in DOMAIN A : o > start /\ o \notin gone => o >= end
        /\ Merges(s, off) => Before(s, off) \in s.free_space
        /\ Joins(s, off) => after \in s.free_space
        /\ Before(s, off) \in Int /\ Before(s, off) < off
    BY FreeAround
  <1>4. /\ DOMAIN A \subseteq Nat /\ s.swapSize \in Nat
        /\ \A o \in DOMAIN A : o \in Nat /\ LocationSize(s, o) \in Nat \ {0}
    BY KeysAre
  <1>5. /\ \E k \in 1..MaxFiles : s.swapSize = k * PageFileSize
        /\ DOMAIN A \subseteq 0..(s.swapSize - 1)
        /\ \A o \in 0..(s.swapSize - 1) : StartOfFile(o) => o \in DOMAIN A
        /\ \A o \in Nat : o \in s.free_space <=> o \in DOMAIN A /\ Free(s, o)
        /\ \A o \in DOMAIN A : Placed(s, o)
    BY <1>4 DEF Tiled, Files, Span
  <1>6. \A o : Free(s, o) <=> o \in DOMAIN A /\ A[o].status = "FREE"
    BY FreeIs
  <1>7. \A o : Free(r, o) <=> o \in DOMAIN B /\ B[o].status = "FREE"
    BY <1>2, FreeIs
  <1>8. /\ gone \subseteq {off, after} /\ (off \in gone => Merges(s, off)) /\ (after \in gone => Joins(s, off))
        /\ start = (IF Merges(s, off) THEN Before(s, off) ELSE off)
        /\ off \in gone <=> Merges(s, off)
        /\ Joins(s, off) => after \in gone
    <2>1. after # off
      BY <1>3 DEF IsNext
    <2> QED BY <2>1 DEF Gone, Start
  <1>9. Free(r, start) /\ \A o : o # start => (Free(r, o) <=> Free(s, o) /\ o \notin gone)
    BY <1>2, <1>3, <1>6, <1>7
  <1>10. \A o \in gone : ~StartOfFile(o)
    BY <1>8 DEF Merges, Joins
  <1>11. start \in Nat /\ start < end
    BY <1>3, <1>4 DEF IsNext
  <1>12. \A next \in Nat : IsNext(r, start, next) => next = end
    <2>1. SUFFICES ASSUME NEW next \in Nat, IsNext(r, start, next) PROVE next = end
      OBVIOUS
    <2>2. next \in (DOMAIN A \ gone) \cup {s.swapSize} /\ next > start
      BY <1>2, <2>1 DEF IsNext
    <2>3. next >= end
      BY <1>3, <1>4, <1>5, <2>2
    <2>4. next <= end
      <3>1. CASE end \in DOMAIN A
        <4>1. end \notin gone
          <5>1. end > off
            BY <1>3 DEF IsNext
          <5>2. end = after => ~Joins(s, off)
            <6>1. SUFFICES ASSUME Joins(s, off) PROVE end > after
              BY <1>3
            <6>2. LocationSize(s, after) \in Nat \ {0}
              BY <1>3, <6>1, FreeAligned
            <6>3. end = after + LocationSize(s, after)
              BY <6>1 DEF End
            <6> QED BY <1>3, <6>2, <6>3
          <5> QED BY <1>8, <5>1, <5>2, <1>3
        <4> QED BY <1>2, <1>3, <1>11, <2>1, <3>1, <4>1 DEF IsNext
      <3>2. CASE end = s.swapSize
        BY <1>4, <1>5, <2>2, <3>2
      <3> QED BY <1>3, <3>1, <3>2
    <2> QED BY <1>3, <2>1, <2>3, <2>4
  <1>13. ASSUME NEW o \in DOMAIN B, o # start, NEW next \in Nat, IsNext(r, o, next)
         PROVE  /\ IsNext(s, o, next)
                /\ Free(s, o) /\ Free(r, next) => StartOfFile(next)
    <2>1. o \in DOMAIN A /\ o \notin gone /\ o \in Nat /\ o # off
      BY <1>2, <1>4, <1>8, <1>13
    <2>2. next \in (DOMAIN A \ gone) \cup {s.swapSize} /\ next > o
      BY <1>2, <1>13 DEF IsNext
    <2>3. \A p \in gone : p > o => p >= next
      <3>1. CASE o < start
        <4>1. start >= next
          BY <1>2, <1>3, <1>13, <3>1 DEF IsNext
        <4> QED BY <1>3, <1>8, <1>11, <4>1 DEF IsNext
      <3>2. CASE o > start
        <4>1. o >= end
          BY <1>3, <2>1, <3>2
        <4> QED BY <1>3, <1>8, <2>1, <4>1 DEF IsNext
      <3> QED BY <1>11, <1>13, <2>1, <3>1, <3>2
    <2>4. IsNext(s, o, next)
      BY <1>2, <1>13, <2>2, <2>3 DEF IsNext
    <2>5. ASSUME Free(s, o), Free(r, next) PROVE StartOfFile(next)
      <3>1. Placed(s, o)
        BY <1>5, <2>1
      <3>2. CASE Free(s, next)
        BY <2>4, <2>5, <3>1, <3>2 DEF Placed
      <3>3. CASE ~Free(s, next)
        <4>1. next = start /\ start = off /\ ~Merges(s, off)
          BY <1>3, <1>5, <1>8, <1>9, <2>5, <3>3
        <4>2. o <= Before(s, off)
          BY <1>3, <2>1, <2>2, <4>1
        <4>3. CASE o = Before(s, off)
          BY <2>5, <4>1, <4>3 DEF Merges
        <4>4. CASE o # Before(s, off)
          <5>1. Before(s, off) \in DOMAIN A
            BY <2>1, <4>2, <1>3, <4>4, PrecedingIs DEF Before
          <5> QED BY <1>3, <2>1, <2>4, <4>1, <4>2, <4>4, <5>1 DEF IsNext
        <4> QED BY <4>3, <4>4
      <3> QED BY <3>2, <3>3
    <2> QED BY <2>4, <2>5
  <1>14. Files(r)
    <2>1. r.free_space = {o \in DOMAIN B : Free(r, o)}
      <3>1. r.free_space \subseteq DOMAIN B
        <4>1. s.free_space \subseteq DOMAIN A
          BY DEF Tiled, Files
        <4> QED BY <1>2, <1>3, <4>1
      <3>2. \A o \in DOMAIN B : o \in r.free_space <=> Free(r, o)
        <4>1. \A o \in DOMAIN B : o \in Nat /\ o \in DOMAIN A /\ o \notin gone
          BY <1>2, <1>4
        <4> QED BY <1>2, <1>5, <1>9, <4>1
      <3> QED BY <3>1, <3>2
    <2>2. \A o \in 0..(s.swapSize - 1) : StartOfFile(o) => o \in DOMAIN B
      BY <1>2, <1>5, <1>10
    <2> QED BY <1>2, <1>5, <2>1, <2>2 DEF Files, Span
  <1>15. ASSUME NEW o \in DOMAIN B PROVE Placed(r, o)
    <2>1. CASE o = start
      <3>1. start % s.layout.alignment = 0
        BY <1>3, <1>5 DEF Placed
      <3>2. Free(r, end) => StartOfFile(end)
        <4>1. SUFFICES ASSUME Free(r, end) PROVE StartOfFile(end)
          OBVIOUS
        <4>2. Free(s, end)
          BY <1>3, <1>9, <1>11, <4>1
        <4>3. CASE Joins(s, off)
          <5>1. after \in DOMAIN A /\ Free(s, after) /\ IsNext(s, after, after + LocationSize(s, after))
            BY <1>3, <4>3, FreeAligned
          <5>2. end = after + LocationSize(s, after)
            BY <4>3 DEF End
          <5>3. Placed(s, after)
            BY <1>5, <5>1
          <5> QED BY <1>3, <4>2, <5>1, <5>2, <5>3 DEF Placed
        <4>4. CASE ~Joins(s, off)
          <5>1. end = after
            BY <1>3, <4>4 DEF End
          <5> QED BY <4>2, <4>4, <5>1 DEF Joins
        <4> QED BY <4>3, <4>4
      <3>3. start + (end - start) = end
        BY <1>3, <1>11
      <3> QED BY <1>2, <1>9, <1>12, <2>1, <3>1, <3>2, <3>3 DEF Placed, LocationSize
    <2>2. CASE o # start
      <3>1. o \in DOMAIN A /\ Placed(s, o) /\ B[o] = A[o]
        BY <1>2, <1>5, <2>2
      <3>2. (Free(r, o) <=> Free(s, o)) /\ LocationSize(r, o) = LocationSize(s, o)
        BY <1>2, <1>9, <2>2, <3>1 DEF LocationSize
      <3>3. ASSUME NEW next \in Nat, IsNext(r, o, next)
            PROVE  IsNext(s, o, next) /\ (Free(s, o) /\ Free(r, next) => StartOfFile(next))
        BY <1>13, <2>2, <3>3
      <3> QED BY <1>2, <3>1, <3>2, <3>3 DEF Placed
    <2> QED BY <2>1, <2>2
  <1>16. Freed(s, r, off)
    <2>1. Used(r) = Used(s) \ {off}
      <3>1. gone \subseteq s.free_space \cup {off}
        BY <1>3, <1>8
      <3> QED BY <1>2, <1>3, <1>8, <3>1 DEF Used
    <2>2. \A o \in Used(s) \ {off} : B[o] = A[o]
      BY <1>2, <1>3, <2>1 DEF Used
    <2> QED BY <2>1, <2>2 DEF Freed
  <1> QED BY <1>2, <1>14, <1>15, <1>16 DEF Tiled

-----------------------------------------------------------------------------
(* Walks *)

\* Pffree as a walk.
LEMMA PffreeWalk ==
    ASSUME NEW s, NEW c, NEW n \in Nat, DOMAIN s.parts[c] = 1..n
    PROVE  Arrives("pffree", c, s, s.parts[c], n, Pffree(s, c))
  <1> DEFINE Concrete(g) == g = [u \in SUBSET (1..n) |-> IF u = {} THEN s
                                    ELSE PffreeStep(c, g[u \ {Max(u)}], s.parts[c][Max(u)])]
  <1>1. \A g : Walks(g, "pffree", c, s, s.parts[c], SUBSET (1..n)) <=> Concrete(g)
    BY DEF Walks, WalkStep
  <1>2. Pffree(s, c) = (CHOOSE g : Concrete(g))[1..n]
    BY DEF Pffree, FoldLeft, MapThenFoldSet, PffreeStep
  <1>3. PICK g : g = CHOOSE f : Concrete(f)
    OBVIOUS
  <1>4. Concrete(g)
    <2>1. \E f : Concrete(f)
      <3> HIDE DEF Concrete
      <3> QED BY <1>1, WalksExist
    <2> HIDE DEF Concrete
    <2> QED BY <1>3, <2>1
  <1>5. Pffree(s, c) = g[1..n]
    BY <1>2, <1>3
  <1>6. Walks(g, "pffree", c, s, s.parts[c], SUBSET (1..n))
    BY <1>1, <1>4
  <1> QED BY <1>5, <1>6, WalkGoes

-----------------------------------------------------------------------------
(* Bytes *)

Sizes(s) == [off \in DOMAIN s.all_space |-> LocationSize(s, off)]

\* The bytes that are in some location: all but those lost behind used ones.
AllBytes(s) == SumOver(Sizes(s), DOMAIN s.all_space)

\* From s to r, swapFree has followed the bytes that have been lost or taken back.
Balanced(s, r) == r.swapFree = Wrap(s.swapFree + (AllBytes(r) - AllBytes(s)))

\* The sizes can be summed.
LEMMA SizesAre ==
    ASSUME NEW s \in SwapType, Span(s)
    PROVE  /\ IsFiniteSet(DOMAIN s.all_space) /\ AllBytes(s) \in Nat
           /\ \A off \in DOMAIN s.all_space : Sizes(s)[off] = LocationSize(s, off) /\ Sizes(s)[off] \in Nat
           /\ \A S \in SUBSET (DOMAIN s.all_space) : IsFiniteSet(S) /\ SumOver(Sizes(s), S) \in Nat
  <1> DEFINE D == DOMAIN s.all_space
  <1>1. s.swapSize \in Nat /\ D \subseteq 0..(s.swapSize - 1)
    BY KeysAre DEF Span
  <1>2. IsFiniteSet(0..(s.swapSize - 1))
    BY <1>1, FS_Interval
  <1>3. IsFiniteSet(D) /\ \A S \in SUBSET D : IsFiniteSet(S)
    BY <1>1, <1>2, FS_Subset
  <1>4. \A off \in D : Sizes(s)[off] = LocationSize(s, off) /\ Sizes(s)[off] \in Nat
    BY KeysAre DEF Sizes
  <1>5. \A S \in SUBSET D : SumOver(Sizes(s), S) \in Nat
    BY <1>3, <1>4, SumType
  <1> QED BY <1>3, <1>4, <1>5 DEF AllBytes

\* allocInFree takes what it loses from swapFree.
LEMMA AllocBalanced ==
    ASSUME NEW s \in SwapType, Tiled(s), NEW off \in s.free_space,
           NEW n \in 1..LocationSize(s, off), NEW status \in {"PART", "END"},
           NEW r, r = AllocInFree(s, off, n, status)
    PROVE  Balanced(s, r)
  <1> DEFINE D == DOMAIN s.all_space
             E == DOMAIN r.all_space
             P == Padded(s, n)
             R == D \ {off}
             f == Sizes(s)
             g == Sizes(r)
  <1>1. AllocEnds(s, r, off, n, status, P)
    BY AllocFields
  <1>2. r \in SwapType /\ Span(r) /\ Span(s) /\ Tiled(r)
    BY AllocTiled DEF Tiled, Files
  <1>3. /\ off \in D /\ off \in Nat /\ LocationSize(s, off) \in Nat /\ P \in Nat /\ n \in Nat
        /\ P <= LocationSize(s, off) /\ n <= P /\ n # 0
        /\ IsNext(s, off, off + LocationSize(s, off))
    BY <1>1, FreeAligned DEF AllocEnds
  <1>4. s.layout.record \in Nat \ {0} /\ s.layout.alignment \in Nat \ {0}
    BY LayoutIs
  <1>5. /\ IsFiniteSet(D) /\ \A o \in D : f[o] = LocationSize(s, o) /\ f[o] \in Int
        /\ IsFiniteSet(R) /\ SumOver(f, R) \in Int
        /\ AllBytes(s) = SumOver(f, D)
    BY <1>2, SizesAre DEF AllBytes
  <1>6. /\ IsFiniteSet(E) /\ \A o \in E : g[o] = LocationSize(r, o) /\ g[o] \in Int
        /\ AllBytes(r) = SumOver(g, E)
    BY <1>2, SizesAre DEF AllBytes
  <1>7. D = R \cup {off} /\ off \notin R /\ \A o \in R : f[o] \in Int
    BY <1>3, <1>5
  <1> HIDE DEF D, E, P, R, f, g
  <1>8. SumOver(f, D) = SumOver(f, R) + f[off]
    <2>1. f[off] \in Int
      BY <1>3, <1>5
    <2>2. SumOver(f, R \cup {off}) = SumOver(f, R) + f[off]
      BY <1>5, <1>7, <2>1, SumAdd
    <2> QED BY <1>7, <2>2
  <1>9. s.swapFree \in Int
    <2>1. s.swapFree \in 0..(2^Width - 1)
      BY DEF SwapType
    <2>2. 2^Width \in Int
      BY ConstantsAssumption
    <2> QED BY <2>1, <2>2
  <1>10. CASE /\ E = D /\ r.all_space[off] = [size |-> n, status |-> status]
              /\ \A o \in D \ {off} : r.all_space[o] = s.all_space[o]
              /\ r.swapFree = Wrap(s.swapFree - (P - n) - (LocationSize(s, off) - P))
    <2>1. \A o \in R : g[o] = f[o]
      BY <1>5, <1>6, <1>7, <1>10 DEF LocationSize
    <2>2. SumOver(g, R) = SumOver(f, R)
      BY <1>5, <2>1, SumSame
    <2>3. g[off] = n /\ \A o \in R : g[o] \in Int
      BY <1>3, <1>6, <1>7, <1>10, <2>1 DEF LocationSize
    <2>4. SumOver(g, R \cup {off}) = SumOver(g, R) + n
      <3>1. g[off] \in Int
        BY <1>3, <2>3
      <3>2. SumOver(g, R \cup {off}) = SumOver(g, R) + g[off]
        BY <1>5, <1>7, <2>3, <3>1, SumAdd
      <3> QED BY <2>3, <3>2
    <2>5. AllBytes(r) - AllBytes(s) = n - LocationSize(s, off)
      BY <1>3, <1>5, <1>6, <1>7, <1>8, <1>10, <2>2, <2>4
    <2>6. s.swapFree - (P - n) - (LocationSize(s, off) - P) = s.swapFree + (n - LocationSize(s, off))
      BY <1>3, <1>9
    <2> QED BY <1>10, <2>5, <2>6 DEF Balanced
  <1>11. CASE /\ LocationSize(s, off) >= P + s.layout.record
              /\ E = D \cup {off + P} /\ r.all_space[off] = [size |-> n, status |-> status]
              /\ r.all_space[off + P] = [size |-> LocationSize(s, off) - P, status |-> "FREE"]
              /\ \A o \in D \ {off, off + P} : r.all_space[o] = s.all_space[o]
              /\ r.swapFree = Wrap(s.swapFree - (P - n))
    <2>1. PICK new \in Nat : new = off + P /\ new > off /\ new < off + LocationSize(s, off)
      BY <1>3, <1>4, <1>11
    <2>2. new \notin D
      BY <1>3, <2>1 DEF IsNext, D
    <2>3. E = (R \cup {off}) \cup {new} /\ new \notin R \cup {off}
      BY <1>7, <1>11, <2>1, <2>2
    <2>4. \A o \in R : g[o] = f[o]
      BY <1>5, <1>6, <1>7, <1>11, <2>1, <2>2, <2>3 DEF LocationSize
    <2>5. SumOver(g, R) = SumOver(f, R)
      BY <1>5, <2>4, SumSame
    <2>6. g[off] = n /\ g[new] = LocationSize(s, off) - P /\ \A o \in R \cup {off} : g[o] \in Int
      BY <1>6, <1>11, <2>1, <2>3 DEF LocationSize
    <2>7. SumOver(g, R \cup {off}) = SumOver(g, R) + n
      <3>1. g[off] \in Int /\ \A o \in R : g[o] \in Int
        BY <2>6
      <3> QED BY <1>5, <1>7, <2>6, <3>1, SumAdd
    <2>8. SumOver(g, E) = SumOver(g, R \cup {off}) + (LocationSize(s, off) - P)
      <3>1. g[new] \in Int /\ IsFiniteSet(R \cup {off})
        BY <1>3, <1>5, <1>7, <2>6
      <3> QED BY <2>3, <2>6, <3>1, SumAdd
    <2>9. AllBytes(r) - AllBytes(s) = n - P
      BY <1>3, <1>5, <1>6, <1>8, <2>5, <2>7, <2>8
    <2>10. s.swapFree - (P - n) = s.swapFree + (n - P)
      BY <1>3, <1>9
    <2> QED BY <1>11, <2>9, <2>10 DEF Balanced
  <1> QED BY <1>1, <1>10, <1>11 DEF AllocEnds, D, E, P

\* A sum without one of its elements, or with as many as it had.
LEMMA SumWithout ==
    ASSUME NEW S, IsFiniteSet(S), NEW f, \A x \in S : f[x] \in Int, NEW x, NEW P \in BOOLEAN, P => x \in S
    PROVE  /\ SumOver(f, S \ (IF P THEN {x} ELSE {})) = SumOver(f, S) - (IF P THEN f[x] ELSE 0)
           /\ IsFiniteSet(S \ (IF P THEN {x} ELSE {}))
           /\ SumOver(f, S \ (IF P THEN {x} ELSE {})) \in Int
  <1>1. IsFiniteSet(S \ (IF P THEN {x} ELSE {}))
    <2>1. S \ (IF P THEN {x} ELSE {}) \in SUBSET S
      OBVIOUS
    <2> QED BY <2>1, FS_Subset
  <1>2. SumOver(f, S) \in Int
    BY SumType
  <1>3. CASE P
    <2>1. SumOver(f, S \ {x}) = SumOver(f, S) - f[x]
      BY <1>3, SumRemove
    <2>2. S \ (IF P THEN {x} ELSE {}) = S \ {x}
      BY <1>3
    <2>3. f[x] \in Int
      BY <1>3
    <2> QED BY <1>1, <1>2, <1>3, <2>1, <2>2, <2>3
  <1>4. CASE ~P
    <2>1. S \ (IF P THEN {x} ELSE {}) = S
      BY <1>4
    <2> QED BY <1>1, <1>2, <1>4, <2>1
  <1> QED BY <1>3, <1>4

\* pffree gives to swapFree what was lost behind the location, and never takes any.
LEMMA FreeBalanced ==
    ASSUME NEW s \in SwapType, Tiled(s), NEW off \in Used(s), NEW r, r = FreeLocation(s, off)
    PROVE  Balanced(s, r) /\ AllBytes(r) >= AllBytes(s)
  <1> DEFINE D == DOMAIN s.all_space
             E == DOMAIN r.all_space
             start == Start(s, off)
             after == Following(s, off)
             M == Merges(s, off)
             J == Joins(s, off)
             f == Sizes(s)
             g == Sizes(r)
             T1 == D \ {start}
             T2 == T1 \ (IF M THEN {off} ELSE {})
             T3 == T2 \ (IF J THEN {after} ELSE {})
  <1>1. FreeEnds(s, r, off)
    BY FreeFields
  <1>2. r \in SwapType /\ Span(r) /\ Span(s) /\ \A o \in D : Placed(s, o)
    BY FreeTiled DEF Tiled, Files
  <1>3. /\ off \in D /\ off \in Nat /\ ~Free(s, off) /\ after \in Nat /\ IsNext(s, off, after)
        /\ Before(s, off) \in Int /\ Before(s, off) < off
        /\ \A o \in D : o < off => o <= Before(s, off)
        /\ start \in D /\ start <= off
        /\ M => Before(s, off) \in s.free_space
        /\ J => after \in s.free_space
        /\ start \notin Gone(s, off)
    BY FreeAround
  <1>4. M \in BOOLEAN /\ J \in BOOLEAN
    BY DEF Merges, Joins
  <1>5. /\ IsFiniteSet(D) /\ \A o \in D : f[o] = LocationSize(s, o) /\ f[o] \in Int
        /\ AllBytes(s) = SumOver(f, D) /\ AllBytes(s) \in Int
    BY <1>2, SizesAre DEF AllBytes
  <1>6. /\ IsFiniteSet(E) /\ \A o \in E : g[o] = LocationSize(r, o) /\ g[o] \in Int
        /\ AllBytes(r) = SumOver(g, E) /\ AllBytes(r) \in Int
    BY <1>2, SizesAre DEF AllBytes
  <1>7. /\ start = (IF M THEN Before(s, off) ELSE off)
        /\ Gone(s, off) = (IF M THEN {off} ELSE {}) \cup (IF J THEN {after} ELSE {})
        /\ Had(s, off) = LocationSize(s, off) + (IF M THEN LocationSize(s, Before(s, off)) ELSE 0)
        /\ End(s, off) = after + (IF J THEN LocationSize(s, after) ELSE 0)
    BY DEF Start, Gone, Had, End
  <1>8. after > off /\ (J => after \in D) /\ start \in Nat
    <2>1. J => after \in D
      BY <1>3, FreeAligned
    <2>2. D \subseteq Nat
      BY KeysAre
    <2> QED BY <1>3, <2>1, <2>2 DEF IsNext
  <1>9. /\ E = D \ Gone(s, off) /\ r.all_space[start] = [size |-> End(s, off) - start, status |-> "FREE"]
        /\ \A o \in E \ {start} : r.all_space[o] = s.all_space[o]
        /\ r.swapFree = Wrap(s.swapFree + (after - start) - Had(s, off))
    BY <1>1 DEF FreeEnds
  <1> HIDE DEF D, E, start, after, M, J, f, g
  <1>10. SumOver(f, T1) = SumOver(f, D) - f[start] /\ IsFiniteSet(T1) /\ SumOver(f, T1) \in Int
    <2>1. SumOver(f, T1) = SumOver(f, D) - f[start]
      <3>1. IsFiniteSet(D) /\ \A x \in D : f[x] \in Int
        BY <1>5
      <3>2. start \in D
        BY <1>3
      <3>3. SumOver(f, D \ {start}) = SumOver(f, D) - f[start]
        BY <3>1, <3>2, SumRemove
      <3> QED BY <3>3
    <2>2. IsFiniteSet(T1)
      <3>1. T1 \in SUBSET D
        OBVIOUS
      <3> QED BY <1>5, <3>1, FS_Subset
    <2> QED BY <1>3, <1>5, <2>1, <2>2
  <1>11. /\ SumOver(f, T2) = SumOver(f, T1) - (IF M THEN f[off] ELSE 0)
         /\ IsFiniteSet(T2) /\ SumOver(f, T2) \in Int
    <2>1. \A o \in T1 : f[o] \in Int
      BY <1>5
    <2>2. M => off \in T1
      BY <1>3, <1>7
    <2>3. IsFiniteSet(T1)
      BY <1>10
    <2> HIDE DEF T1
    <2>4. CASE M
      <3>1. SumOver(f, T1 \ {off}) = SumOver(f, T1) - f[off]
        BY <2>1, <2>2, <2>3, <2>4, SumRemove
      <3>2. IsFiniteSet(T1 \ {off})
        BY <2>3, FS_RemoveElement
      <3>3. f[off] \in Int
        BY <2>1, <2>2, <2>4
      <3> QED BY <1>10, <2>4, <3>1, <3>2, <3>3
    <2>5. CASE ~M
      <3>1. T1 \ (IF M THEN {off} ELSE {}) = T1
        BY <2>5
      <3> QED BY <1>10, <2>5, <3>1
    <2> QED BY <2>4, <2>5
  <1>12. /\ SumOver(f, T3) = SumOver(f, T2) - (IF J THEN f[after] ELSE 0)
         /\ IsFiniteSet(T3) /\ SumOver(f, T3) \in Int
    <2>1. \A o \in T2 : f[o] \in Int
      BY <1>5
    <2>2. J => after \in T2
      BY <1>3, <1>7, <1>8
    <2> HIDE DEF T2
    <2> QED BY <1>4, <1>11, <2>1, <2>2, SumWithout
  <1>13. E = T3 \cup {start} /\ start \notin T3 /\ start \in E
    BY <1>3, <1>7, <1>9
  <1>14. \A o \in T3 : f[o] = g[o] /\ g[o] \in Int
    BY <1>5, <1>6, <1>9, <1>13 DEF LocationSize
  <1>15. SumOver(g, T3) = SumOver(f, T3)
    BY <1>12, <1>14, SumSame
  <1>16. g[start] = End(s, off) - start /\ g[start] \in Int
    BY <1>6, <1>9, <1>13 DEF LocationSize
  <1>17. SumOver(g, E) = SumOver(g, T3) + g[start]
    BY <1>12, <1>13, <1>14, <1>16, SumAdd
  <1>18. /\ f[start] = LocationSize(s, start) /\ f[off] = LocationSize(s, off)
         /\ f[start] \in Int /\ f[off] \in Int
         /\ J => f[after] = LocationSize(s, after) /\ f[after] \in Int
    BY <1>3, <1>5, <1>8
  <1>19. Had(s, off) = f[off] + (IF M THEN f[start] ELSE 0) /\ Had(s, off) \in Int
    BY <1>7, <1>18
  <1>20. AllBytes(r) - AllBytes(s) = (after - start) - Had(s, off)
    <2>1. CASE M
      BY <1>3, <1>5, <1>6, <1>7, <1>8, <1>10, <1>11, <1>12, <1>15, <1>16, <1>17, <1>18, <1>19, <2>1
    <2>2. CASE ~M
      BY <1>3, <1>5, <1>6, <1>7, <1>8, <1>10, <1>11, <1>12, <1>15, <1>16, <1>17, <1>18, <1>19, <2>2
    <2> QED BY <2>1, <2>2
  <1>21. off + f[off] <= after
    BY <1>2, <1>3, <1>18 DEF Placed
  <1>22. M => start + f[start] = off
    <2>1. SUFFICES ASSUME M PROVE start + f[start] = off
      OBVIOUS
    <2>2. start \in s.free_space /\ start < off
      BY <1>3, <1>7, <2>1
    <2>3. IsNext(s, start, off)
      BY <1>3, <1>7, <1>8, <2>1, <2>2, KeysAre DEF IsNext, D
    <2> QED BY <1>3, <1>18, <2>2, <2>3, FreeAligned
  <1>23. after - start >= Had(s, off)
    <2>1. CASE M
      BY <1>3, <1>8, <1>18, <1>19, <1>21, <1>22, <2>1
    <2>2. CASE ~M
      BY <1>3, <1>7, <1>8, <1>18, <1>19, <1>21, <2>2
    <2> QED BY <2>1, <2>2
  <1>24. s.swapFree + (after - start) - Had(s, off) = s.swapFree + (AllBytes(r) - AllBytes(s))
    <2>1. s.swapFree \in 0..(2^Width - 1)
      BY DEF SwapType
    <2>2. 2^Width \in Int
      BY ConstantsAssumption
    <2>3. s.swapFree \in Int
      BY <2>1, <2>2
    <2> QED BY <1>3, <1>8, <1>19, <1>20, <2>3
  <1>25. Balanced(s, r)
    BY <1>9, <1>24 DEF Balanced
  <1>26. AllBytes(r) >= AllBytes(s)
    BY <1>3, <1>5, <1>6, <1>8, <1>19, <1>20, <1>23
  <1> QED BY <1>25, <1>26

-----------------------------------------------------------------------------
(* Unsigned numbers *)

\* A multiple of w added makes no difference modulo w.
LEMMA ModAdd ==
    ASSUME NEW w \in Nat \ {0}, NEW x \in Int, NEW k \in Int
    PROVE  (x + w * k) % w = x % w
  <1>1. PICK y \in Int : y = x + w * k
    OBVIOUS
  <1>2. PICK d \in Int, r \in Int : d = x \div w /\ r = x % w
    OBVIOUS
  <1>3. x = w * d + r /\ 0 <= r /\ r < w
    BY <1>2
  <1>4. PICK e \in Int, t \in Int : e = y \div w /\ t = y % w
    BY <1>1
  <1>5. y = w * e + t /\ 0 <= t /\ t < w
    BY <1>1, <1>4
  <1>6. PICK n \in Int : n = e - d - k
    <2>1. e \in Int /\ d \in Int
      BY <1>2, <1>4
    <2> QED BY <2>1
  <1>7. w * n = r - t
    <2>1. w * n = w * e - w * d - w * k
      BY <1>2, <1>4, <1>6
    <2>2. w * e \in Int /\ w * d \in Int /\ w * k \in Int
      <3>1. \A m, o \in Int : m * o \in Int
        OBVIOUS
      <3>2. w \in Int /\ e \in Int /\ d \in Int
        BY <1>2, <1>4
      <3> QED BY <3>1, <3>2
    <2> QED BY <1>1, <1>2, <1>3, <1>4, <1>5, <2>1, <2>2
  <1>8. n = 0
    <2>1. n >= 1 => w * n >= w
      BY <1>6
    <2>2. n <= -1 => w * n <= -w
      BY <1>6
    <2> QED BY <1>2, <1>3, <1>4, <1>5, <1>6, <1>7, <2>1, <2>2
  <1>9. r = t
    BY <1>2, <1>4, <1>7, <1>8
  <1> QED BY <1>1, <1>2, <1>4, <1>9

\* Wrapping in between makes no difference.
LEMMA WrapAdd ==
    ASSUME NEW a \in Int, NEW b \in Int
    PROVE  Wrap(Wrap(a) + b) = Wrap(a + b)
  <1>1. PICK w \in Nat \ {0} : w = 2^Width
    BY ConstantsAssumption
  <1>2. PICK d \in Int, r \in Int : d = a \div w /\ r = a % w
    BY <1>1
  <1>3. a = w * d + r
    <2>1. w \in Nat \ {0}
      BY <1>1
    <2> QED BY <1>2, <2>1
  <1>4. PICK x \in Int : x = r + b
    <2>1. r \in Int
      BY <1>2
    <2> QED BY <2>1
  <1>5. (x + w * d) % w = x % w
    <2>1. x \in Int /\ d \in Int /\ w \in Nat \ {0}
      BY <1>1, <1>2, <1>4
    <2> QED BY <2>1, ModAdd
  <1>6. x + w * d = a + b
    <2>1. w * d \in Int
      <3>1. \A m, n \in Int : m * n \in Int
        OBVIOUS
      <3>2. w \in Int /\ d \in Int
        BY <1>1, <1>2
      <3> QED BY <3>1, <3>2
    <2> QED BY <1>2, <1>3, <1>4, <2>1
  <1> QED BY <1>1, <1>2, <1>4, <1>5, <1>6 DEF Wrap

\* A number that needs no wrapping.
LEMMA WrapSmall ==
    ASSUME NEW a \in 0..(2^Width - 1)
    PROVE  Wrap(a) = a
  <1>1. PICK w \in Nat \ {0} : w = 2^Width
    BY ConstantsAssumption
  <1>2. a \in 0..(w - 1)
    BY <1>1
  <1>3. a % w = a
    BY <1>1, <1>2
  <1> QED BY <1>1, <1>3 DEF Wrap

\* What is free is a number.
LEMMA SwapFreeIs ==
    ASSUME NEW s \in SwapType
    PROVE  s.swapFree \in Int /\ s.swapFree >= 0 /\ Wrap(s.swapFree) = s.swapFree
  <1>1. s.swapFree \in 0..(2^Width - 1)
    BY DEF SwapType
  <1>2. 2^Width \in Int
    BY ConstantsAssumption
  <1>3. Wrap(s.swapFree) = s.swapFree
    BY <1>1, WrapSmall
  <1> QED BY <1>1, <1>2, <1>3

\* Balanced steps one after the other are balanced.
LEMMA BalancedTwice ==
    ASSUME NEW s \in SwapType, NEW a, NEW r, Balanced(s, a), Balanced(a, r),
           AllBytes(s) \in Int, AllBytes(a) \in Int, AllBytes(r) \in Int
    PROVE  Balanced(s, r)
  <1>1. s.swapFree \in Int
    BY SwapFreeIs
  <1>2. PICK x \in Int : x = s.swapFree + (AllBytes(a) - AllBytes(s))
    BY <1>1
  <1>3. PICK y \in Int : y = AllBytes(r) - AllBytes(a)
    OBVIOUS
  <1>4. r.swapFree = Wrap(Wrap(x) + y)
    BY <1>2, <1>3 DEF Balanced
  <1>5. Wrap(Wrap(x) + y) = Wrap(x + y)
    BY <1>2, <1>3, WrapAdd
  <1>6. x + y = s.swapFree + (AllBytes(r) - AllBytes(s))
    BY <1>1, <1>2, <1>3
  <1> QED BY <1>4, <1>5, <1>6 DEF Balanced

-----------------------------------------------------------------------------
(* The chains *)

\* r differs from s at most in the locations, the bytes that are free and the chains.
Alike(s, r) ==
    /\ r.swapSize = s.swapSize /\ r.pending = s.pending /\ r.tracker = s.tracker
    /\ r.status = s.status /\ r.memChunks = s.memChunks /\ r.thrown = s.thrown
    /\ r.layout = s.layout /\ r.policy = s.policy

\* Each used location is in one place of one chain.
Chained(s) ==
    /\ \A c \in Chunks : \A i \in 1..Len(s.parts[c]) : s.parts[c][i] \in Used(s)
    /\ \A off \in Used(s) : \E c \in Chunks : \E i \in 1..Len(s.parts[c]) : s.parts[c][i] = off
    /\ \A c, d \in Chunks : \A i \in 1..Len(s.parts[c]), j \in 1..Len(s.parts[d]) :
          s.parts[c][i] = s.parts[d][j] => c = d /\ i = j

Sane(s) == s \in SwapType /\ Tiled(s) /\ Chained(s) /\ s.pending \subseteq Used(s)

\* In r, the first j locations of c have been given back, and else nothing has happened.
Given(s, r, c, j) ==
    /\ Sane(r) /\ Alike(s, r)
    /\ \A d \in Chunks : d # c => r.parts[d] = s.parts[d]
    /\ Len(r.parts[c]) = Len(s.parts[c]) - j
    /\ \A i \in 1..Len(r.parts[c]) : r.parts[c][i] = s.parts[c][i + j]
    /\ \A i \in 1..j : s.parts[c][i] \notin s.pending
    /\ \A off \in Used(r) : off \in Used(s) /\ r.all_space[off] = s.all_space[off]
    /\ Balanced(s, r) /\ AllBytes(r) >= AllBytes(s)

\* What a chain is.
LEMMA PartsAre ==
    ASSUME NEW s \in SwapType, NEW c \in Chunks
    PROVE  s.parts \in [Chunks -> Seq(Nat)] /\ s.parts[c] \in Seq(Nat) /\ Len(s.parts[c]) \in Nat
           /\ DOMAIN s.parts[c] = 1..Len(s.parts[c])
  <1>1. s.parts \in [Chunks -> Seq(Nat)]
    BY DEF SwapType
  <1> QED BY <1>1

\* The locations are all that tells how they tile the swap.
LEMMA SameSpace ==
    ASSUME NEW s, NEW r, r.all_space = s.all_space, r.free_space = s.free_space,
           r.swapSize = s.swapSize, r.layout = s.layout
    PROVE  /\ Tiled(r) <=> Tiled(s)
           /\ Used(r) = Used(s)
           /\ AllBytes(r) = AllBytes(s)
  <1>1. Sizes(r) = Sizes(s)
    BY DEF Sizes, LocationSize
  <1>2. AllBytes(r) = AllBytes(s)
    BY <1>1 DEF AllBytes
  <1>3. Used(r) = Used(s)
    BY DEF Used
  <1>4. \A off : (Free(r, off) <=> Free(s, off)) /\ LocationSize(r, off) = LocationSize(s, off)
    BY DEF Free, LocationSize
  <1>5. \A off, next : IsNext(r, off, next) <=> IsNext(s, off, next)
    BY DEF IsNext
  <1>6. \A off : Placed(r, off) <=> Placed(s, off)
    BY <1>4, <1>5 DEF Placed
  <1>7. Files(r) <=> Files(s)
    <2>1. {off \in DOMAIN r.all_space : Free(r, off)} = {off \in DOMAIN s.all_space : Free(s, off)}
      BY <1>4
    <2> QED BY <2>1 DEF Files, Span
  <1> QED BY <1>2, <1>3, <1>6, <1>7 DEF Tiled

\* The bytes are a number.
LEMMA AllBytesIs ==
    ASSUME NEW s \in SwapType, Tiled(s)
    PROVE  AllBytes(s) \in Int
  BY SizesAre DEF Tiled, Files

\* Giving back one location after others.
LEMMA GivenMore ==
    ASSUME NEW s \in SwapType, Tiled(s), NEW c \in Chunks, NEW j \in Nat, j < Len(s.parts[c]),
           NEW a, Given(s, a, c, j), NEW r, Given(a, r, c, 1)
    PROVE  Given(s, r, c, j + 1)
  <1>1. a \in SwapType /\ Tiled(a) /\ r \in SwapType /\ Tiled(r) /\ Sane(r)
    BY DEF Given, Sane
  <1>2. Alike(s, r)
    BY DEF Given, Alike
  <1>3. \A d \in Chunks : d # c => r.parts[d] = s.parts[d]
    BY DEF Given
  <1>4. Len(s.parts[c]) \in Nat /\ Len(a.parts[c]) \in Nat /\ Len(r.parts[c]) \in Nat
    BY <1>1, PartsAre
  <1>5. Len(a.parts[c]) = Len(s.parts[c]) - j /\ Len(r.parts[c]) = Len(a.parts[c]) - 1
    BY DEF Given
  <1>6. Len(r.parts[c]) = Len(s.parts[c]) - (j + 1)
    BY <1>4, <1>5
  <1>7. ASSUME NEW i \in 1..Len(r.parts[c]) PROVE r.parts[c][i] = s.parts[c][i + (j + 1)]
    <2>1. r.parts[c][i] = a.parts[c][i + 1] /\ i + 1 \in 1..Len(a.parts[c])
      BY <1>4, <1>5 DEF Given
    <2>2. a.parts[c][i + 1] = s.parts[c][(i + 1) + j]
      BY <2>1 DEF Given
    <2>3. (i + 1) + j = i + (j + 1)
      BY <1>4
    <2> QED BY <2>1, <2>2, <2>3
  <1>8. ASSUME NEW i \in 1..(j + 1) PROVE s.parts[c][i] \notin s.pending
    <2>1. CASE i \in 1..j
      BY <2>1 DEF Given
    <2>2. CASE i = j + 1
      <3>1. a.parts[c][1] \notin a.pending /\ a.pending = s.pending
        BY DEF Given, Alike
      <3>2. 1 \in 1..Len(a.parts[c])
        BY <1>4, <1>5
      <3>3. a.parts[c][1] = s.parts[c][1 + j]
        BY <3>2 DEF Given
      <3>4. 1 + j = i
        BY <2>2
      <3> QED BY <3>1, <3>3, <3>4
    <2>3. i \in 1..j \/ i = j + 1
      OBVIOUS
    <2> QED BY <2>1, <2>2, <2>3
  <1>9. \A off \in Used(r) : off \in Used(s) /\ r.all_space[off] = s.all_space[off]
    BY DEF Given
  <1>10. Balanced(s, r) /\ AllBytes(r) >= AllBytes(s)
    <2>1. AllBytes(s) \in Int /\ AllBytes(a) \in Int /\ AllBytes(r) \in Int
      BY <1>1, AllBytesIs
    <2>2. Balanced(s, a) /\ Balanced(a, r) /\ AllBytes(r) >= AllBytes(a) /\ AllBytes(a) >= AllBytes(s)
      BY DEF Given
    <2>3. Balanced(s, r)
      BY <2>1, <2>2, BalancedTwice
    <2> QED BY <2>1, <2>2, <2>3
  <1> QED BY <1>1, <1>2, <1>3, <1>6, <1>7, <1>8, <1>9, <1>10 DEF Given

\* One step of pffree.
LEMMA GivenOne ==
    ASSUME NEW s, Sane(s), NEW c \in Chunks, s.parts[c] # <<>>, Head(s.parts[c]) \notin s.pending,
           NEW r, r = [FreeLocation(s, Head(s.parts[c])) EXCEPT !.parts[c] = Tail(@)]
    PROVE  Given(s, r, c, 1)
  <1> DEFINE q == s.parts[c]
             off == q[1]
  <1>1. s \in SwapType /\ Tiled(s) /\ Chained(s) /\ s.pending \subseteq Used(s)
    BY DEF Sane
  <1>2. /\ s.parts \in [Chunks -> Seq(Nat)] /\ q \in Seq(Nat) /\ Len(q) \in Nat /\ Len(q) >= 1
        /\ Head(q) = off /\ Tail(q) \in Seq(Nat) /\ Len(Tail(q)) = Len(q) - 1
        /\ \A i \in 1..Len(Tail(q)) : Tail(q)[i] = q[i + 1]
    <2>1. s.parts \in [Chunks -> Seq(Nat)] /\ q \in Seq(Nat)
      BY <1>1, PartsAre
    <2>2. q # <<>>
      OBVIOUS
    <2> HIDE DEF q
    <2> QED BY <2>1, <2>2
  <1>3. off \in Used(s) /\ off \notin s.pending
    <2>1. 1 \in 1..Len(q)
      BY <1>2
    <2> QED BY <1>1, <1>2, <2>1 DEF Chained
  <1>4. PICK a : a = FreeLocation(s, off)
    OBVIOUS
  <1>5. a \in SwapType /\ Beside(s, a) /\ Tiled(a) /\ Freed(s, a, off) /\ Balanced(s, a) /\ AllBytes(a) >= AllBytes(s)
    BY <1>1, <1>3, <1>4, FreeTiled, FreeBalanced
  <1>6. r = [a EXCEPT !.parts = [s.parts EXCEPT ![c] = Tail(q)]]
    <2>1. r = [a EXCEPT !.parts[c] = Tail(@)]
      BY <1>2, <1>4
    <2>2. a.parts = s.parts
      BY <1>5 DEF Beside
    <2> QED BY <2>1, <2>2
  <1>7. PICK p : p = [s.parts EXCEPT ![c] = Tail(q)]
    OBVIOUS
  <1>8. p \in [Chunks -> Seq(Nat)] /\ p[c] = Tail(q) /\ \A d \in Chunks : d # c => p[d] = s.parts[d]
    BY <1>2, <1>7
  <1>9. /\ r \in SwapType /\ r.parts = p /\ r.all_space = a.all_space /\ r.free_space = a.free_space
        /\ r.swapSize = a.swapSize /\ r.layout = a.layout /\ r.pending = a.pending
        /\ r.tracker = a.tracker /\ r.status = a.status /\ r.memChunks = a.memChunks
        /\ r.thrown = a.thrown /\ r.policy = a.policy /\ r.swapFree = a.swapFree
    BY <1>5, <1>6, <1>7, <1>8 DEF SwapType
  <1>10. Alike(s, r)
    BY <1>5, <1>9 DEF Alike, Beside
  <1>11. Tiled(r) /\ Used(r) = Used(a) /\ AllBytes(r) = AllBytes(a)
    BY <1>5, <1>9, SameSpace
  <1>12. Used(r) = Used(s) \ {off} /\ \A o \in Used(r) : r.all_space[o] = s.all_space[o]
    BY <1>5, <1>9, <1>11 DEF Freed
  <1> HIDE DEF q, off
  <1>13. Len(r.parts[c]) = Len(q) - 1 /\ \A i \in 1..Len(r.parts[c]) : r.parts[c][i] = q[i + 1]
    BY <1>2, <1>8, <1>9
  <1>14. \A d \in Chunks : d # c => r.parts[d] = s.parts[d]
    BY <1>8, <1>9
  <1>15. Chained(r)
    <2>1. ASSUME NEW d \in Chunks, NEW i \in 1..Len(r.parts[d])
          PROVE  \E k \in 1..Len(s.parts[d]) : /\ r.parts[d][i] = s.parts[d][k] /\ k = (IF d = c THEN i + 1 ELSE i)
                                              /\ ~(d = c /\ k = 1)
      <3>1. CASE d = c
        <4>1. Len(q) = Len(s.parts[d]) /\ q = s.parts[d]
          BY <3>1 DEF q
        <4>2. i \in 1..(Len(q) - 1) /\ r.parts[d][i] = q[i + 1]
          BY <1>13, <3>1
        <4>3. Len(q) \in Nat
          BY <1>2
        <4>4. i + 1 \in 1..Len(q) /\ i + 1 # 1
          BY <4>2, <4>3
        <4> QED BY <3>1, <4>1, <4>2, <4>4
      <3>2. CASE d # c
        BY <1>14, <3>2
      <3> QED BY <3>1, <3>2
    <2>2. 1 \in 1..Len(s.parts[c]) /\ off = s.parts[c][1]
      BY <1>2 DEF q, off
    <2>3. ASSUME NEW d \in Chunks, NEW i \in 1..Len(r.parts[d]) PROVE r.parts[d][i] \in Used(r)
      <3>1. PICK k \in 1..Len(s.parts[d]) : r.parts[d][i] = s.parts[d][k] /\ ~(d = c /\ k = 1)
        BY <2>1
      <3>2. s.parts[d][k] \in Used(s)
        BY <1>1, <3>1 DEF Chained
      <3>3. s.parts[d][k] # s.parts[c][1]
        BY <1>1, <2>2, <3>1 DEF Chained
      <3> QED BY <1>12, <2>2, <3>1, <3>2, <3>3
    <2>4. ASSUME NEW o \in Used(r) PROVE \E d \in Chunks : \E i \in 1..Len(r.parts[d]) : r.parts[d][i] = o
      <3>0. PICK d \in Chunks : \E i \in 1..Len(s.parts[d]) : s.parts[d][i] = o
        BY <1>1, <1>12 DEF Chained
      <3>1. PICK i \in 1..Len(s.parts[d]) : s.parts[d][i] = o
        BY <3>0
      <3>2. CASE d = c
        <4>1. i # 1 /\ i \in 1..Len(q) /\ q[i] = o
          BY <1>12, <2>2, <3>1, <3>2 DEF q
        <4>2. Len(q) \in Nat /\ Len(r.parts[c]) = Len(q) - 1
          BY <1>2, <1>13
        <4>3. PICK k \in 1..Len(r.parts[c]) : k + 1 = i
          <5>1. i - 1 \in 1..Len(r.parts[c]) /\ (i - 1) + 1 = i
            BY <4>1, <4>2
          <5> QED BY <5>1
        <4>4. r.parts[c][k] = o
          BY <1>13, <4>1, <4>3
        <4> QED BY <3>2, <4>4
      <3>3. CASE d # c
        BY <1>14, <3>1, <3>3
      <3> QED BY <3>2, <3>3
    <2>5. ASSUME NEW d \in Chunks, NEW e \in Chunks, NEW i \in 1..Len(r.parts[d]), NEW k \in 1..Len(r.parts[e]),
                 r.parts[d][i] = r.parts[e][k]
          PROVE  d = e /\ i = k
      <3>1. PICK m \in 1..Len(s.parts[d]) : r.parts[d][i] = s.parts[d][m] /\ m = (IF d = c THEN i + 1 ELSE i)
        BY <2>1
      <3>2. PICK n \in 1..Len(s.parts[e]) : r.parts[e][k] = s.parts[e][n] /\ n = (IF e = c THEN k + 1 ELSE k)
        BY <2>1
      <3>3. s.parts[d][m] = s.parts[e][n]
        BY <2>5, <3>1, <3>2
      <3>4. d = e /\ m = n
        BY <1>1, <3>1, <3>2, <3>3 DEF Chained
      <3> QED BY <3>1, <3>2, <3>4
    <2> QED BY <2>3, <2>4, <2>5 DEF Chained
  <1>16. r.pending \subseteq Used(r) /\ off \notin s.pending
    BY <1>1, <1>3, <1>10, <1>12 DEF Alike
  <1>17. Balanced(s, r) /\ AllBytes(r) >= AllBytes(s)
    BY <1>5, <1>9, <1>11 DEF Balanced
  <1>18. \A i \in 1..1 : s.parts[c][i] \notin s.pending
    BY <1>16 DEF q, off
  <1> QED BY <1>9, <1>10, <1>11, <1>12, <1>13, <1>14, <1>15, <1>16, <1>17, <1>18 DEF Given, Sane, q

\* Nothing given back is nothing changed.
LEMMA GivenNone ==
    ASSUME NEW s, Sane(s), NEW c \in Chunks
    PROVE  Given(s, s, c, 0)
  <1>1. s \in SwapType /\ Tiled(s)
    BY DEF Sane
  <1>2. AllBytes(s) \in Int
    BY <1>1, AllBytesIs
  <1>3. Balanced(s, s)
    <2>1. s.swapFree \in Int /\ Wrap(s.swapFree) = s.swapFree
      BY <1>1, SwapFreeIs
    <2>2. s.swapFree + (AllBytes(s) - AllBytes(s)) = s.swapFree
      BY <1>2, <2>1
    <2> QED BY <2>1, <2>2 DEF Balanced
  <1>4. Len(s.parts[c]) \in Nat
    BY <1>1, PartsAre
  <1>5. Len(s.parts[c]) = Len(s.parts[c]) - 0 /\ \A i \in 1..Len(s.parts[c]) : s.parts[c][i] = s.parts[c][i + 0]
    BY <1>4
  <1>6. \A i \in 1..0 : s.parts[c][i] \notin s.pending
    OBVIOUS
  <1>7. AllBytes(s) >= AllBytes(s)
    BY <1>2
  <1> QED BY <1>3, <1>5, <1>6, <1>7 DEF Given, Alike

\* pffree gives back the locations of a chunk up to the first that is still being transferred.
PffreeEnds(s, r, c) ==
    \E j \in 0..Len(s.parts[c]) :
        Given(s, r, c, j) /\ (j < Len(s.parts[c]) => s.parts[c][j + 1] \in s.pending)

\* It does so.
LEMMA PffreeIs ==
    ASSUME NEW s, Sane(s), NEW c \in Chunks
    PROVE  PffreeEnds(s, Pffree(s, c), c)
  <1> DEFINE q == s.parts[c]
             n == Len(q)
  <1>1. s \in SwapType /\ Tiled(s) /\ Chained(s)
    BY DEF Sane
  <1>2. q \in Seq(Nat) /\ n \in Nat /\ DOMAIN q = 1..n
    BY <1>1, PartsAre
  <1>3. PICK h : Course(h, "pffree", c, s, q, n) /\ h[n] = Pffree(s, c)
    BY <1>2, PffreeWalk DEF Arrives
  <1>4. h[0] = s /\ \A i \in 1..n : h[i] = PffreeStep(c, h[i - 1], q[i])
    BY <1>3 DEF Course, WalkStep
  <1> DEFINE G == {i \in Nat : i <= n => \E j \in 0..i : Given(s, h[i], c, j) /\ (j < i => q[j + 1] \in s.pending)}
  <1>5. 0 \in G
    <2>1. Given(s, h[0], c, 0)
      BY <1>4, GivenNone
    <2>2. 0 \in 0..0 /\ ~(0 < 0)
      OBVIOUS
    <2> QED BY <2>1, <2>2
  <1>6. ASSUME NEW i \in Nat, i \in G PROVE i + 1 \in G
    <2>1. SUFFICES ASSUME i + 1 <= n
                   PROVE  \E j \in 0..(i + 1) : Given(s, h[i + 1], c, j) /\ (j < i + 1 => q[j + 1] \in s.pending)
      OBVIOUS
    <2>2. i <= n /\ i + 1 \in 1..n /\ (i + 1) - 1 = i
      BY <1>2, <2>1
    <2>3. PICK j \in 0..i : Given(s, h[i], c, j) /\ (j < i => q[j + 1] \in s.pending)
      BY <1>6, <2>2
    <2>4. PICK a : a = h[i]
      OBVIOUS
    <2>5. h[i + 1] = PffreeStep(c, a, q[i + 1])
      BY <1>4, <2>2, <2>4
    <2>6. j \in Nat /\ j + 1 \in 1..n /\ j \in 0..(i + 1) /\ j < n
      BY <1>2, <2>1, <2>3
    <2> HIDE DEF n, q, G
    <2>7. Sane(a) /\ a.pending = s.pending
      BY <2>3, <2>4 DEF Given, Alike
    <2>8. a.parts[c] # <<>> /\ Head(a.parts[c]) = q[j + 1]
      <3>1. a.parts[c] \in Seq(Nat) /\ Len(a.parts[c]) = n - j
        BY <2>3, <2>4, <2>7, PartsAre DEF Given, Sane, n, q
      <3>2. 1 \in 1..Len(a.parts[c])
        BY <1>2, <2>6, <3>1
      <3>3. a.parts[c][1] = q[1 + j]
        BY <2>3, <2>4, <3>2 DEF Given, q
      <3>4. 1 + j = j + 1
        BY <2>6
      <3> QED BY <3>1, <3>2, <3>3, <3>4
    <2>9. CASE j < i
      <3>1. q[i + 1] # q[j + 1]
        <4>1. i + 1 # j + 1
          BY <2>6, <2>9
        <4> QED BY <1>1, <2>2, <2>6, <4>1 DEF Chained, q, n
      <3>2. h[i + 1] = a
        BY <2>5, <2>8, <3>1 DEF PffreeStep
      <3> QED BY <2>3, <2>4, <2>6, <2>9, <3>2
    <2>10. CASE j = i /\ q[i + 1] \in a.pending
      <3>1. h[i + 1] = a
        BY <2>5, <2>10 DEF PffreeStep
      <3> QED BY <2>3, <2>4, <2>6, <2>7, <2>10, <3>1
    <2>11. CASE j = i /\ q[i + 1] \notin a.pending
      <3>1. PICK r : r = [FreeLocation(a, q[i + 1]) EXCEPT !.parts[c] = Tail(@)]
        OBVIOUS
      <3>2. h[i + 1] = r
        BY <2>5, <2>8, <2>11, <3>1 DEF PffreeStep
      <3>3. q[i + 1] = Head(a.parts[c])
        BY <2>8, <2>11
      <3>4. Given(a, r, c, 1)
        BY <2>7, <2>8, <2>11, <3>1, <3>3, GivenOne
      <3>5. Given(s, r, c, j + 1)
        BY <1>1, <2>3, <2>4, <2>6, <3>4, GivenMore DEF q, n
      <3>6. j + 1 \in 0..(i + 1) /\ ~(j + 1 < i + 1)
        BY <2>6, <2>11
      <3> QED BY <3>2, <3>5, <3>6
    <2> QED BY <2>3, <2>9, <2>10, <2>11
  <1>7. n \in G
    <2> HIDE DEF G
    <2> QED BY <1>2, <1>5, <1>6, NumberInduction
  <1>8. \E j \in 0..n : Given(s, h[n], c, j) /\ (j < n => q[j + 1] \in s.pending)
    <2>1. n <= n
      BY <1>2
    <2> QED BY <1>7, <2>1
  <1> QED BY <1>3, <1>8 DEF PffreeEnds

-----------------------------------------------------------------------------
(* The other walks *)

\* cleanupCachedElements as a walk.
LEMMA CleanupWalk ==
    ASSUME NEW s, NEW minimum, NEW n \in Nat, DOMAIN s.memChunks = 1..n
    PROVE  \E h : /\ Course(h, "cleanup", minimum, [s |-> s, cleanedUp |-> 0], s.memChunks, n)
                  /\ CleanupCachedElements(s, minimum)
                       = [s |-> h[n].s, enough |-> h[n].cleanedUp > minimum]
  <1> DEFINE base == [s |-> s, cleanedUp |-> 0]
             q == s.memChunks
             Concrete(g) == g = [u \in SUBSET (1..n) |-> IF u = {} THEN base
                                    ELSE CleanupStep(minimum, g[u \ {Max(u)}], q[Max(u)])]
  <1>1. \A g : Walks(g, "cleanup", minimum, base, q, SUBSET (1..n)) <=> Concrete(g)
    BY DEF Walks, WalkStep
  <1>2. PICK r : r = (CHOOSE g : Concrete(g))[1..n]
    OBVIOUS
  <1>3. CleanupCachedElements(s, minimum) = [s |-> r.s, enough |-> r.cleanedUp > minimum]
    BY <1>2 DEF CleanupCachedElements, FoldLeft, MapThenFoldSet, CleanupStep
  <1>4. PICK g : g = CHOOSE f : Concrete(f)
    OBVIOUS
  <1>5. Concrete(g)
    <2>1. \E f : Concrete(f)
      <3> HIDE DEF Concrete, base, q
      <3> QED BY <1>1, WalksExist
    <2> HIDE DEF Concrete
    <2> QED BY <1>4, <2>1
  <1>6. Walks(g, "cleanup", minimum, base, q, SUBSET (1..n))
    BY <1>1, <1>5
  <1>7. PICK h : Course(h, "cleanup", minimum, base, q, n) /\ h[n] = g[1..n]
    <2> HIDE DEF base, q, Concrete
    <2>1. Arrives("cleanup", minimum, base, q, n, g[1..n])
      BY <1>6, WalkGoes
    <2> QED BY <2>1 DEF Arrives
  <1>8. r = h[n]
    BY <1>2, <1>4, <1>7
  <1> QED BY <1>3, <1>7, <1>8

\* Distribute as a walk.
LEMMA DistributeWalk ==
    ASSUME NEW s, NEW c, NEW n \in Nat, DOMAIN FreeList(s) = 1..n
    PROVE  Arrives("distribute", s, [s |-> s, parts |-> <<>>, left |-> Size[c]], FreeList(s), n, Distribute(s, c))
  <1> DEFINE base == [s |-> s, parts |-> <<>>, left |-> Size[c]]
  <1>1. PICK q : q = FreeList(s)
    OBVIOUS
  <1> DEFINE Concrete(g) == g = [u \in SUBSET (1..n) |-> IF u = {} THEN base
                                    ELSE DistributeStep(s, g[u \ {Max(u)}], q[Max(u)])]
  <1>2. \A g : Walks(g, "distribute", s, base, q, SUBSET (1..n)) <=> Concrete(g)
    BY DEF Walks, WalkStep
  <1>3. Distribute(s, c) = (CHOOSE g : Concrete(g))[1..n]
    BY <1>1 DEF Distribute, FoldLeft, MapThenFoldSet, DistributeStep
  <1>4. PICK g : g = CHOOSE f : Concrete(f)
    OBVIOUS
  <1>5. Concrete(g)
    <2>1. \E f : Concrete(f)
      <3> HIDE DEF Concrete, base
      <3> QED BY <1>2, WalksExist
    <2> HIDE DEF Concrete
    <2> QED BY <1>4, <2>1
  <1>6. Walks(g, "distribute", s, base, q, SUBSET (1..n))
    BY <1>2, <1>5
  <1>7. Arrives("distribute", s, base, q, n, g[1..n])
    <2> HIDE DEF base, Concrete
    <2> QED BY <1>6, WalkGoes
  <1> QED BY <1>1, <1>3, <1>4, <1>7

\* The bytes of the locations of a chunk, added up along its chain.
Held(s, c) == FoldLeft(LAMBDA n, off : n + LocationSize(s, off), 0, s.parts[c])

\* That sum as a walk.
LEMMA HeldWalk ==
    ASSUME NEW s, NEW c, NEW n \in Nat, DOMAIN s.parts[c] = 1..n
    PROVE  Arrives("bytes", s, 0, s.parts[c], n, Held(s, c))
  <1>1. PICK q : q = s.parts[c]
    OBVIOUS
  <1> DEFINE Concrete(g) == g = [u \in SUBSET (1..n) |-> IF u = {} THEN 0
                                    ELSE g[u \ {Max(u)}] + LocationSize(s, q[Max(u)])]
  <1>2. \A g : Walks(g, "bytes", s, 0, q, SUBSET (1..n)) <=> Concrete(g)
    BY DEF Walks, WalkStep
  <1>3. Held(s, c) = (CHOOSE g : Concrete(g))[1..n]
    BY <1>1 DEF Held, FoldLeft, MapThenFoldSet
  <1>4. PICK g : g = CHOOSE f : Concrete(f)
    OBVIOUS
  <1>5. Concrete(g)
    <2>1. \E f : Concrete(f)
      <3> HIDE DEF Concrete
      <3> QED BY <1>2, WalksExist
    <2> HIDE DEF Concrete
    <2> QED BY <1>4, <2>1
  <1>6. Walks(g, "bytes", s, 0, q, SUBSET (1..n))
    BY <1>2, <1>5
  <1>7. Arrives("bytes", s, 0, q, n, g[1..n])
    <2> HIDE DEF Concrete
    <2> QED BY <1>6, WalkGoes
  <1> QED BY <1>1, <1>3, <1>4, <1>7

\* A finite set of numbers in its order: at each place is one of its elements, and each
\* element is at one place.
LEMMA RanksAre ==
    ASSUME NEW S \in SUBSET Nat, IsFiniteSet(S)
    PROVE  /\ Cardinality(S) \in Nat
           /\ \A i \in 1..Cardinality(S) : \E x \in S : Cardinality({o \in S : o < x}) = i - 1
           /\ \A x \in S : Cardinality({o \in S : o < x}) + 1 \in 1..Cardinality(S)
           /\ \A x, y \in S : Cardinality({o \in S : o < x}) = Cardinality({o \in S : o < y}) => x = y
  <1> DEFINE Below(x) == {o \in S : o < x}
             n == Cardinality(S)
  <1>1. n \in Nat
    BY FS_CardinalityType
  <1>2. \A T \in SUBSET S : IsFiniteSet(T) /\ Cardinality(T) \in Nat /\ Cardinality(T) <= n
    BY FS_Subset, FS_CardinalityType
  <1>3. ASSUME NEW x \in S
        PROVE  /\ Cardinality(Below(x)) \in Nat /\ IsFiniteSet(Below(x)) /\ x \notin Below(x)
               /\ Cardinality(Below(x) \cup {x}) = Cardinality(Below(x)) + 1
    <2>1. Below(x) \in SUBSET S /\ x \notin Below(x)
      OBVIOUS
    <2>2. IsFiniteSet(Below(x)) /\ Cardinality(Below(x)) \in Nat
      BY <1>2, <2>1
    <2> HIDE DEF Below
    <2>3. Cardinality(Below(x) \cup {x}) = Cardinality(Below(x)) + 1
      BY <2>1, <2>2, FS_AddElement
    <2> QED BY <2>1, <2>2, <2>3
  <1>4. ASSUME NEW x \in S PROVE Cardinality(Below(x)) + 1 \in 1..n
    <2>1. Below(x) \cup {x} \in SUBSET S
      OBVIOUS
    <2>2. Cardinality(Below(x) \cup {x}) <= n
      BY <1>2, <2>1
    <2> HIDE DEF Below, n
    <2> QED BY <1>1, <1>3, <2>2
  <1>5. ASSUME NEW x \in S, NEW y \in S, x < y PROVE Cardinality(Below(x)) < Cardinality(Below(y))
    <2>1. Below(x) \cup {x} \in SUBSET Below(y)
      <3>1. \A o \in S : o < x => o < y
        <4>1. S \subseteq Nat /\ x \in Nat /\ y \in Nat
          OBVIOUS
        <4> QED BY <1>5, <4>1
      <3>2. \A o \in Below(x) \cup {x} : o \in S /\ o < y
        BY <1>5, <3>1
      <3> QED BY <3>2
    <2>2. IsFiniteSet(Below(y)) /\ Cardinality(Below(y)) \in Nat
      BY <1>3
    <2> HIDE DEF Below
    <2>3. Cardinality(Below(x) \cup {x}) <= Cardinality(Below(y))
      BY <2>1, <2>2, FS_Subset
    <2> QED BY <1>3, <2>2, <2>3
  <1>6. ASSUME NEW x \in S, NEW y \in S, Cardinality(Below(x)) = Cardinality(Below(y)) PROVE x = y
    <2>1. x < y \/ y < x \/ x = y
      <3>1. x \in Nat /\ y \in Nat
        OBVIOUS
      <3> QED BY <3>1
    <2> HIDE DEF Below
    <2>2. PICK k \in Nat : k = Cardinality(Below(x)) /\ k = Cardinality(Below(y))
      BY <1>3, <1>6
    <2>3. ~(k < k)
      BY <2>2
    <2>4. ~(x < y)
      BY <1>5, <2>2, <2>3
    <2>5. ~(y < x)
      BY <1>5, <2>2, <2>3
    <2> QED BY <2>1, <2>4, <2>5
  <1> DEFINE G == {i \in Nat : i < n => \E x \in S : Cardinality(Below(x)) = i}
  <1>7. 0 \in G
    <2>1. SUFFICES ASSUME 0 < n PROVE \E x \in S : Cardinality(Below(x)) = 0
      OBVIOUS
    <2>2. S # {}
      BY <2>1, FS_EmptySet
    <2>3. Min(S) \in S /\ \A y \in S : Min(S) <= y
      <3>1. S \in SUBSET Int /\ \A x \in S : x >= 0
        OBVIOUS
      <3> QED BY <2>2, <3>1, MinIs
    <2>4. Below(Min(S)) = {}
      <3>1. \A y \in S : ~(y < Min(S))
        <4>1. PICK m \in Nat : m = Min(S)
          BY <2>3
        <4>2. \A y \in S : y \in Nat /\ m <= y
          BY <2>3, <4>1
        <4> QED BY <4>1, <4>2
      <3> QED BY <3>1
    <2>5. Cardinality(Below(Min(S))) = 0
      BY <2>4, FS_EmptySet
    <2> QED BY <2>3, <2>5
  <1>8. ASSUME NEW i \in Nat, i \in G PROVE i + 1 \in G
    <2>1. SUFFICES ASSUME i + 1 < n PROVE \E x \in S : Cardinality(Below(x)) = i + 1
      OBVIOUS
    <2>2. PICK x \in S : Cardinality(Below(x)) = i
      BY <1>1, <1>8, <2>1
    <2> DEFINE Above == {o \in S : o > x}
    <2>3. Above # {}
      <3>1. SUFFICES ASSUME Above = {} PROVE FALSE
        OBVIOUS
      <3>2. S = Below(x) \cup {x}
        <4>1. \A o \in S : o \in Nat /\ ~(o > x) /\ x \in Nat
          BY <3>1
        <4>2. \A o \in S : o < x \/ o = x
          BY <4>1
        <4> QED BY <4>2
      <3>3. n = i + 1
        BY <1>3, <2>2, <3>2
      <3> QED BY <1>1, <2>1, <3>3
    <2>4. Min(Above) \in Above /\ \A y \in Above : Min(Above) <= y
      <3>1. Above \in SUBSET Int /\ \A y \in Above : y >= 0
        <4>1. \A o \in S : o \in Int /\ o >= 0
          OBVIOUS
        <4> QED BY <4>1
      <3> HIDE DEF Above
      <3> QED BY <2>3, <3>1, MinIs
    <2>5. PICK y \in S : y = Min(Above) /\ y > x
      BY <2>4
    <2>6. Below(y) = Below(x) \cup {x}
      <3>1. \A o \in S : o < y <=> o < x \/ o = x
        BY <2>2, <2>4, <2>5
      <3> QED BY <2>2, <3>1
    <2>7. Cardinality(Below(y)) = i + 1
      BY <1>3, <2>2, <2>6
    <2> QED BY <2>5, <2>7
  <1>9. \A i \in Nat : i \in G
    <2> HIDE DEF G
    <2> QED BY <1>7, <1>8, NumberInduction
  <1>10. ASSUME NEW i \in 1..n PROVE \E x \in S : Cardinality(Below(x)) = i - 1
    <2>1. i - 1 \in Nat /\ i - 1 < n
      BY <1>1
    <2> QED BY <1>9, <2>1
  <1> QED BY <1>1, <1>4, <1>6, <1>10

\* What the code finds when it goes through free_space.
LEMMA FreeListIs ==
    ASSUME NEW s \in SwapType, Tiled(s)
    PROVE  \E n \in Nat :
              /\ DOMAIN FreeList(s) = 1..n
              /\ \A i \in 1..n : FreeList(s)[i] \in s.free_space
              /\ \A i, j \in 1..n : FreeList(s)[i] = FreeList(s)[j] => i = j
              /\ \A off \in s.free_space : \E i \in 1..n : FreeList(s)[i] = off
  <1>1. PICK S : S = s.free_space
    OBVIOUS
  <1>2. S \in SUBSET Nat /\ IsFiniteSet(S)
    <2>1. S \in SUBSET (DOMAIN s.all_space) /\ DOMAIN s.all_space \subseteq Nat
      BY <1>1, KeysAre DEF Tiled, Files
    <2>2. Span(s)
      BY DEF Tiled, Files
    <2> QED BY <2>1, <2>2, SizesAre
  <1> DEFINE Rank(x) == Cardinality({o \in S : o < x})
             n == Cardinality(S)
  <1>3. /\ n \in Nat
        /\ \A i \in 1..n : \E x \in S : Rank(x) = i - 1
        /\ \A x \in S : Rank(x) + 1 \in 1..n
        /\ \A x, y \in S : Rank(x) = Rank(y) => x = y
    BY <1>2, RanksAre
  <1>4. PICK q : q = [i \in 1..n |-> CHOOSE x \in S : Rank(x) = i - 1]
    OBVIOUS
  <1>5. q = FreeList(s)
    BY <1>1, <1>4 DEF FreeList
  <1> HIDE DEF Rank, n
  <1>6. \A i \in 1..n : q[i] \in S /\ Rank(q[i]) = i - 1
    BY <1>3, <1>4
  <1>7. \A i, j \in 1..n : q[i] = q[j] => i = j
    <2>1. \A i, j \in 1..n : i - 1 = j - 1 => i = j
      BY <1>3
    <2> QED BY <1>6, <2>1
  <1>8. ASSUME NEW off \in S PROVE \E i \in 1..n : q[i] = off
    <2>1. PICK i \in 1..n : i = Rank(off) + 1
      BY <1>3
    <2>2. Rank(q[i]) = Rank(off)
      <3>1. Rank(q[i]) = i - 1 /\ Rank(off) \in Int
        <4>1. {o \in S : o < off} \in SUBSET S
          OBVIOUS
        <4>2. Rank(off) \in Nat
          BY <1>2, <4>1, FS_Subset, FS_CardinalityType DEF Rank
        <4> QED BY <1>6, <4>2
      <3> QED BY <2>1, <3>1
    <2> QED BY <1>3, <1>6, <2>2
  <1>9. DOMAIN q = 1..n
    BY <1>4
  <1> QED BY <1>1, <1>3, <1>5, <1>6, <1>7, <1>8, <1>9

-----------------------------------------------------------------------------
(* Sums over locations *)

\* FreeBytes is the sum of the sizes of the free locations.
LEMMA FreeBytesIs ==
    ASSUME NEW s \in SwapType, Tiled(s)
    PROVE  /\ FreeBytes(s) = SumOver(Sizes(s), s.free_space) /\ FreeBytes(s) \in Nat
           /\ AllBytes(s) = FreeBytes(s) + SumOver(Sizes(s), Used(s))
           /\ SumOver(Sizes(s), Used(s)) \in Nat
  <1> DEFINE f == Sizes(s)
             D == DOMAIN s.all_space
  <1>1. PICK S : S = s.free_space
    OBVIOUS
  <1>2. S \in SUBSET D /\ Span(s)
    BY <1>1 DEF Tiled, Files
  <1>3. /\ IsFiniteSet(D) /\ AllBytes(s) = SumOver(f, D)
        /\ \A off \in D : f[off] = LocationSize(s, off) /\ f[off] \in Int
        /\ IsFiniteSet(S) /\ SumOver(f, S) \in Nat /\ SumOver(f, D \ S) \in Nat
    <2>1. D \ S \in SUBSET D
      OBVIOUS
    <2> QED BY <1>2, <2>1, SizesAre DEF AllBytes
  <1> DEFINE Concrete(g) == g = [u \in SUBSET S |-> IF u = {} THEN 0
                                    ELSE LocationSize(s, First(u)) + g[u \ {First(u)}]]
  <1>4. FreeBytes(s) = (CHOOSE g : Concrete(g))[S]
    BY <1>1 DEF FreeBytes, MapThenSumSet, MapThenFoldSet, First
  <1>5. \A g : Sums(g, f, SUBSET S) <=> Concrete(g)
    <2>1. \A u \in SUBSET S : u # {} => First(u) \in D
      BY <1>2 DEF First
    <2>2. \A u \in SUBSET S : u # {} => f[First(u)] = LocationSize(s, First(u))
      BY <1>3, <2>1
    <2> HIDE DEF f, D
    <2> QED BY <2>2 DEF Sums
  <1>6. PICK g : g = CHOOSE h : Concrete(h)
    OBVIOUS
  <1> HIDE DEF f, D
  <1>7. Sums(g, f, SUBSET S)
    <2>1. \E h : Concrete(h)
      <3> HIDE DEF Concrete
      <3> QED BY <1>3, <1>5, SumsExists
    <2> HIDE DEF Concrete
    <2> QED BY <1>5, <1>6, <2>1
  <1>8. SumOver(f, S) = g[S]
    BY <1>3, <1>7, SumIsSums
  <1>9. FreeBytes(s) = SumOver(f, S)
    BY <1>4, <1>6, <1>8
  <1>10. SumOver(f, D) = SumOver(f, S) + SumOver(f, D \ S)
    BY <1>2, <1>3, SumUnion
  <1> QED BY <1>1, <1>3, <1>9, <1>10 DEF Used, f, D

\* The locations of a chunk.
Chain(s, c) == {s.parts[c][i] : i \in 1..Len(s.parts[c])}

\* They are used, and those on their way are some of them.
LEMMA ChainIs ==
    ASSUME NEW s \in SwapType, Chained(s), NEW c \in Chunks
    PROVE  /\ Chain(s, c) = ToSet(s.parts[c]) /\ Chain(s, c) \subseteq Used(s)
           /\ Chain(s, c) \subseteq DOMAIN s.all_space
           /\ Chain(s, c) = {} <=> s.parts[c] = <<>>
  <1>1. s.parts[c] \in Seq(Nat) /\ DOMAIN s.parts[c] = 1..Len(s.parts[c]) /\ Len(s.parts[c]) \in Nat
    BY PartsAre
  <1>2. Chain(s, c) = ToSet(s.parts[c])
    BY <1>1 DEF Chain, ToSet
  <1>3. Chain(s, c) \subseteq Used(s)
    BY DEF Chained, Chain
  <1>4. Chain(s, c) = {} <=> s.parts[c] = <<>>
    <2>1. PICK q \in Seq(Nat) : q = s.parts[c]
      BY <1>1
    <2>2. q = <<>> => Chain(s, c) = {}
      BY <2>1 DEF Chain
    <2>3. q # <<>> => 1 \in 1..Len(q)
      OBVIOUS
    <2>4. q # <<>> => Chain(s, c) # {}
      BY <2>1, <2>3 DEF Chain
    <2> QED BY <2>1, <2>2, <2>4
  <1> QED BY <1>2, <1>3, <1>4 DEF Used

\* The sum along a chain is the sum over its locations.
LEMMA HeldIs ==
    ASSUME NEW s \in SwapType, Tiled(s), Chained(s), NEW c \in Chunks
    PROVE  Held(s, c) = SumOver(Sizes(s), Chain(s, c)) /\ Held(s, c) \in Nat
  <1> DEFINE q == s.parts[c]
             n == Len(q)
             f == Sizes(s)
             T(i) == {q[k] : k \in 1..i}
  <1>1. q \in Seq(Nat) /\ n \in Nat /\ DOMAIN q = 1..n
    BY PartsAre
  <1>2. Span(s) /\ Chain(s, c) \subseteq DOMAIN s.all_space
    BY ChainIs DEF Tiled, Files
  <1>3. PICK h : Course(h, "bytes", s, 0, q, n) /\ h[n] = Held(s, c)
    BY <1>1, HeldWalk DEF Arrives
  <1>4. h[0] = 0 /\ \A i \in 1..n : h[i] = h[i - 1] + LocationSize(s, q[i])
    BY <1>3 DEF Course, WalkStep
  <1>5. /\ \A off \in DOMAIN s.all_space : f[off] = LocationSize(s, off) /\ f[off] \in Int
        /\ \A S \in SUBSET (DOMAIN s.all_space) : IsFiniteSet(S) /\ SumOver(f, S) \in Nat
    BY <1>2, SizesAre
  <1>6. \A i \in 0..n : T(i) \in SUBSET (DOMAIN s.all_space)
    BY <1>1, <1>2 DEF Chain
  <1>7. \A i, j \in 1..n : q[i] = q[j] => i = j
    BY DEF Chained
  <1> DEFINE G == {i \in Nat : i <= n => h[i] = SumOver(f, T(i))}
  <1>8. 0 \in G
    <2>1. T(0) = {}
      OBVIOUS
    <2> HIDE DEF T, q, n, f
    <2>2. SumOver(f, T(0)) = 0
      BY <2>1, SumEmpty
    <2> QED BY <1>4, <2>2
  <1>9. ASSUME NEW i \in Nat, i \in G PROVE i + 1 \in G
    <2>1. SUFFICES ASSUME i + 1 <= n PROVE h[i + 1] = SumOver(f, T(i + 1))
      OBVIOUS
    <2>2. i <= n /\ i + 1 \in 1..n /\ (i + 1) - 1 = i /\ i \in 0..n
      BY <1>1, <2>1
    <2>3. PICK off : off = q[i + 1]
      OBVIOUS
    <2>4. off \in DOMAIN s.all_space
      BY <1>2, <2>2, <2>3 DEF Chain
    <2>5. T(i + 1) = T(i) \cup {off}
      <3>1. \A k : k \in 1..(i + 1) <=> k \in 1..i \/ k = i + 1
        OBVIOUS
      <3> QED BY <2>3, <3>1
    <2>6. off \notin T(i)
      <3>1. \A k \in 1..i : k \in 1..n /\ k # i + 1
        BY <1>1, <2>1
      <3> QED BY <1>7, <2>2, <2>3, <3>1
    <2>7. h[i] = SumOver(f, T(i))
      BY <1>9, <2>2
    <2>8. h[i + 1] = h[i] + LocationSize(s, off)
      BY <1>4, <2>2, <2>3
    <2>9. IsFiniteSet(T(i)) /\ \A x \in T(i) : f[x] \in Int
      BY <1>5, <1>6, <2>2
    <2>10. f[off] = LocationSize(s, off) /\ f[off] \in Int
      BY <1>5, <2>4
    <2> HIDE DEF T, q, n, f, G
    <2>11. SumOver(f, T(i) \cup {off}) = SumOver(f, T(i)) + f[off]
      BY <2>6, <2>9, <2>10, SumAdd
    <2> QED BY <2>5, <2>7, <2>8, <2>10, <2>11
  <1>10. h[n] = SumOver(f, T(n))
    <2>1. n \in G
      <3> HIDE DEF G
      <3> QED BY <1>1, <1>8, <1>9, NumberInduction
    <2>2. n <= n
      BY <1>1
    <2> QED BY <2>1, <2>2
  <1>11. T(n) = Chain(s, c)
    BY DEF Chain
  <1>12. SumOver(f, T(n)) \in Nat
    BY <1>1, <1>5, <1>6
  <1> QED BY <1>3, <1>10, <1>11, <1>12

\* Where its locations are the same, a chunk has as many bytes.
LEMMA HeldSame ==
    ASSUME NEW s \in SwapType, Tiled(s), Chained(s), NEW r \in SwapType, Tiled(r), Chained(r),
           NEW c \in Chunks, r.parts[c] = s.parts[c],
           \A off \in Chain(s, c) : r.all_space[off] = s.all_space[off]
    PROVE  Held(r, c) = Held(s, c)
  <1>1. Chain(r, c) = Chain(s, c)
    BY DEF Chain
  <1>2. Chain(s, c) \subseteq DOMAIN s.all_space /\ Chain(r, c) \subseteq DOMAIN r.all_space
    BY ChainIs
  <1>3. IsFiniteSet(Chain(s, c))
    BY <1>2, SizesAre DEF Tiled, Files
  <1>4. \A off \in Chain(s, c) : Sizes(s)[off] = Sizes(r)[off]
    BY <1>1, <1>2 DEF Sizes, LocationSize
  <1>5. SumOver(Sizes(s), Chain(s, c)) = SumOver(Sizes(r), Chain(s, c))
    BY <1>3, <1>4, SumSame
  <1> QED BY <1>1, <1>5, HeldIs

\* Where the locations of S are the same, they have as many bytes.
LEMMA SizesSame ==
    ASSUME NEW s \in SwapType, Tiled(s), NEW r \in SwapType, Tiled(r), NEW S,
           S \subseteq Used(s), S \subseteq Used(r), \A off \in S : r.all_space[off] = s.all_space[off]
    PROVE  SumOver(Sizes(r), S) = SumOver(Sizes(s), S)
  <1>1. S \in SUBSET (DOMAIN s.all_space) /\ S \in SUBSET (DOMAIN r.all_space)
    BY DEF Used
  <1>2. IsFiniteSet(S)
    BY <1>1, SizesAre DEF Tiled, Files
  <1>3. \A off \in S : Sizes(s)[off] = Sizes(r)[off]
    BY <1>1 DEF Sizes, LocationSize
  <1> QED BY <1>2, <1>3, SumSame

-----------------------------------------------------------------------------
(* cleanupCachedElements *)

\* When the whole of a chunk has been given back, its bytes are free.
LEMMA GivenAll ==
    ASSUME NEW s, Sane(s), NEW c \in Chunks, NEW r, Given(s, r, c, Len(s.parts[c]))
    PROVE  /\ r.parts[c] = <<>> /\ Used(r) = Used(s) \ Chain(s, c)
           /\ FreeBytes(r) >= FreeBytes(s) + Held(s, c)
  <1>1. s \in SwapType /\ Tiled(s) /\ Chained(s) /\ Sane(r) /\ r \in SwapType /\ Tiled(r) /\ Chained(r)
    BY DEF Given, Sane
  <1>2. r.parts[c] \in Seq(Nat) /\ Len(r.parts[c]) = 0
    <2>1. Len(r.parts[c]) = Len(s.parts[c]) - Len(s.parts[c])
      BY DEF Given
    <2>2. Len(s.parts[c]) \in Nat
      BY <1>1, PartsAre
    <2> QED BY <1>1, <2>1, <2>2, PartsAre
  <1>3. r.parts[c] = <<>>
    BY <1>2
  <1>4. \A d \in Chunks : d # c => r.parts[d] = s.parts[d]
    BY DEF Given
  <1>5. \A off \in Used(r) : off \in Used(s) /\ r.all_space[off] = s.all_space[off]
    BY DEF Given
  <1>6. Used(r) = Used(s) \ Chain(s, c)
    <2>1. ASSUME NEW off \in Used(r) PROVE off \notin Chain(s, c)
      <3>1. PICK d \in Chunks : \E i \in 1..Len(r.parts[d]) : r.parts[d][i] = off
        BY <1>1 DEF Chained
      <3>2. d # c
        BY <1>2, <3>1
      <3>3. \E i \in 1..Len(s.parts[d]) : s.parts[d][i] = off
        BY <1>4, <3>1, <3>2
      <3> QED BY <1>1, <3>2, <3>3 DEF Chained, Chain
    <2>2. ASSUME NEW off \in Used(s), off \notin Chain(s, c) PROVE off \in Used(r)
      <3>1. PICK d \in Chunks : \E i \in 1..Len(s.parts[d]) : s.parts[d][i] = off
        BY <1>1 DEF Chained
      <3>2. d # c
        BY <2>2, <3>1 DEF Chain
      <3>3. \E i \in 1..Len(r.parts[d]) : r.parts[d][i] = off
        BY <1>4, <3>1, <3>2
      <3> QED BY <1>1, <3>3 DEF Chained
    <2> QED BY <1>5, <2>1, <2>2
  <1>7. PICK u \in Nat, v \in Nat : u = SumOver(Sizes(s), Used(s)) /\ v = SumOver(Sizes(r), Used(r))
    BY <1>1, FreeBytesIs
  <1>8. Held(s, c) = SumOver(Sizes(s), Chain(s, c)) /\ Held(s, c) \in Nat
    BY <1>1, HeldIs
  <1>9. u = Held(s, c) + v
    <2>1. v = SumOver(Sizes(s), Used(r))
      <3>1. Used(r) \subseteq Used(s)
        BY <1>5
      <3> QED BY <1>1, <1>5, <1>7, <3>1, SizesSame
    <2>2. /\ IsFiniteSet(Used(s)) /\ Chain(s, c) \in SUBSET Used(s)
          /\ \A off \in Used(s) : Sizes(s)[off] \in Int
      <3>1. Used(s) \in SUBSET (DOMAIN s.all_space)
        BY DEF Used
      <3> QED BY <1>1, <3>1, ChainIs, SizesAre DEF Tiled, Files
    <2>3. SumOver(Sizes(s), Used(s)) = SumOver(Sizes(s), Chain(s, c)) + SumOver(Sizes(s), Used(s) \ Chain(s, c))
      BY <2>2, SumUnion
    <2> QED BY <1>6, <1>7, <1>8, <2>1, <2>3
  <1>10. FreeBytes(r) >= FreeBytes(s) + Held(s, c)
    <2>1. AllBytes(s) = FreeBytes(s) + u /\ AllBytes(r) = FreeBytes(r) + v
      BY <1>1, <1>7, FreeBytesIs
    <2>2. FreeBytes(s) \in Nat /\ FreeBytes(r) \in Nat
      BY <1>1, FreeBytesIs
    <2>3. AllBytes(r) >= AllBytes(s)
      BY DEF Given
    <2>4. u \in Nat /\ v \in Nat
      BY <1>7
    <2> QED BY <1>8, <1>9, <2>1, <2>2, <2>3, <2>4
  <1> QED BY <1>3, <1>6, <1>10

\* A page copy is whole and nothing of it is on its way.
Copies(s) ==
    \A c \in Cached(s) : Held(s, c) = Size[c] /\ \A i \in 1..Len(s.parts[c]) : s.parts[c][i] \notin s.pending

\* In r the page copies of the chunks of K are deleted, and else nothing has happened.
Cleaned(s, r, K) ==
    /\ Sane(r) /\ Alike(s, r) /\ K \subseteq Cached(s)
    /\ \A d \in Chunks : r.parts[d] = IF d \in K THEN <<>> ELSE s.parts[d]
    /\ \A off \in Used(r) : off \in Used(s) /\ r.all_space[off] = s.all_space[off]
    /\ Balanced(s, r) /\ AllBytes(r) >= AllBytes(s)
    /\ FreeBytes(r) >= FreeBytes(s) + SumOver(Size, K)

\* The sizes of chunks are numbers.
LEMMA ChunkSizes ==
    ASSUME NEW K \in SUBSET Chunks
    PROVE  /\ IsFiniteSet(K) /\ SumOver(Size, K) \in Nat
           /\ \A c \in Chunks : Size[c] \in Nat \ {0}
  <1>1. IsFiniteSet(K) /\ \A c \in Chunks : Size[c] \in Nat \ {0}
    BY ConstantsAssumption, FS_Subset
  <1>2. SumOver(Size, K) \in Nat
    BY <1>1, SumType
  <1> QED BY <1>1, <1>2

\* After some copies have been deleted, the others are still whole.
LEMMA CleanedCopies ==
    ASSUME NEW s, Sane(s), Copies(s), NEW K, NEW a, Cleaned(s, a, K)
    PROVE  Copies(a) /\ Cached(a) = Cached(s) \ K
           /\ \A c \in Chunks \ K : Held(a, c) = Held(s, c) /\ Chain(a, c) = Chain(s, c)
  <1>1. s \in SwapType /\ Tiled(s) /\ Chained(s) /\ a \in SwapType /\ Tiled(a) /\ Chained(a)
    BY DEF Cleaned, Sane
  <1>2. a.status = s.status /\ a.pending = s.pending /\ K \subseteq Cached(s)
    BY DEF Cleaned, Alike
  <1>3. \A d \in Chunks : a.parts[d] = IF d \in K THEN <<>> ELSE s.parts[d]
    BY DEF Cleaned
  <1>4. Cached(a) = Cached(s) \ K
    BY <1>2, <1>3 DEF Cached
  <1>5. ASSUME NEW c \in Chunks \ K PROVE Held(a, c) = Held(s, c) /\ Chain(a, c) = Chain(s, c)
    <2>1. a.parts[c] = s.parts[c]
      BY <1>3
    <2>2. Chain(a, c) = Chain(s, c)
      BY <2>1 DEF Chain
    <2>3. \A off \in Chain(s, c) : a.all_space[off] = s.all_space[off]
      <3>1. Chain(a, c) \subseteq Used(a)
        BY <1>1, ChainIs
      <3> QED BY <2>2, <3>1 DEF Cleaned
    <2> QED BY <1>1, <2>1, <2>2, <2>3, HeldSame
  <1>6. Copies(a)
    <2>1. ASSUME NEW c \in Cached(a)
          PROVE  Held(a, c) = Size[c] /\ \A i \in 1..Len(a.parts[c]) : a.parts[c][i] \notin a.pending
      <3>1. c \in Cached(s) /\ c \in Chunks \ K /\ a.parts[c] = s.parts[c]
        BY <1>3, <1>4 DEF Cached
      <3> QED BY <1>2, <1>5, <3>1 DEF Copies
    <2> QED BY <2>1 DEF Copies
  <1> QED BY <1>4, <1>5, <1>6

\* One more copy deleted.
LEMMA CleanedMore ==
    ASSUME NEW s, Sane(s), Copies(s), NEW K, NEW a, Cleaned(s, a, K), NEW c \in Cached(a)
    PROVE  Cleaned(s, Pffree(a, c), K \cup {c}) /\ c \notin K /\ c \in Chunks
  <1>1. s \in SwapType /\ Tiled(s) /\ Sane(a) /\ a \in SwapType /\ Tiled(a) /\ Chained(a) /\ Alike(s, a)
    BY DEF Cleaned, Sane
  <1>2. Copies(a) /\ Cached(a) = Cached(s) \ K
    BY CleanedCopies
  <1>3. c \in Chunks /\ c \notin K /\ c \in Cached(s) /\ K \in SUBSET Chunks
    BY <1>2 DEF Cached, Cleaned
  <1>4. PICK r : r = Pffree(a, c)
    OBVIOUS
  <1>5. PICK j \in 0..Len(a.parts[c]) : Given(a, r, c, j) /\ (j < Len(a.parts[c]) => a.parts[c][j + 1] \in a.pending)
    BY <1>1, <1>3, <1>4, PffreeIs DEF PffreeEnds
  <1>6. Len(a.parts[c]) \in Nat
    BY <1>1, <1>3, PartsAre
  <1>7. j = Len(a.parts[c])
    <2>1. ~(j < Len(a.parts[c]))
      <3>1. SUFFICES ASSUME j < Len(a.parts[c]) PROVE FALSE
        OBVIOUS
      <3>2. j + 1 \in 1..Len(a.parts[c])
        BY <1>6, <3>1
      <3> QED BY <1>2, <1>5, <3>1, <3>2 DEF Copies
    <2> QED BY <1>6, <2>1
  <1>8. Given(a, r, c, Len(a.parts[c]))
    BY <1>5, <1>7
  <1>9. r.parts[c] = <<>> /\ FreeBytes(r) >= FreeBytes(a) + Held(a, c) /\ Held(a, c) = Size[c]
    BY <1>1, <1>2, <1>3, <1>8, GivenAll DEF Copies
  <1>10. /\ Sane(r) /\ Alike(a, r) /\ \A d \in Chunks : d # c => r.parts[d] = a.parts[d]
         /\ \A off \in Used(r) : off \in Used(a) /\ r.all_space[off] = a.all_space[off]
         /\ Balanced(a, r) /\ AllBytes(r) >= AllBytes(a)
    BY <1>8 DEF Given
  <1>11. Alike(s, r)
    BY <1>1, <1>10 DEF Alike
  <1>12. \A d \in Chunks : r.parts[d] = IF d \in K \cup {c} THEN <<>> ELSE s.parts[d]
    BY <1>3, <1>9, <1>10 DEF Cleaned
  <1>13. \A off \in Used(r) : off \in Used(s) /\ r.all_space[off] = s.all_space[off]
    BY <1>10 DEF Cleaned
  <1>14. Balanced(s, r) /\ AllBytes(r) >= AllBytes(s)
    <2>1. r \in SwapType /\ Tiled(r)
      BY <1>10 DEF Sane
    <2>2. AllBytes(s) \in Int /\ AllBytes(a) \in Int /\ AllBytes(r) \in Int
      BY <1>1, <2>1, AllBytesIs
    <2>3. Balanced(s, a) /\ AllBytes(a) >= AllBytes(s)
      BY DEF Cleaned
    <2>4. Balanced(s, r)
      BY <1>1, <1>10, <2>2, <2>3, BalancedTwice
    <2> QED BY <1>10, <2>2, <2>3, <2>4
  <1>15. FreeBytes(r) >= FreeBytes(s) + SumOver(Size, K \cup {c})
    <2>1. /\ IsFiniteSet(K) /\ SumOver(Size, K) \in Nat /\ Size[c] \in Nat /\ \A d \in K : Size[d] \in Int
      BY <1>3, ChunkSizes
    <2>2. SumOver(Size, K \cup {c}) = SumOver(Size, K) + Size[c]
      BY <1>3, <2>1, SumAdd
    <2>3. FreeBytes(s) \in Nat /\ FreeBytes(a) \in Nat /\ FreeBytes(r) \in Nat
      BY <1>1, <1>10, FreeBytesIs DEF Sane
    <2>4. FreeBytes(a) >= FreeBytes(s) + SumOver(Size, K)
      BY DEF Cleaned
    <2> QED BY <1>9, <2>1, <2>2, <2>3, <2>4
  <1>16. K \cup {c} \subseteq Cached(s)
    BY <1>3 DEF Cleaned
  <1> QED BY <1>3, <1>4, <1>10, <1>11, <1>12, <1>13, <1>14, <1>15, <1>16 DEF Cleaned

\* Nothing deleted is nothing changed.
LEMMA CleanedNone ==
    ASSUME NEW s, Sane(s), Chunks # {}
    PROVE  Cleaned(s, s, {})
  <1>1. PICK c \in Chunks : TRUE
    OBVIOUS
  <1>2. Given(s, s, c, 0)
    BY GivenNone
  <1>3. Balanced(s, s) /\ AllBytes(s) >= AllBytes(s) /\ Alike(s, s)
    BY <1>2 DEF Given
  <1>4. SumOver(Size, {}) = 0 /\ FreeBytes(s) \in Nat
    BY SumEmpty, FreeBytesIs DEF Sane
  <1>5. FreeBytes(s) >= FreeBytes(s) + SumOver(Size, {})
    BY <1>4
  <1> QED BY <1>3, <1>5 DEF Cleaned

\* cleanupCachedElements deletes some page copies and adds up how much that is.
CleanupEnds(s, minimum, r) ==
    \E K : Cleaned(s, r.s, K) /\ r.enough = (SumOver(Size, K) > minimum)

\* It does so.
LEMMA CleanupIs ==
    ASSUME NEW s, Sane(s), Copies(s), Chunks # {}, NEW minimum
    PROVE  CleanupEnds(s, minimum, CleanupCachedElements(s, minimum))
  <1> DEFINE q == s.memChunks
             n == Len(q)
  <1>1. q \in Seq(Chunks) /\ n \in Nat /\ DOMAIN q = 1..n
    <2>1. q \in Seq(Chunks)
      BY DEF Sane, SwapType
    <2> QED BY <2>1
  <1>2. PICK h : /\ Course(h, "cleanup", minimum, [s |-> s, cleanedUp |-> 0], q, n)
                 /\ CleanupCachedElements(s, minimum) = [s |-> h[n].s, enough |-> h[n].cleanedUp > minimum]
    BY <1>1, CleanupWalk
  <1>3. h[0] = [s |-> s, cleanedUp |-> 0] /\ \A i \in 1..n : h[i] = CleanupStep(minimum, h[i - 1], q[i])
    BY <1>2 DEF Course, WalkStep
  <1> DEFINE G == {i \in Nat : i <= n => \E K : Cleaned(s, h[i].s, K) /\ h[i].cleanedUp = SumOver(Size, K)}
  <1>4. 0 \in G
    <2>1. Cleaned(s, h[0].s, {}) /\ h[0].cleanedUp = SumOver(Size, {})
      <3>1. h[0].s = s /\ h[0].cleanedUp = 0
        BY <1>3
      <3> QED BY <3>1, CleanedNone, SumEmpty
    <2> QED BY <2>1
  <1>5. ASSUME NEW i \in Nat, i \in G PROVE i + 1 \in G
    <2>1. SUFFICES ASSUME i + 1 <= n
                   PROVE  \E K : Cleaned(s, h[i + 1].s, K) /\ h[i + 1].cleanedUp = SumOver(Size, K)
      OBVIOUS
    <2>2. i <= n /\ i + 1 \in 1..n /\ (i + 1) - 1 = i
      BY <1>1, <2>1
    <2>3. PICK K : Cleaned(s, h[i].s, K) /\ h[i].cleanedUp = SumOver(Size, K)
      BY <1>5, <2>2
    <2>4. PICK a : a = h[i]
      OBVIOUS
    <2>5. h[i + 1] = CleanupStep(minimum, a, q[i + 1])
      BY <1>3, <2>2, <2>4
    <2>6. PICK c : c = q[i + 1]
      OBVIOUS
    <2> HIDE DEF G, n, q
    <2>7. CASE c \in Cached(a.s) /\ (minimum = 0 \/ a.cleanedUp < minimum)
      <3>1. Cleaned(s, Pffree(a.s, c), K \cup {c}) /\ c \notin K /\ c \in Chunks
        BY <2>3, <2>4, <2>7, CleanedMore
      <3>2. h[i + 1].s = Pffree(a.s, c) /\ h[i + 1].cleanedUp = a.cleanedUp + Size[c]
        BY <2>5, <2>6, <2>7 DEF CleanupStep
      <3>3. SumOver(Size, K \cup {c}) = SumOver(Size, K) + Size[c]
        <4>1. K \in SUBSET Chunks
          BY <2>3 DEF Cleaned, Cached
        <4>2. IsFiniteSet(K) /\ Size[c] \in Int /\ \A d \in K : Size[d] \in Int
          BY <3>1, <4>1, ChunkSizes
        <4> QED BY <3>1, <4>2, SumAdd
      <3> QED BY <2>3, <2>4, <3>1, <3>2, <3>3
    <2>8. CASE ~(c \in Cached(a.s) /\ (minimum = 0 \/ a.cleanedUp < minimum))
      <3>1. h[i + 1] = a
        BY <2>5, <2>6, <2>8 DEF CleanupStep
      <3> QED BY <2>3, <2>4, <3>1
    <2> QED BY <2>7, <2>8
  <1>6. PICK K : Cleaned(s, h[n].s, K) /\ h[n].cleanedUp = SumOver(Size, K)
    <2>1. n \in G
      <3> HIDE DEF G
      <3> QED BY <1>1, <1>4, <1>5, NumberInduction
    <2>2. n <= n
      BY <1>1
    <2> QED BY <2>1, <2>2
  <1> HIDE DEF n, q
  <1> QED BY <1>2, <1>6 DEF CleanupEnds

-----------------------------------------------------------------------------
(* pfmalloc *)

\* In r, c has the locations of p, which were free in t, and nothing else has happened.
Taken(t, r, p, c) ==
    /\ r \in SwapType /\ Tiled(r) /\ Beside(t, r) /\ Balanced(t, r) /\ p \in Seq(Nat)
    /\ \A i, j \in 1..Len(p) : p[i] = p[j] => i = j
    /\ \A i \in 1..Len(p) : p[i] \in t.free_space
    /\ Used(r) = Used(t) \cup {p[i] : i \in 1..Len(p)}
    /\ \A off \in Used(t) : r.all_space[off] = t.all_space[off]
    /\ \A i \in 1..Len(p) : r.all_space[p[i]].status = IF i = Len(p) THEN "END" ELSE "PART"
    /\ SumOver(Sizes(r), {p[i] : i \in 1..Len(p)}) = Size[c]

\* The first m places of q.
Upto(q, m) == [k \in 1..m |-> q[k]]

\* What Distribute has done when m of the free locations q are used.
Placing(s, c, q, n, a, m) ==
    /\ a.s \in SwapType /\ Tiled(a.s) /\ Beside(s, a.s) /\ Balanced(s, a.s)
    /\ a.left \in Nat /\ a.parts = Upto(q, m)
    /\ Used(a.s) = Used(s) \cup {q[k] : k \in 1..m}
    /\ \A off \in Used(s) : a.s.all_space[off] = s.all_space[off]
    /\ \A k \in 1..m : a.s.all_space[q[k]].status = IF k = m /\ a.left = 0 THEN "END" ELSE "PART"
    /\ SumOver(Sizes(a.s), {q[k] : k \in 1..m}) + a.left = Size[c]
    /\ \A k \in (m + 1)..n : q[k] \in a.s.free_space /\ a.s.all_space[q[k]] = s.all_space[q[k]]
    /\ a.left > 0 => \A k \in 1..m : a.s.all_space[q[k]].size = s.all_space[q[k]].size

\* One more location.
LEMMA PlacingMore ==
    ASSUME NEW s \in SwapType, Tiled(s), NEW c \in Chunks, NEW n \in Nat, NEW q,
           \A i \in 1..n : q[i] \in s.free_space,
           \A i, j \in 1..n : q[i] = q[j] => i = j,
           NEW m \in Nat, m < n, NEW a, Placing(s, c, q, n, a, m), a.left > 0,
           NEW b, b = DistributeStep(s, a, q[m + 1])
    PROVE  Placing(s, c, q, n, b, m + 1)
  <1> DEFINE T(i) == {q[k] : k \in 1..i}
  <1>1. PICK off : off = q[m + 1]
    OBVIOUS
  <1>2. m + 1 \in 1..n /\ m + 1 \in (m + 1)..n
    OBVIOUS
  <1>3. PICK t \in SwapType : t = a.s /\ Tiled(t) /\ Beside(s, t) /\ Balanced(s, t)
    BY DEF Placing
  <1>4. off \in t.free_space /\ t.all_space[off] = s.all_space[off] /\ off \in s.free_space
    BY <1>1, <1>2, <1>3 DEF Placing
  <1>5. PICK size \in Nat \ {0} : /\ size = LocationSize(t, off) /\ size % s.layout.alignment = 0
                                 /\ size = s.all_space[off].size
    <2>1. t.layout = s.layout
      BY <1>3 DEF Beside
    <2> QED BY <1>3, <1>4, <2>1, FreeAligned DEF LocationSize
  <1>6. PICK left \in Nat \ {0} : left = a.left
    BY DEF Placing
  <1>7. PICK here \in 1..size : /\ here = (IF left > size THEN size ELSE left)
                                /\ b = [s |-> AllocInFree(t, off, here, IF left = here THEN "END" ELSE "PART"),
                                        parts |-> Append(a.parts, off), left |-> left - here]
    <2>1. PICK avail \in Nat : avail = Least(size, left) /\ avail = (IF left > size THEN size ELSE left)
      <3>1. Least(size, left) = (IF left > size THEN size ELSE left) /\ Least(size, left) \in Nat
        BY DEF Least
      <3> QED BY <3>1
    <2>2. PICK h \in Nat : /\ h = (IF left > avail THEN avail - (avail % s.layout.alignment) ELSE avail)
                           /\ h = (IF left > size THEN size ELSE left)
      <3>1. left > avail <=> left > size
        BY <2>1
      <3>2. CASE left > size
        <4>1. avail = size /\ avail % s.layout.alignment = 0 /\ size - 0 = size
          BY <1>5, <2>1, <3>2
        <4> QED BY <3>1, <3>2, <4>1
      <3>3. CASE ~(left > size)
        BY <2>1, <3>1, <3>3
      <3> QED BY <3>2, <3>3
    <2>3. h \in 1..size
      BY <2>2
    <2>4. b = [s |-> AllocInFree(t, off, h, IF left = h THEN "END" ELSE "PART"),
               parts |-> Append(a.parts, off), left |-> left - h]
      BY <1>1, <1>3, <1>5, <1>6, <2>1, <2>2 DEF DistributeStep
    <2> QED BY <2>2, <2>3, <2>4
  <1>8. PICK status \in {"PART", "END"} : status = IF left = here THEN "END" ELSE "PART"
    OBVIOUS
  <1>9. PICK r : r = AllocInFree(t, off, here, status)
    OBVIOUS
  <1>10. b.s = r /\ b.parts = Append(a.parts, off) /\ b.left = left - here
    BY <1>7, <1>8, <1>9
  <1>11. r \in SwapType /\ Beside(t, r) /\ Tiled(r) /\ Alloced(t, r, off, here, status) /\ Balanced(t, r)
    BY <1>3, <1>4, <1>5, <1>7, <1>8, <1>9, AllocTiled, AllocBalanced
  <1>12. Beside(s, r)
    BY <1>3, <1>11 DEF Beside
  <1>13. Balanced(s, r)
    <2>1. AllBytes(s) \in Int /\ AllBytes(t) \in Int /\ AllBytes(r) \in Int
      BY <1>3, <1>11, AllBytesIs
    <2> QED BY <1>3, <1>11, <2>1, BalancedTwice
  <1>14. /\ off \in DOMAIN r.all_space /\ r.all_space[off] = [size |-> here, status |-> status]
         /\ Used(r) = Used(t) \cup {off}
         /\ \A o \in DOMAIN t.all_space \ {off} : o \in DOMAIN r.all_space /\ r.all_space[o] = t.all_space[o]
         /\ t.free_space \ {off} \subseteq r.free_space
    BY <1>11 DEF Alloced
  <1>15. b.left \in Nat /\ b.left = left - here /\ (b.left = 0 <=> left = here) /\ (b.left > 0 => here = size)
    <2>1. here \in Nat
      BY <1>7
    <2>2. here <= left
      BY <1>7
    <2> QED BY <1>7, <1>10, <2>1, <2>2
  <1>16. b.parts = Upto(q, m + 1)
    <2>1. a.parts = Upto(q, m)
      BY DEF Placing
    <2>2. PICK u : u = Upto(q, m)
      OBVIOUS
    <2>3. u \in Seq({q[k] : k \in 1..n}) /\ Len(u) = m /\ \A k \in 1..m : u[k] = q[k]
      <3>1. \A k \in 1..m : k \in 1..n
        OBVIOUS
      <3>2. u = [k \in 1..m |-> q[k]]
        BY <2>2 DEF Upto
      <3> QED BY <3>1, <3>2
    <2>4. Append(u, off) = [k \in 1..(m + 1) |-> q[k]]
      BY <1>1, <2>3
    <2> QED BY <1>10, <2>1, <2>2, <2>4 DEF Upto
  <1>17. T(m + 1) = T(m) \cup {off} /\ off \notin T(m)
    <2>1. \A k : k \in 1..(m + 1) <=> k \in 1..m \/ k = m + 1
      OBVIOUS
    <2>2. \A k \in 1..m : k \in 1..n /\ k # m + 1
      OBVIOUS
    <2> QED BY <1>1, <1>2, <2>1, <2>2
  <1>18. Used(t) = Used(s) \cup T(m)
    BY <1>3 DEF Placing
  <1>19. Used(r) = Used(s) \cup T(m + 1)
    BY <1>14, <1>17, <1>18
  <1>20. off \notin Used(t) /\ Used(t) \subseteq DOMAIN t.all_space \ {off}
    BY <1>4 DEF Used
  <1>21. \A o \in Used(t) : r.all_space[o] = t.all_space[o]
    BY <1>14, <1>20
  <1>22. \A o \in Used(s) : r.all_space[o] = s.all_space[o]
    BY <1>3, <1>18, <1>21 DEF Placing
  <1>23. ASSUME NEW k \in 1..(m + 1)
         PROVE  r.all_space[q[k]].status = IF k = m + 1 /\ b.left = 0 THEN "END" ELSE "PART"
    <2>1. CASE k = m + 1
      BY <1>1, <1>8, <1>14, <1>15, <2>1
    <2>2. CASE k \in 1..m
      <3>1. t.all_space[q[k]].status = IF k = m /\ left = 0 THEN "END" ELSE "PART"
        BY <1>3, <1>6, <2>2 DEF Placing
      <3>2. r.all_space[q[k]] = t.all_space[q[k]]
        BY <1>18, <1>21, <2>2
      <3>3. k # m + 1 /\ left # 0
        BY <2>2
      <3> QED BY <3>1, <3>2, <3>3
    <2>3. k = m + 1 \/ k \in 1..m
      OBVIOUS
    <2> QED BY <2>1, <2>2, <2>3
  <1>24. SumOver(Sizes(r), T(m + 1)) + b.left = Size[c]
    <2>1. SumOver(Sizes(t), T(m)) + left = Size[c]
      BY <1>3, <1>6 DEF Placing
    <2>2. SumOver(Sizes(r), T(m)) = SumOver(Sizes(t), T(m))
      <3>1. T(m) \subseteq Used(t) /\ T(m) \subseteq Used(r)
        BY <1>14, <1>18
      <3> HIDE DEF T
      <3> QED BY <1>3, <1>11, <1>21, <3>1, SizesSame
    <2>3. /\ IsFiniteSet(T(m)) /\ \A o \in T(m) : Sizes(r)[o] \in Int
          /\ Sizes(r)[off] \in Int /\ Sizes(r)[off] = here /\ SumOver(Sizes(r), T(m)) \in Int
      <3>1. T(m) \in SUBSET (DOMAIN r.all_space)
        BY <1>14, <1>18 DEF Used
      <3>2. Span(r)
        BY <1>11 DEF Tiled, Files
      <3>3. Sizes(r)[off] = here
        BY <1>14 DEF Sizes, LocationSize
      <3> HIDE DEF T
      <3> QED BY <1>11, <1>14, <3>1, <3>2, <3>3, SizesAre
    <2> HIDE DEF T
    <2>4. SumOver(Sizes(r), T(m) \cup {off}) = SumOver(Sizes(r), T(m)) + Sizes(r)[off]
      BY <1>17, <2>3, SumAdd
    <2>5. PICK x \in Int : x = SumOver(Sizes(r), T(m))
      BY <2>3
    <2>6. x + left = Size[c]
      BY <2>1, <2>2, <2>5
    <2>7. SumOver(Sizes(r), T(m + 1)) = x + here
      BY <1>17, <2>3, <2>4, <2>5
    <2>8. here \in Int /\ left \in Int /\ b.left = left - here
      BY <1>7, <1>15
    <2>9. (x + here) + (left - here) = x + left
      BY <2>5, <2>8
    <2> QED BY <2>6, <2>7, <2>8, <2>9
  <1>25. ASSUME NEW k \in (m + 2)..n
         PROVE  q[k] \in r.free_space /\ r.all_space[q[k]] = s.all_space[q[k]]
    <2>1. k \in (m + 1)..n /\ k \in 1..n /\ k # m + 1
      OBVIOUS
    <2>2. q[k] \in t.free_space /\ t.all_space[q[k]] = s.all_space[q[k]]
      BY <1>3, <2>1 DEF Placing
    <2>3. q[k] # off
      BY <1>1, <1>2, <2>1
    <2>4. q[k] \in DOMAIN t.all_space
      BY <1>3, <2>2 DEF Tiled, Files
    <2> QED BY <1>14, <2>2, <2>3, <2>4
  <1>26. ASSUME b.left > 0, NEW k \in 1..(m + 1) PROVE r.all_space[q[k]].size = s.all_space[q[k]].size
    <2>1. CASE k = m + 1
      BY <1>1, <1>5, <1>14, <1>15, <1>26, <2>1
    <2>2. CASE k \in 1..m
      <3>1. t.all_space[q[k]].size = s.all_space[q[k]].size
        BY <1>3, <2>2 DEF Placing
      <3>2. r.all_space[q[k]] = t.all_space[q[k]]
        BY <1>18, <1>21, <2>2
      <3> QED BY <3>1, <3>2
    <2>3. k = m + 1 \/ k \in 1..m
      OBVIOUS
    <2> QED BY <2>1, <2>2, <2>3
  <1>27. \A k \in ((m + 1) + 1)..n : q[k] \in r.free_space /\ r.all_space[q[k]] = s.all_space[q[k]]
    <2>1. (m + 1) + 1 = m + 2
      OBVIOUS
    <2> QED BY <1>25, <2>1
  <1> QED BY <1>10, <1>11, <1>12, <1>13, <1>15, <1>16, <1>19, <1>22, <1>23, <1>24, <1>26, <1>27 DEF Placing

\* c is distributed over the free locations, if they are large enough together.
LEMMA DistributeIs ==
    ASSUME NEW s \in SwapType, Tiled(s), NEW c \in Chunks, FreeBytes(s) >= Size[c],
           NEW d, d = Distribute(s, c)
    PROVE  d.left = 0 /\ Taken(s, d.s, d.parts, c)
  <1>1. PICK n \in Nat :
              /\ DOMAIN FreeList(s) = 1..n
              /\ \A i \in 1..n : FreeList(s)[i] \in s.free_space
              /\ \A i, j \in 1..n : FreeList(s)[i] = FreeList(s)[j] => i = j
              /\ \A off \in s.free_space : \E i \in 1..n : FreeList(s)[i] = off
    BY FreeListIs
  <1>2. PICK q : q = FreeList(s)
    OBVIOUS
  <1>3. /\ \A i \in 1..n : q[i] \in s.free_space
        /\ \A i, j \in 1..n : q[i] = q[j] => i = j
        /\ \A off \in s.free_space : \E i \in 1..n : q[i] = off
    BY <1>1, <1>2
  <1>4. PICK base : base = [s |-> s, parts |-> <<>>, left |-> Size[c]]
    OBVIOUS
  <1>5. PICK h : Course(h, "distribute", s, base, q, n) /\ h[n] = d
    BY <1>1, <1>2, <1>4, DistributeWalk DEF Arrives
  <1>6. h[0] = base /\ \A i \in 1..n : h[i] = DistributeStep(s, h[i - 1], q[i])
    BY <1>5 DEF Course, WalkStep
  <1>7. Size[c] \in Nat \ {0}
    BY ChunkSizes
  <1> DEFINE G == {i \in Nat : i <= n => \E m \in 0..i : Placing(s, c, q, n, h[i], m) /\ (h[i].left > 0 => m = i)}
  <1>8. 0 \in G
    <2>1. base.s = s /\ base.parts = <<>> /\ base.left = Size[c]
      BY <1>4
    <2>2. {q[k] : k \in 1..0} = {} /\ Upto(q, 0) = <<>>
      BY DEF Upto
    <2>3. Beside(s, s) /\ Balanced(s, s)
      <3>1. AllBytes(s) \in Int
        BY AllBytesIs
      <3>2. s.swapFree \in Int /\ Wrap(s.swapFree) = s.swapFree
        BY SwapFreeIs
      <3>3. s.swapFree + (AllBytes(s) - AllBytes(s)) = s.swapFree
        BY <3>1, <3>2
      <3> QED BY <3>2, <3>3 DEF Beside, Balanced
    <2>4. SumOver(Sizes(s), {q[k] : k \in 1..0}) + Size[c] = Size[c]
      <3>1. SumOver(Sizes(s), {q[k] : k \in 1..0}) = 0
        <4>1. SumOver(Sizes(s), {}) = 0
          BY SumEmpty
        <4> QED BY <2>2, <4>1
      <3>2. Size[c] \in Int
        BY <1>7
      <3> QED BY <3>1, <3>2
    <2>5. \A k \in (0 + 1)..n : q[k] \in s.free_space
      <3>1. 0 + 1 = 1
        OBVIOUS
      <3> QED BY <1>3, <3>1
    <2>6. Used(s) = Used(s) \cup {q[k] : k \in 1..0}
      BY <2>2
    <2>7. Placing(s, c, q, n, base, 0)
      BY <1>7, <2>1, <2>2, <2>3, <2>4, <2>5, <2>6 DEF Placing
    <2>8. 0 \in 0..0
      OBVIOUS
    <2> QED BY <1>6, <2>7, <2>8
  <1>9. ASSUME NEW i \in Nat, i \in G PROVE i + 1 \in G
    <2>1. SUFFICES ASSUME i + 1 <= n
                   PROVE  \E m \in 0..(i + 1) : Placing(s, c, q, n, h[i + 1], m) /\ (h[i + 1].left > 0 => m = i + 1)
      OBVIOUS
    <2>2. i <= n /\ i + 1 \in 1..n /\ (i + 1) - 1 = i
      BY <2>1
    <2>3. PICK m \in 0..i : Placing(s, c, q, n, h[i], m) /\ (h[i].left > 0 => m = i)
      BY <1>9, <2>2
    <2>4. h[i + 1] = DistributeStep(s, h[i], q[i + 1])
      BY <1>6, <2>2
    <2>5. h[i].left \in Nat
      BY <2>3 DEF Placing
    <2>6. CASE h[i].left = 0
      <3>1. h[i + 1] = h[i]
        BY <2>4, <2>6 DEF DistributeStep
      <3>2. m \in 0..(i + 1) /\ ~(h[i].left > 0)
        BY <2>3, <2>6
      <3> QED BY <2>3, <3>1, <3>2
    <2>7. CASE h[i].left > 0
      <3>1. m = i /\ m \in Nat /\ m < n /\ i + 1 = m + 1
        BY <2>1, <2>3, <2>7
      <3>2. Placing(s, c, q, n, h[i], m)
        BY <2>3
      <3>3. h[i + 1] = DistributeStep(s, h[i], q[m + 1])
        BY <2>4, <3>1
      <3>4. Placing(s, c, q, n, h[i + 1], m + 1)
        BY <1>3, <2>7, <3>1, <3>2, <3>3, PlacingMore
      <3>5. m + 1 \in 0..(i + 1)
        BY <3>1
      <3> QED BY <3>1, <3>4, <3>5
    <2> QED BY <2>5, <2>6, <2>7
  <1>10. PICK m \in 0..n : Placing(s, c, q, n, d, m) /\ (d.left > 0 => m = n)
    <2>1. n \in G
      <3> HIDE DEF G
      <3> QED BY <1>8, <1>9, NumberInduction
    <2>2. n <= n
      OBVIOUS
    <2> QED BY <1>5, <2>1, <2>2
  <1> DEFINE T == {q[k] : k \in 1..m}
  <1>11. /\ d.s \in SwapType /\ Tiled(d.s) /\ Beside(s, d.s) /\ Balanced(s, d.s)
         /\ d.left \in Nat /\ d.parts = Upto(q, m) /\ Used(d.s) = Used(s) \cup T
         /\ \A off \in Used(s) : d.s.all_space[off] = s.all_space[off]
         /\ \A k \in 1..m : d.s.all_space[q[k]].status = IF k = m /\ d.left = 0 THEN "END" ELSE "PART"
         /\ SumOver(Sizes(d.s), T) + d.left = Size[c]
         /\ d.left > 0 => \A k \in 1..m : d.s.all_space[q[k]].size = s.all_space[q[k]].size
    BY <1>10 DEF Placing
  <1>12. d.left = 0
    <2>1. SUFFICES ASSUME d.left > 0 PROVE FALSE
      BY <1>11
    <2>2. m = n
      BY <1>10, <2>1
    <2>3. T = s.free_space
      BY <1>3, <2>2
    <2>4. T \in SUBSET (DOMAIN s.all_space) /\ T \in SUBSET (DOMAIN d.s.all_space)
      BY <1>11, <2>3 DEF Tiled, Files, Used
    <2>5. IsFiniteSet(T) /\ \A off \in T : Sizes(d.s)[off] = Sizes(s)[off]
      <3>1. IsFiniteSet(T)
        BY <2>4, SizesAre DEF Tiled, Files
      <3>2. \A off \in T : d.s.all_space[off].size = s.all_space[off].size
        BY <1>11, <2>1
      <3> QED BY <2>4, <3>1, <3>2 DEF Sizes, LocationSize
    <2>6. SumOver(Sizes(d.s), T) = SumOver(Sizes(s), T)
      <3> HIDE DEF T
      <3> QED BY <2>5, SumSame
    <2>7. FreeBytes(s) + d.left = Size[c] /\ FreeBytes(s) \in Nat
      BY <1>11, <2>3, <2>6, FreeBytesIs
    <2> QED BY <1>7, <1>11, <2>1, <2>7
  <1>13. d.parts \in Seq(Nat) /\ Len(d.parts) = m /\ \A k \in 1..m : d.parts[k] = q[k]
    <2>1. s.free_space \subseteq Nat
      BY DEF SwapType
    <2>2. \A k \in 1..m : k \in 1..n /\ q[k] \in Nat
      BY <1>3, <2>1
    <2>3. Upto(q, m) \in Seq(Nat) /\ Len(Upto(q, m)) = m /\ \A k \in 1..m : Upto(q, m)[k] = q[k]
      <3>1. Upto(q, m) = [k \in 1..m |-> q[k]] /\ m \in Nat
        BY DEF Upto
      <3> QED BY <2>2, <3>1
    <2> QED BY <1>11, <2>3
  <1>14. {d.parts[k] : k \in 1..Len(d.parts)} = T
    BY <1>13
  <1>15. SumOver(Sizes(d.s), T) = Size[c]
    <2>1. T \in SUBSET (DOMAIN d.s.all_space)
      BY <1>11 DEF Used
    <2>2. SumOver(Sizes(d.s), T) \in Nat
      <3> HIDE DEF T
      <3> QED BY <1>11, <2>1, SizesAre DEF Tiled, Files
    <2> QED BY <1>7, <1>11, <1>12, <2>2
  <1>16. \A i \in 1..m : i \in 1..n
    BY <1>10
  <1>17. \A i \in 1..m : d.s.all_space[d.parts[i]].status = IF i = m THEN "END" ELSE "PART"
    BY <1>11, <1>12, <1>13
  <1>18. \A i \in 1..m : d.parts[i] \in s.free_space
    BY <1>3, <1>13, <1>16
  <1>19. \A i, j \in 1..m : d.parts[i] = d.parts[j] => i = j
    BY <1>3, <1>13, <1>16
  <1> HIDE DEF T
  <1> QED BY <1>11, <1>12, <1>13, <1>14, <1>15, <1>17, <1>18, <1>19 DEF Taken

\* One free location is large enough.
LEMMA SingleIs ==
    ASSUME NEW s \in SwapType, Tiled(s), NEW c \in Chunks, NEW off \in s.free_space,
           LocationSize(s, off) >= Size[c], NEW r, r = AllocInFree(s, off, Size[c], "END")
    PROVE  Taken(s, r, <<off>>, c)
  <1>1. off \in Nat /\ LocationSize(s, off) \in Nat
    BY FreeAligned
  <1>2. PICK n \in 1..LocationSize(s, off) : n = Size[c]
    BY <1>1, ChunkSizes
  <1>3. r \in SwapType /\ Beside(s, r) /\ Tiled(r) /\ Alloced(s, r, off, n, "END") /\ Balanced(s, r)
    BY <1>2, AllocTiled, AllocBalanced
  <1>4. PICK p \in Seq(Nat) : p = <<off>> /\ Len(p) = 1 /\ p[1] = off
    <2>1. off \in Nat
      BY <1>1
    <2>2. <<off>> \in Seq(Nat) /\ Len(<<off>>) = 1 /\ <<off>>[1] = off
      BY <2>1
    <2> QED BY <2>2
  <1>5. {p[i] : i \in 1..Len(p)} = {off}
    BY <1>4
  <1>6. /\ off \in DOMAIN r.all_space /\ r.all_space[off] = [size |-> n, status |-> "END"]
        /\ Used(r) = Used(s) \cup {off}
        /\ \A o \in DOMAIN s.all_space \ {off} : r.all_space[o] = s.all_space[o]
    BY <1>3 DEF Alloced
  <1>7. \A o \in Used(s) : r.all_space[o] = s.all_space[o]
    BY <1>6 DEF Used
  <1>8. SumOver(Sizes(r), {off}) = Size[c]
    <2>1. Sizes(r)[off] = n
      BY <1>6 DEF Sizes, LocationSize
    <2>2. IsFiniteSet({off}) /\ \A x \in {off} : x # off => Sizes(r)[x] = 0
      BY FS_Singleton
    <2>3. SumOver(Sizes(r), {off}) = Sizes(r)[off]
      <3>1. Sizes(r)[off] \in Int /\ off \in {off}
        BY <1>2, <2>1
      <3> QED BY <2>2, <3>1, SumOnly
    <2> QED BY <1>2, <2>1, <2>3
  <1>9. \A i \in 1..Len(p) : i = 1 /\ p[i] = off
    BY <1>4
  <1>10. \A i \in 1..Len(p) : r.all_space[p[i]].status = IF i = Len(p) THEN "END" ELSE "PART"
    BY <1>4, <1>6, <1>9
  <1>11. Taken(s, r, p, c)
    BY <1>3, <1>5, <1>6, <1>7, <1>8, <1>9, <1>10 DEF Taken
  <1> QED BY <1>4, <1>11

\* What pfmalloc may end with: an exception or no location at all, perhaps with page copies
\* deleted, or locations for c.
PfmallocEnds(s, x, c) ==
    \E K, t :
       /\ Cleaned(s, t, K)
       /\ \/ x.parts = <<>> /\ (x.s = t \/ x.s = [t EXCEPT !.thrown = c])
          \/ Taken(t, x.s, x.parts, c)

\* It ends so: it never goes past the end of the free locations.
LEMMA PfmallocIs ==
    ASSUME NEW s, Sane(s), Copies(s), NEW c \in Chunks
    PROVE  PfmallocEnds(s, Pfmalloc(s, c), c)
  <1> DEFINE fits    == {off \in s.free_space : LocationSize(s, off) >= Size[c]}
             total   == FreeBytes(s)
             cleaned == IF total < Size[c] THEN CleanupCachedElements(s, Size[c] - total)
                        ELSE [s |-> s, enough |-> TRUE]
             d       == Distribute(cleaned.s, c)
  <1>1. s \in SwapType /\ Tiled(s) /\ Chunks # {}
    BY DEF Sane
  <1>2. Cleaned(s, s, {})
    BY <1>1, CleanedNone
  <1>3. Size[c] \in Nat \ {0} /\ total \in Nat
    BY <1>1, ChunkSizes, FreeBytesIs
  <1>4. PICK x : x = Pfmalloc(s, c)
    OBVIOUS
  <1>5. CASE s.free_space = {}
    <2>1. x = [s |-> s, parts |-> <<>>]
      BY <1>4, <1>5 DEF Pfmalloc
    <2>2. x.parts = <<>> /\ x.s = s
      BY <2>1
    <2> QED BY <1>2, <1>4, <2>2 DEF PfmallocEnds
  <1>6. CASE s.free_space # {} /\ fits # {}
    <2>1. x = [s |-> AllocInFree(s, Min(fits), Size[c], "END"), parts |-> <<Min(fits)>>]
      BY <1>4, <1>6 DEF Pfmalloc
    <2>2. Min(fits) \in fits
      <3>1. s.free_space \subseteq Nat
        BY <1>1 DEF SwapType
      <3>2. fits \in SUBSET Int /\ \A y \in fits : y >= 0
        BY <3>1
      <3> HIDE DEF fits
      <3> QED BY <1>6, <3>2, MinIs
    <2>3. Min(fits) \in s.free_space /\ LocationSize(s, Min(fits)) >= Size[c]
      BY <2>2
    <2> HIDE DEF fits
    <2>4. Taken(s, x.s, x.parts, c)
      BY <1>1, <2>1, <2>3, SingleIs
    <2> QED BY <1>2, <1>4, <2>4 DEF PfmallocEnds
  <1>7. CASE s.free_space # {} /\ fits = {}
    <2>1. x = IF ~cleaned.enough THEN [s |-> [cleaned.s EXCEPT !.thrown = c], parts |-> <<>>]
              ELSE [s |-> IF d.left = 0 THEN d.s ELSE [d.s EXCEPT !.thrown = "past the end"],
                    parts |-> d.parts]
      BY <1>4, <1>7 DEF Pfmalloc
    <2> HIDE DEF fits, d
    <2>2. \E K : /\ Cleaned(s, cleaned.s, K)
                 /\ cleaned.enough => FreeBytes(cleaned.s) >= Size[c]
      <3>1. CASE total < Size[c]
        <4>1. CleanupEnds(s, Size[c] - total, cleaned)
          BY <1>1, <3>1, CleanupIs
        <4>2. PICK K : Cleaned(s, cleaned.s, K) /\ cleaned.enough = (SumOver(Size, K) > Size[c] - total)
          <5> HIDE DEF cleaned
          <5> QED BY <4>1 DEF CleanupEnds
        <4>3. cleaned.enough => FreeBytes(cleaned.s) >= Size[c]
          <5> HIDE DEF cleaned
          <5>1. FreeBytes(cleaned.s) >= total + SumOver(Size, K) /\ K \in SUBSET Chunks
            BY <4>2 DEF Cleaned, Cached
          <5>2. SumOver(Size, K) \in Nat
            BY <5>1, ChunkSizes
          <5>3. FreeBytes(cleaned.s) \in Nat
            BY <4>2, FreeBytesIs DEF Cleaned, Sane
          <5> HIDE DEF total
          <5>4. PICK z \in Int : z = Size[c]
            BY <1>3
          <5>5. PICK y \in Int : y = total
            BY <1>3
          <5>6. PICK k \in Int : k = SumOver(Size, K)
            BY <5>2
          <5>7. PICK f \in Int : f = FreeBytes(cleaned.s)
            BY <5>3
          <5>8. f >= y + k
            BY <5>1, <5>5, <5>6, <5>7
          <5>9. k > z - y => f >= z
            BY <5>4, <5>5, <5>6, <5>7, <5>8
          <5> QED BY <4>2, <5>4, <5>5, <5>6, <5>7, <5>9
        <4> QED BY <4>2, <4>3
      <3>2. CASE ~(total < Size[c])
        <4>1. cleaned.s = s /\ cleaned.enough /\ FreeBytes(s) >= Size[c]
          <5>1. total >= Size[c]
            BY <1>3, <3>2
          <5> QED BY <3>2, <5>1
        <4> QED BY <1>2, <4>1
      <3> QED BY <3>1, <3>2
    <2>3. PICK t : t = cleaned.s
      OBVIOUS
    <2>4. PICK e : e = cleaned.enough
      OBVIOUS
    <2>5. PICK K : Cleaned(s, t, K) /\ (e => FreeBytes(t) >= Size[c])
      <3> HIDE DEF cleaned
      <3> QED BY <2>2, <2>3, <2>4
    <2>6. CASE ~e
      <3>1. x.parts = <<>> /\ x.s = [t EXCEPT !.thrown = c]
        <4> HIDE DEF cleaned
        <4> QED BY <2>1, <2>3, <2>4, <2>6
      <3> QED BY <1>4, <2>5, <3>1 DEF PfmallocEnds
    <2>7. CASE e
      <3>1. t \in SwapType /\ Tiled(t)
        BY <2>5 DEF Cleaned, Sane
      <3>2. d = Distribute(t, c)
        BY <2>3 DEF d
      <3>3. d.left = 0 /\ Taken(t, d.s, d.parts, c)
        BY <2>5, <2>7, <3>1, <3>2, DistributeIs
      <3>4. x.s = d.s /\ x.parts = d.parts
        <4> HIDE DEF cleaned
        <4> QED BY <2>1, <2>4, <2>7, <3>3
      <3> QED BY <1>4, <2>5, <3>3, <3>4 DEF PfmallocEnds
    <2> QED BY <2>6, <2>7
  <1> QED BY <1>5, <1>6, <1>7
=============================================================================
