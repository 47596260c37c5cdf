------------------------- MODULE PageFile_safety_proofs -------------------------
(***************************************************************************)
(* The invariants of PageFile, for every number and size of chunks, page   *)
(* files, layouts and widths of a global_bytesize.                         *)
(*                                                                         *)
(* The inductive invariant, Good, says of a state that the locations tile  *)
(* the swap (Sane), that a chunk has all of its locations to itself, in    *)
(* the order of its chain and large enough together (Sane, Ended, Whole),  *)
(* that a transfer is what the status says (Tracked), that swapFree is all *)
(* there is less what is claimed (Accounted), and what is left of a chunk  *)
(* whose deletion waits (Waiting).  Each operation of the model has a      *)
(* lemma that it preserves Good; the theorems on the properties follow,    *)
(* and at the end the one that PageFile implements SwapSpace.              *)
(***************************************************************************)
EXTENDS PageFile_proofs

Moving   == {"SWAPOUT", "SWAPIN"}
Claiming == {"SWAPOUT", "SWAPPED", "SWAPIN"}

\* The last location of a chain is marked as the end of it.
Ended(s) ==
    \A c \in Chunks : \A i \in 1..Len(s.parts[c]) :
        s.all_space[s.parts[c][i]].status = IF i = Len(s.parts[c]) THEN "END" ELSE "PART"

\* The locations of c that are being transferred.
OnTheWay(s, c) == Chain(s, c) \cap s.pending

Tracked(s) ==
    \A c \in Chunks : /\ s.tracker[c] = Cardinality(OnTheWay(s, c))
                      /\ s.status[c] \in Moving <=> OnTheWay(s, c) # {}

Listed(s) ==
    /\ \A i, j \in 1..Len(s.memChunks) : s.memChunks[i] = s.memChunks[j] => i = j
    /\ \A c \in Chunks : s.status[c] # "NONE" <=> \E i \in 1..Len(s.memChunks) : s.memChunks[i] = c
    /\ \A c \in Chunks : s.status[c] = "NONE" => s.parts[c] = <<>>

\* What chunks have claimed of the swap.
Claim(s)   == [c \in Chunks |-> IF s.status[c] \in Claiming THEN Size[c] ELSE 0]
Claimed(s) == SumOver(Claim(s), Chunks)

Accounted(s) == s.swapFree = Wrap(AllBytes(s) - Claimed(s))

Whole(s, del) ==
    \A c \in Chunks \ del : s.status[c] \in Claiming \/ s.parts[c] # <<>> => Held(s, c) = Size[c]

Waiting(s, del) == \A c \in del : s.status[c] \in {"SWAPOUT", "SWAPPED"} /\ s.parts[c] # <<>>

Good(s, del) ==
    /\ Sane(s) /\ Ended(s) /\ Tracked(s) /\ Listed(s) /\ Accounted(s)
    /\ del \subseteq Chunks /\ Whole(s, del) /\ Waiting(s, del)
    /\ s.thrown # "past the end"

-----------------------------------------------------------------------------
(* The parts of the invariant *)

\* The claims are numbers.
LEMMA ClaimIs ==
    ASSUME NEW s
    PROVE  /\ Claimed(s) \in Nat /\ IsFiniteSet(Chunks)
           /\ \A c \in Chunks : /\ Claim(s)[c] = (IF s.status[c] \in Claiming THEN Size[c] ELSE 0)
                               /\ Claim(s)[c] \in Nat /\ Size[c] \in Nat \ {0}
  <1>1. IsFiniteSet(Chunks) /\ \A c \in Chunks : Size[c] \in Nat \ {0}
    BY ChunkSizes
  <1>2. \A c \in Chunks : /\ Claim(s)[c] = (IF s.status[c] \in Claiming THEN Size[c] ELSE 0)
                          /\ Claim(s)[c] \in Nat
    BY <1>1 DEF Claim
  <1>3. Claimed(s) \in Nat
    BY <1>1, <1>2, SumType DEF Claimed
  <1> QED BY <1>1, <1>2, <1>3

\* Claims depend on the status alone.
LEMMA ClaimSame ==
    ASSUME NEW s, NEW r, \A c \in Chunks : r.status[c] \in Claiming <=> s.status[c] \in Claiming
    PROVE  Claimed(r) = Claimed(s)
  <1>1. Claim(r) = Claim(s)
    BY DEF Claim
  <1> QED BY <1>1 DEF Claimed

\* One chunk claims its bytes, or gives them back.
LEMMA ClaimChange ==
    ASSUME NEW s, NEW r, NEW c \in Chunks,
           \A d \in Chunks : d # c => (r.status[d] \in Claiming <=> s.status[d] \in Claiming)
    PROVE  /\ s.status[c] \notin Claiming /\ r.status[c] \in Claiming => Claimed(r) = Claimed(s) + Size[c]
           /\ s.status[c] \in Claiming /\ r.status[c] \notin Claiming => Claimed(r) = Claimed(s) - Size[c]
  <1>1. \A d \in Chunks : d # c => Claim(r)[d] = Claim(s)[d]
    BY ClaimIs
  <1>2. \A d \in Chunks : Claim(s)[d] \in Int /\ Claim(r)[d] \in Int
    BY ClaimIs
  <1>3. Claimed(r) = Claimed(s) - Claim(s)[c] + Claim(r)[c]
    <2>0. DEFINE f == Claim(s)
                 g == Claim(r)
    <2>1. IsFiniteSet(Chunks)
      BY ClaimIs
    <2>2. \A d \in Chunks : f[d] \in Int /\ g[d] \in Int
      BY <1>2
    <2>3. \A d \in Chunks : d # c => g[d] = f[d]
      BY <1>1
    <2> HIDE DEF f, g
    <2>4. SumOver(g, Chunks) = SumOver(f, Chunks) - f[c] + g[c]
      BY <2>1, <2>2, <2>3, SumChange
    <2> QED BY <2>4 DEF Claimed, f, g
  <1>4. Claimed(s) \in Int /\ Claimed(r) \in Int /\ Size[c] \in Int
    BY ClaimIs
  <1>5. /\ Claim(s)[c] = (IF s.status[c] \in Claiming THEN Size[c] ELSE 0)
        /\ Claim(r)[c] = (IF r.status[c] \in Claiming THEN Size[c] ELSE 0)
    BY ClaimIs
  <1> HIDE DEF Claiming
  <1> QED BY <1>3, <1>4, <1>5

\* swapFree follows the bytes and the claims.
LEMMA AccountedMore ==
    ASSUME NEW s, NEW r, Accounted(s), NEW n \in Int, r.swapFree = Wrap(s.swapFree + n),
           AllBytes(s) \in Int, AllBytes(r) \in Int,
           AllBytes(r) - Claimed(r) = AllBytes(s) - Claimed(s) + n
    PROVE  Accounted(r)
  <1>1. Claimed(s) \in Int
    BY ClaimIs
  <1>2. PICK x \in Int : x = AllBytes(s) - Claimed(s)
    BY <1>1
  <1>3. Wrap(Wrap(x) + n) = Wrap(x + n)
    BY <1>2, WrapAdd
  <1> QED BY <1>2, <1>3 DEF Accounted

\* Nothing but the locations has changed, and swapFree has followed them.
LEMMA AccountedBalanced ==
    ASSUME NEW s, NEW r, Accounted(s), Balanced(s, r), AllBytes(s) \in Int, AllBytes(r) \in Int,
           r.status = s.status
    PROVE  Accounted(r)
  <1>1. Claimed(r) = Claimed(s) /\ Claimed(s) \in Int
    <2>1. \A c \in Chunks : r.status[c] \in Claiming <=> s.status[c] \in Claiming
      OBVIOUS
    <2>2. Claimed(r) = Claimed(s)
      BY <2>1, ClaimSame
    <2> QED BY <2>2, ClaimIs
  <1>2. PICK n \in Int : n = AllBytes(r) - AllBytes(s)
    OBVIOUS
  <1>3. AllBytes(r) - Claimed(r) = AllBytes(s) - Claimed(s) + n
    BY <1>1, <1>2
  <1>4. r.swapFree = Wrap(s.swapFree + n)
    BY <1>2 DEF Balanced
  <1> QED BY <1>3, <1>4, AccountedMore

\* What is on its way is finite, and none of it belongs to two chunks.
LEMMA OnTheWayIs ==
    ASSUME NEW s, Sane(s), NEW c \in Chunks
    PROVE  /\ IsFiniteSet(OnTheWay(s, c)) /\ Cardinality(OnTheWay(s, c)) \in Nat
           /\ IsFiniteSet(Chain(s, c)) /\ Cardinality(Chain(s, c)) = Len(s.parts[c])
           /\ \A d \in Chunks : d # c => Chain(s, c) \cap Chain(s, d) = {}
  <1>1. s \in SwapType /\ Tiled(s) /\ Chained(s)
    BY DEF Sane
  <1>2. Chain(s, c) \in SUBSET (DOMAIN s.all_space) /\ Span(s)
    BY <1>1, ChainIs DEF Tiled, Files
  <1>3. IsFiniteSet(Chain(s, c))
    BY <1>1, <1>2, SizesAre
  <1>4. IsFiniteSet(OnTheWay(s, c))
    <2>1. OnTheWay(s, c) \in SUBSET Chain(s, c)
      BY DEF OnTheWay
    <2> QED BY <1>3, <2>1, FS_Subset
  <1>5. \A d \in Chunks : d # c => Chain(s, c) \cap Chain(s, d) = {}
    BY <1>1 DEF Chained, Chain
  <1>6. Cardinality(Chain(s, c)) = Len(s.parts[c])
    <2>1. PICK n \in Nat : n = Len(s.parts[c])
      BY <1>1, PartsAre
    <2>2. PICK f : f = [i \in 1..n |-> s.parts[c][i]]
      OBVIOUS
    <2>3. f \in Bijection(1..n, Chain(s, c))
      <3>1. f \in [1..n -> Chain(s, c)]
        BY <2>1, <2>2 DEF Chain
      <3>2. \A i, j \in 1..n : f[i] = f[j] => i = j
        <4>1. \A i, j \in 1..Len(s.parts[c]) : s.parts[c][i] = s.parts[c][j] => i = j
          BY <1>1 DEF Chained
        <4>2. \A i \in 1..n : f[i] = s.parts[c][i]
          BY <2>2
        <4> QED BY <2>1, <4>1, <4>2
      <3>3. \A off \in Chain(s, c) : \E i \in 1..n : f[i] = off
        BY <2>1, <2>2 DEF Chain
      <3> QED BY <3>1, <3>2, <3>3 DEF Bijection, Injection, Surjection, IsInjective
    <2>4. ExistsBijection(1..n, Chain(s, c))
      BY <2>3 DEF ExistsBijection
    <2>5. Cardinality(Chain(s, c)) = n
      BY <1>3, <2>1, <2>4, FS_CountingElements
    <2> QED BY <2>1, <2>5
  <1> QED BY <1>3, <1>4, <1>5, <1>6, FS_CardinalityType

\* A chunk that holds bytes has a location.
LEMMA HoldsSome ==
    ASSUME NEW s, Sane(s), NEW c \in Chunks
    PROVE  Held(s, c) = Size[c] => s.parts[c] # <<>>
  <1>1. SUFFICES ASSUME s.parts[c] = <<>> PROVE Held(s, c) # Size[c]
    OBVIOUS
  <1>2. s \in SwapType /\ Tiled(s) /\ Chained(s)
    BY DEF Sane
  <1>3. Chain(s, c) = {}
    BY <1>1, <1>2, ChainIs
  <1>4. Held(s, c) = 0
    <2>1. Held(s, c) = SumOver(Sizes(s), {})
      BY <1>2, <1>3, HeldIs
    <2> QED BY <2>1, SumEmpty
  <1> QED BY <1>4, ChunkSizes

\* Page copies are whole and at rest.
LEMMA GoodCopies ==
    ASSUME NEW s, NEW del, Good(s, del)
    PROVE  /\ Copies(s) /\ Cached(s) \cap del = {}
           /\ \A c \in Chunks : s.status[c] \notin Moving => \A i \in 1..Len(s.parts[c]) : s.parts[c][i] \notin s.pending
  <1>1. ASSUME NEW c \in Chunks, s.status[c] \notin Moving, NEW i \in 1..Len(s.parts[c])
        PROVE  s.parts[c][i] \notin s.pending
    <2>1. OnTheWay(s, c) = {}
      BY <1>1 DEF Good, Tracked
    <2> QED BY <2>1 DEF OnTheWay, Chain
  <1>2. ASSUME NEW c \in Cached(s) PROVE Held(s, c) = Size[c] /\ c \notin del /\ c \in Chunks /\ s.status[c] \notin Moving
    <2>1. c \in Chunks /\ s.status[c] = "ALLOCATED" /\ s.parts[c] # <<>>
      BY DEF Cached
    <2>2. c \notin del
      BY <2>1 DEF Good, Waiting
    <2> QED BY <2>1, <2>2 DEF Good, Whole, Moving
  <1>3. Copies(s)
    BY <1>1, <1>2 DEF Copies
  <1> QED BY <1>1, <1>2, <1>3

\* The status of a chunk is one of those named.
LEMMA StatusIs ==
    ASSUME NEW s \in SwapType, NEW c \in Chunks
    PROVE  s.status \in [Chunks -> Statuses] /\ s.status[c] \in {"NONE", "ALLOCATED", "SWAPOUT", "SWAPPED", "SWAPIN"}
  BY DEF SwapType, Statuses

\* Deleting page copies keeps the invariant.
LEMMA CleanedGood ==
    ASSUME NEW s, NEW del, Good(s, del), NEW r, NEW K, Cleaned(s, r, K)
    PROVE  Good(r, del)
  <1>1. Sane(s) /\ Copies(s) /\ Cached(s) \cap del = {}
    BY GoodCopies DEF Good
  <1>2. /\ Sane(r) /\ r.pending = s.pending /\ r.tracker = s.tracker /\ r.status = s.status
        /\ r.memChunks = s.memChunks /\ r.thrown = s.thrown /\ K \subseteq Cached(s)
        /\ \A d \in Chunks : r.parts[d] = IF d \in K THEN <<>> ELSE s.parts[d]
        /\ Balanced(s, r)
    BY DEF Cleaned, Alike
  <1>3. s \in SwapType /\ Tiled(s) /\ Chained(s) /\ r \in SwapType /\ Tiled(r) /\ Chained(r)
    BY <1>1, <1>2 DEF Sane
  <1>4. /\ Cached(r) = Cached(s) \ K
        /\ \A c \in Chunks \ K : Held(r, c) = Held(s, c) /\ Chain(r, c) = Chain(s, c)
    BY <1>1, CleanedCopies
  <1>5. \A c \in K : c \in Chunks /\ s.status[c] = "ALLOCATED" /\ r.parts[c] = <<>> /\ c \notin del
    BY <1>1, <1>2 DEF Cached
  <1>6. Ended(r)
    <2>1. ASSUME NEW c \in Chunks, NEW i \in 1..Len(r.parts[c])
          PROVE  r.all_space[r.parts[c][i]].status = IF i = Len(r.parts[c]) THEN "END" ELSE "PART"
      <3>1. c \notin K
        BY <1>5
      <3>2. r.parts[c] = s.parts[c]
        BY <1>2, <3>1
      <3>3. r.parts[c][i] \in Used(r)
        BY <1>3 DEF Chained
      <3>4. r.all_space[r.parts[c][i]] = s.all_space[s.parts[c][i]]
        BY <3>2, <3>3 DEF Cleaned
      <3>5. i \in 1..Len(s.parts[c])
        BY <3>2
      <3>6. s.all_space[s.parts[c][i]].status = IF i = Len(s.parts[c]) THEN "END" ELSE "PART"
        BY <3>5 DEF Good, Ended
      <3> QED BY <3>2, <3>4, <3>6
    <2> QED BY <2>1 DEF Ended
  <1>7. \A c \in Chunks : OnTheWay(r, c) = OnTheWay(s, c)
    <2>1. ASSUME NEW c \in Chunks PROVE OnTheWay(r, c) = OnTheWay(s, c)
      <3>1. CASE c \in K
        <4>1. Chain(r, c) = {}
          BY <1>3, <1>5, <3>1, ChainIs
        <4>2. OnTheWay(s, c) = {}
          BY <1>5, <3>1 DEF Good, Tracked, Moving
        <4> QED BY <4>1, <4>2 DEF OnTheWay
      <3>2. CASE c \notin K
        BY <1>2, <1>4, <3>2 DEF OnTheWay
      <3> QED BY <3>1, <3>2
    <2> QED BY <2>1
  <1>8. Tracked(r)
    BY <1>2, <1>7 DEF Good, Tracked
  <1>9. Listed(r)
    <2>1. \A c \in Chunks : s.parts[c] = <<>> => r.parts[c] = <<>>
      BY <1>2
    <2>2. Listed(s)
      BY DEF Good
    <2> QED BY <1>2, <2>1, <2>2 DEF Listed
  <1>10. Accounted(r)
    <2>1. AllBytes(s) \in Int /\ AllBytes(r) \in Int
      BY <1>3, AllBytesIs
    <2> QED BY <1>2, <2>1, AccountedBalanced DEF Good
  <1>11. Whole(r, del)
    <2>1. ASSUME NEW c \in Chunks \ del, r.status[c] \in Claiming \/ r.parts[c] # <<>>
          PROVE  Held(r, c) = Size[c]
      <3>1. c \notin K
        BY <1>2, <1>5, <2>1 DEF Claiming
      <3> QED BY <1>2, <1>4, <2>1, <3>1 DEF Good, Whole
    <2> QED BY <2>1 DEF Whole
  <1>12. Waiting(r, del)
    BY <1>2, <1>5 DEF Good, Waiting
  <1> QED BY <1>2, <1>6, <1>8, <1>9, <1>10, <1>11, <1>12 DEF Good

\* cleanupCachedElements keeps the invariant, and leaves what it does not delete.
LEMMA CleanupGood ==
    ASSUME NEW s, NEW del, Good(s, del), Chunks # {}, NEW minimum
    PROVE  Good(CleanupCachedElements(s, minimum).s, del)
  <1>1. PICK x : x = CleanupCachedElements(s, minimum)
    OBVIOUS
  <1>2. CleanupEnds(s, minimum, x)
    BY <1>1, GoodCopies, CleanupIs DEF Good
  <1> QED BY <1>1, <1>2, CleanedGood DEF CleanupEnds

-----------------------------------------------------------------------------
(* extendSwap *)

\* New files of the same size, one after the other.
LEMMA FilesSum ==
    ASSUME NEW b \in Nat, NEW f, NEW n \in Nat,
           \A k \in 0..(n - 1) : f[b + k * PageFileSize] = PageFileSize
    PROVE  /\ SumOver(f, {b + k * PageFileSize : k \in 0..(n - 1)}) = n * PageFileSize
           /\ IsFiniteSet({b + k * PageFileSize : k \in 0..(n - 1)})
  <1> DEFINE T(m) == {b + k * PageFileSize : k \in 0..(m - 1)}
             G == {m \in Nat : m <= n => SumOver(f, T(m)) = m * PageFileSize /\ IsFiniteSet(T(m))}
  <1>1. PageFileSize \in Nat \ {0}
    BY ConstantsAssumption
  <1>2. \A k \in Nat : k * PageFileSize \in Nat
    BY <1>1
  <1>3. 0 \in G
    <2>1. T(0) = {}
      OBVIOUS
    <2>2. SumOver(f, T(0)) = 0 /\ IsFiniteSet(T(0))
      BY <2>1, SumEmpty, FS_EmptySet
    <2>3. 0 * PageFileSize = 0
      BY <1>1
    <2> QED BY <2>2, <2>3
  <1>4. ASSUME NEW m \in Nat, m \in G PROVE m + 1 \in G
    <2>1. SUFFICES ASSUME m + 1 <= n
                   PROVE  SumOver(f, T(m + 1)) = (m + 1) * PageFileSize /\ IsFiniteSet(T(m + 1))
      OBVIOUS
    <2>2. SumOver(f, T(m)) = m * PageFileSize /\ IsFiniteSet(T(m))
      BY <1>4, <2>1
    <2>3. PICK new : new = b + m * PageFileSize
      OBVIOUS
    <2>4. T(m + 1) = T(m) \cup {new}
      <3>1. \A k : k \in 0..((m + 1) - 1) <=> k \in 0..(m - 1) \/ k = m
        OBVIOUS
      <3> QED BY <2>3, <3>1
    <2>5. new \notin T(m)
      <3>1. \A k \in 0..(m - 1) : k * PageFileSize # m * PageFileSize
        <4>1. SUFFICES ASSUME NEW k \in 0..(m - 1) PROVE k * PageFileSize # m * PageFileSize
          OBVIOUS
        <4>2. PICK e \in Nat \ {0} : e = m - k
          OBVIOUS
        <4>3. e * PageFileSize # 0
          BY <1>1
        <4>4. m * PageFileSize = k * PageFileSize + e * PageFileSize
          BY <1>1, <4>2
        <4>5. k * PageFileSize \in Int /\ e * PageFileSize \in Int
          BY <1>1
        <4> QED BY <4>3, <4>4, <4>5
      <3>2. \A k \in 0..(m - 1) : k * PageFileSize \in Int
        BY <1>2
      <3>3. m * PageFileSize \in Int
        BY <1>2
      <3> QED BY <2>3, <3>1, <3>2, <3>3
    <2>6. f[new] = PageFileSize /\ \A x \in T(m) : f[x] = PageFileSize
      <3>1. m \in 0..(n - 1) /\ \A k \in 0..(m - 1) : k \in 0..(n - 1)
        BY <2>1
      <3> QED BY <2>3, <3>1
    <2> HIDE DEF T
    <2>7. SumOver(f, T(m) \cup {new}) = SumOver(f, T(m)) + f[new]
      <3>1. f[new] \in Int /\ \A x \in T(m) : f[x] \in Int
        BY <1>1, <2>6
      <3> QED BY <2>2, <2>5, <3>1, SumAdd
    <2>8. IsFiniteSet(T(m + 1))
      BY <2>2, <2>4, FS_AddElement
    <2>9. (m + 1) * PageFileSize = m * PageFileSize + PageFileSize
      BY <1>1
    <2> QED BY <2>2, <2>4, <2>6, <2>7, <2>8, <2>9
  <1>5. n \in G
    <2> HIDE DEF G
    <2> QED BY <1>3, <1>4, NumberInduction
  <1>6. SumOver(f, T(n)) = n * PageFileSize /\ IsFiniteSet(T(n))
    <2>1. n <= n
      OBVIOUS
    <2> QED BY <1>5, <2>1
  <1> QED BY <1>6

\* Dividing a multiple.
LEMMA DivMultiple ==
    ASSUME NEW k \in Int, NEW p \in Nat \ {0}
    PROVE  (k * p) \div p = k
  <1>1. PICK x \in Int : x = k * p
    OBVIOUS
  <1>2. PICK d \in Int, r \in Int : d = x \div p /\ r = x % p
    BY <1>1
  <1>3. x = p * d + r /\ 0 <= r /\ r < p
    BY <1>1, <1>2
  <1>4. PICK n \in Int : n = k - d
    <2>1. d \in Int
      BY <1>2
    <2> QED BY <2>1
  <1>5. p * n = r
    <2>1. p * n = p * k - p * d
      BY <1>2, <1>4
    <2>2. p * k \in Int /\ p * d \in Int /\ p * k = x
      <3>1. \A a, b \in Int : a * b \in Int /\ a * b = b * a
        OBVIOUS
      <3>2. d \in Int /\ p \in Int
        BY <1>2
      <3> QED BY <1>1, <3>1, <3>2
    <2>3. r \in Int /\ x \in Int
      BY <1>1, <1>2
    <2> QED BY <1>3, <2>1, <2>2, <2>3
  <1>6. n = 0
    <2>1. n >= 1 => p * n >= p
      BY <1>4
    <2>2. n <= -1 => p * n <= -p
      BY <1>4
    <2> QED BY <1>2, <1>3, <1>4, <1>5, <2>1, <2>2
  <1>7. d = k
    BY <1>2, <1>4, <1>6
  <1> QED BY <1>1, <1>2, <1>7

\* In r, the swap has k more files than in s, and nothing else has happened.
Extended(s, r, k) ==
    /\ r \in SwapType /\ Tiled(r) /\ Used(r) = Used(s)
    /\ \A off \in DOMAIN s.all_space : off \in DOMAIN r.all_space /\ r.all_space[off] = s.all_space[off]
    /\ r.parts = s.parts /\ r.pending = s.pending /\ r.tracker = s.tracker /\ r.status = s.status
    /\ r.memChunks = s.memChunks /\ r.thrown = s.thrown
    /\ AllBytes(r) = AllBytes(s) + k * PageFileSize
    /\ r.swapFree = Wrap(s.swapFree + k * PageFileSize)
    /\ FreeBytes(r) >= FreeBytes(s)

\* extendSwap appends free files and keeps the locations a tiling.
LEMMA ExtendTiled ==
    ASSUME NEW s \in SwapType, Tiled(s), NEW k \in Nat,
           s.swapSize + k * PageFileSize <= MaxFiles * PageFileSize,
           NEW r, r = ExtendSwap(s, k * PageFileSize)
    PROVE  Extended(s, r, k)
  <1> DEFINE A == s.all_space
             P == PageFileSize
             key(n) == s.swapSize + n * P
             new == {key(n) : n \in 0..(k - 1)}
             free == [size |-> P, status |-> "FREE"]
             B == [off \in DOMAIN A \cup new |-> IF off \in new THEN free ELSE A[off]]
  <1>1. P \in Nat \ {0} /\ P \in Int /\ MaxFiles \in Nat
    BY ConstantsAssumption
  <1>2. (k * P) \div P = k
    BY <1>1, DivMultiple
  <1>3. r = [s EXCEPT !.all_space = B, !.free_space = s.free_space \cup new, !.swapSize = s.swapSize + k * P,
                      !.swapFree = Wrap(s.swapFree + k * P)]
    BY <1>2 DEF ExtendSwap
  <1>4. PICK D \in SUBSET Nat : A \in [D -> Location] /\ D = DOMAIN A
    BY DEF SwapType
  <1>5. PICK S \in Nat : S = s.swapSize
    BY KeysAre
  <1>6. PICK k0 \in 1..MaxFiles : S = k0 * P
    BY <1>5 DEF Tiled, Files
  <1>7. \A n \in Int : n * P \in Int
    BY <1>1
  <1>8. \A n \in Nat : n * P \in Nat /\ key(n) \in Nat /\ key(n) >= S
    <2>1. \A n \in Nat : n * P \in Nat
      BY <1>1
    <2> QED BY <1>5, <2>1
  <1>9. \A n, m \in Nat : n < m => key(n) + P <= key(m)
    <2>1. SUFFICES ASSUME NEW n \in Nat, NEW m \in Nat, n < m PROVE key(n) + P <= key(m)
      OBVIOUS
    <2>2. PICK e \in Nat : e = m - n - 1
      BY <2>1
    <2>3. m = n + e + 1
      BY <2>1, <2>2
    <2>4. m * P = n * P + e * P + P
      BY <1>1, <2>2, <2>3
    <2>5. n * P \in Nat /\ e * P \in Nat /\ m * P \in Nat
      BY <1>8, <2>2
    <2> QED BY <1>1, <1>5, <2>4, <2>5
  <1>10. \A n \in Nat : StartOfFile(key(n))
    <2>1. SUFFICES ASSUME NEW n \in Nat PROVE key(n) % P = 0
      BY DEF StartOfFile
    <2>2. PICK m \in Int : m = k0 + n
      BY <1>6
    <2>3. key(n) = P * m
      <3>1. P * m = k0 * P + n * P
        BY <1>1, <1>6, <2>2
      <3> QED BY <1>5, <1>6, <3>1
    <2>4. key(n) \in Int /\ P \in Nat \ {0}
      BY <1>1, <1>8
    <2> QED BY <2>2, <2>3, <2>4, Multiples
  <1>11. D \subseteq 0..(S - 1)
    BY <1>4, <1>5 DEF Tiled, Files, Span
  <1>12. new \subseteq Nat /\ D \cap new = {}
    <2>1. \A n \in 0..(k - 1) : key(n) \in Nat /\ key(n) >= S
      BY <1>8
    <2>2. \A o \in D : o < S /\ o \in Int
      BY <1>5, <1>11
    <2>3. \A o \in new : o \in Nat /\ o >= S
      BY <2>1
    <2>4. ASSUME NEW o \in D, o \in new PROVE FALSE
      BY <1>5, <2>2, <2>3, <2>4
    <2> QED BY <2>3, <2>4
  <1>13. free \in Location
    BY <1>1 DEF Location
  <1>14. /\ B \in [D \cup new -> Location] /\ DOMAIN B = D \cup new
         /\ \A o \in D : B[o] = A[o]
         /\ \A o \in new : B[o] = free
    BY <1>4, <1>12, <1>13
  <1>15. S + k * P \in Nat
    BY <1>8
  <1>16. /\ r \in SwapType /\ r.all_space = B /\ r.free_space = s.free_space \cup new
         /\ r.swapSize = S + k * P /\ r.layout = s.layout
         /\ r.parts = s.parts /\ r.pending = s.pending /\ r.tracker = s.tracker /\ r.status = s.status
         /\ r.memChunks = s.memChunks /\ r.thrown = s.thrown
         /\ r.swapFree = Wrap(s.swapFree + k * P)
    <2>1. B \in UNION {[E -> Location] : E \in SUBSET Nat}
      <3>1. D \cup new \in SUBSET Nat
        BY <1>12
      <3> HIDE DEF B, new
      <3> QED BY <1>14, <3>1
    <2>2. s.free_space \cup new \in SUBSET Nat
      BY <1>12 DEF SwapType
    <2>3. Wrap(s.swapFree + k * P) \in 0..(2^Width - 1)
      <3>1. s.swapFree + k * P \in Int
        BY <1>7, SwapFreeIs
      <3> QED BY <3>1, WrapIs
    <2> HIDE DEF B, new
    <2> QED BY <1>3, <1>5, <1>15, <2>1, <2>2, <2>3 DEF SwapType
  <1> HIDE DEF B, A, P, free
  <1>17. \A o : Free(r, o) <=> o \in D \cup new /\ (o \in new \/ Free(s, o))
    <2>1. free.status = "FREE"
      BY DEF free
    <2>2. \A o : Free(s, o) <=> o \in D /\ A[o].status = "FREE"
      BY <1>4, FreeIs DEF A
    <2>3. \A o : Free(r, o) <=> o \in D \cup new /\ B[o].status = "FREE"
      BY <1>14, <1>16, FreeIs
    <2>4. ASSUME NEW o \in new PROVE Free(r, o)
      BY <1>14, <2>1, <2>3
    <2>5. ASSUME NEW o \in D PROVE o \notin new /\ (Free(r, o) <=> Free(s, o))
      BY <1>12, <1>14, <2>2, <2>3
    <2> HIDE DEF new
    <2> QED BY <2>2, <2>3, <2>4, <2>5
  <1>18. Used(r) = Used(s)
    BY <1>4, <1>12, <1>14, <1>16 DEF Used, A
  <1>19. Files(r)
    <2>1. \E j \in 1..MaxFiles : r.swapSize = j * P
      <3>1. PICK j \in Int : j = k0 + k
        BY <1>6
      <3>2. j * P = S + k * P
        BY <1>1, <1>6, <3>1
      <3>3. j <= MaxFiles
        <4>1. j >= MaxFiles + 1 => j * P >= (MaxFiles + 1) * P
          BY <1>1, <3>1
        <4>2. (MaxFiles + 1) * P = MaxFiles * P + P /\ MaxFiles * P \in Int
          BY <1>1
        <4>3. j * P <= MaxFiles * P /\ j * P \in Int
          BY <1>5, <1>15, <3>2 DEF P
        <4> QED BY <1>1, <3>1, <4>1, <4>2, <4>3
      <3> QED BY <1>6, <1>16, <3>1, <3>2, <3>3
    <2>2. Span(r)
      <3>1. ASSUME NEW n \in 0..(k - 1) PROVE key(n) \in 0..((S + k * P) - 1)
        <4>1. n \in Nat /\ n < k
          OBVIOUS
        <4>2. key(n) + P <= key(k) /\ key(n) \in Nat /\ key(k) = S + k * P
          BY <1>5, <1>8, <1>9, <4>1
        <4> QED BY <1>1, <1>15, <4>2
      <3>2. \A o \in D : o \in 0..((S + k * P) - 1)
        BY <1>5, <1>8, <1>11
      <3> QED BY <1>14, <1>16, <3>1, <3>2 DEF Span
    <2>3. ASSUME NEW off \in 0..(r.swapSize - 1), StartOfFile(off) PROVE off \in DOMAIN r.all_space
      <3>1. off \in Nat /\ off < S + k * P
        BY <1>15, <1>16
      <3>2. CASE off < S
        <4>1. off \in 0..(s.swapSize - 1)
          BY <1>5, <3>1, <3>2
        <4>2. off \in D
          BY <1>4, <2>3, <4>1 DEF Tiled, Files, A
        <4> QED BY <1>14, <1>16, <4>2
      <3>3. CASE off >= S
        <4>1. PICK j \in Int : off = P * j
          <5>1. off % P = 0 /\ off \in Int /\ P \in Nat \ {0}
            BY <1>1, <2>3, <3>1 DEF StartOfFile, P
          <5> QED BY <5>1, Multiples
        <4>2. PICK n \in Int : n = j - k0
          <5>1. j \in Int /\ k0 \in Int
            BY <4>1
          <5> QED BY <5>1
        <4>3. n * P = off - S /\ off = key(n)
          <5>1. n * P = P * j - k0 * P
            BY <1>1, <4>1, <4>2
          <5> QED BY <1>5, <1>6, <1>7, <3>1, <4>1, <4>2, <5>1
        <4>4. n >= 0
          <5>1. n <= -1 => n * P <= -P
            BY <1>1, <4>2
          <5> QED BY <1>1, <1>5, <3>1, <3>3, <4>2, <4>3, <5>1
        <4>5. n < k
          <5>1. n >= k => n * P >= k * P
            BY <1>1, <4>2
          <5>2. k * P \in Int
            BY <1>7
          <5> QED BY <1>1, <1>5, <3>1, <4>2, <4>3, <5>1, <5>2
        <4>6. n \in 0..(k - 1)
          BY <4>2, <4>4, <4>5
        <4> QED BY <1>14, <1>16, <4>3, <4>6
      <3> QED BY <1>5, <3>1, <3>2, <3>3
    <2>4. r.free_space = {o \in DOMAIN r.all_space : Free(r, o)}
      <3>1. s.free_space = {o \in D : Free(s, o)}
        BY <1>4 DEF Tiled, Files, A
      <3> HIDE DEF new
      <3> QED BY <1>12, <1>14, <1>16, <1>17, <3>1
    <2> QED BY <2>1, <2>2, <2>3, <2>4 DEF Files, P
  <1>20. ASSUME NEW o \in D PROVE Placed(r, o)
    <2>1. ASSUME NEW next \in Nat, IsNext(r, o, next)
          PROVE  IsNext(s, o, next) /\ (Free(r, next) => Free(s, next) \/ StartOfFile(next))
      <3>1. next \in D \cup new \cup {key(k)} /\ next > o /\ \A x \in D \cup new : x > o => x >= next
        BY <1>5, <1>14, <1>16, <2>1 DEF IsNext
      <3>2. o < S /\ S \in Nat /\ o \in Nat
        BY <1>5, <1>11
      <3>3. next \in D \cup {S}
        <4>1. SUFFICES ASSUME NEW n \in Nat, n <= k, next = key(n), next \notin D PROVE next = S
          <5>1. next \in D \/ \E n \in Nat : n <= k /\ next = key(n)
            <6>1. k \in Nat /\ k <= k /\ \A n \in 0..(k - 1) : n \in Nat /\ n <= k
              OBVIOUS
            <6> QED BY <3>1, <6>1
          <5> QED BY <5>1
        <4>2. CASE k = 0
          <5>1. n = 0
            BY <4>1, <4>2
          <5>2. n * P = 0
            BY <1>1, <5>1
          <5> QED BY <1>5, <4>1, <5>2
        <4>3. CASE k > 0
          <5>1. 0 \in 0..(k - 1) /\ key(0) = S
            <6>1. 0 * P = 0
              BY <1>1
            <6> QED BY <1>5, <4>3, <6>1
          <5>2. S \in new
            BY <5>1
          <5>3. S >= next /\ next >= S
            BY <1>8, <3>1, <3>2, <4>1, <5>2
          <5> QED BY <2>1, <3>2, <5>3
        <4> QED BY <4>2, <4>3
      <3>4. IsNext(s, o, next)
        BY <1>4, <1>5, <3>1, <3>3 DEF IsNext, A
      <3>5. Free(r, next) => Free(s, next) \/ StartOfFile(next)
        <4>1. next \in new => StartOfFile(next)
          BY <1>10
        <4> QED BY <1>17, <4>1
      <3> QED BY <3>4, <3>5
    <2>2. /\ (Free(r, o) <=> Free(s, o)) /\ LocationSize(r, o) = LocationSize(s, o)
          /\ r.layout = s.layout
      BY <1>12, <1>14, <1>16, <1>17 DEF LocationSize, A
    <2>3. Placed(s, o)
      BY <1>4 DEF Tiled, A
    <2> QED BY <2>1, <2>2, <2>3 DEF Placed
  <1>21. ASSUME NEW o \in new PROVE Placed(r, o)
    <2>1. PICK n \in 0..(k - 1) : o = key(n)
      OBVIOUS
    <2>2. n \in Nat /\ n < k /\ n + 1 \in Nat /\ n + 1 <= k
      BY <2>1
    <2>3. o \in Nat /\ o >= S
      BY <1>8, <2>1, <2>2
    <2>4. o % r.layout.alignment = 0
      <3>1. PICK a \in Nat \ {0} : a = s.layout.alignment /\ P % a = 0 /\ S % a = 0
        BY <1>5, LayoutIs, SwapSizeAligned DEF Tiled, P
      <3>2. PICK j \in Int : P = a * j
        BY <1>1, <3>1, Multiples
      <3>3. (n * P) % a = 0
        <4>1. n * P = a * (n * j) /\ n * j \in Int /\ n * P \in Int
          <5>1. n * P = n * (a * j)
            BY <3>2
          <5>2. n * (a * j) = a * (n * j)
            BY <2>2, <3>1, <3>2
          <5>3. n * j \in Int
            <6>1. n \in Int /\ j \in Int
              BY <2>2, <3>2
            <6>2. \A x, y \in Int : x * y \in Int
              OBVIOUS
            <6> QED BY <6>1, <6>2
          <5> QED BY <1>7, <2>2, <5>1, <5>2, <5>3
        <4> QED BY <3>1, <4>1, Multiples
      <3>4. (S + n * P) % a = 0
        <4>1. n * P \in Int /\ S \in Int
          BY <1>5, <1>8, <2>2
        <4> QED BY <3>1, <3>3, <4>1, MultiplesAdd
      <3> QED BY <1>5, <1>16, <2>1, <3>1, <3>4
    <2>5. ASSUME NEW next \in Nat, IsNext(r, o, next)
          PROVE  o + P = next /\ StartOfFile(next)
      <3>1. next \in D \cup new \cup {key(k)} /\ next > o /\ \A x \in D \cup new : x > o => x >= next
        BY <1>5, <1>14, <1>16, <2>5 DEF IsNext
      <3>2. next \notin D
        BY <1>5, <1>11, <2>3, <3>1
      <3>3. PICK m \in Nat : next = key(m) /\ m <= k
        <4>1. k \in Nat /\ k <= k /\ \A i \in 0..(k - 1) : i \in Nat /\ i <= k
          OBVIOUS
        <4> QED BY <3>1, <3>2, <4>1
      <3>4. m > n
        <4>1. m < n => next + P <= o
          BY <1>9, <2>1, <2>2, <3>3
        <4>2. m = n => next = o
          BY <2>1, <3>3
        <4> QED BY <1>1, <2>2, <2>3, <3>1, <3>3, <4>1, <4>2
      <3>5. o + P <= next
        BY <1>9, <2>1, <2>2, <3>3, <3>4
      <3>6. key(n + 1) = o + P
        <4>1. (n + 1) * P = n * P + P
          BY <1>1, <2>2
        <4> QED BY <1>1, <1>5, <1>8, <2>1, <2>2, <4>1
      <3>7. next <= o + P
        <4>1. CASE n + 1 = k
          <5>1. m = n + 1
            BY <2>2, <3>3, <3>4, <4>1
          <5>2. next = key(n + 1)
            BY <3>3, <5>1
          <5> QED BY <1>1, <2>3, <3>6, <5>2
        <4>2. CASE n + 1 < k
          <5>1. n + 1 \in 0..(k - 1)
            BY <2>2, <4>2
          <5>2. o + P \in new
            BY <3>6, <5>1
          <5>3. o + P > o
            BY <1>1, <2>3
          <5> QED BY <1>1, <2>3, <3>1, <5>2, <5>3
        <4> QED BY <2>2, <4>1, <4>2
      <3>8. StartOfFile(next)
        BY <1>10, <3>3
      <3> QED BY <1>1, <2>3, <2>5, <3>5, <3>7, <3>8
    <2>6. LocationSize(r, o) = P /\ Free(r, o)
      <3>1. B[o] = free
        BY <1>14
      <3> QED BY <1>16, <1>17, <3>1 DEF LocationSize, free
    <2> QED BY <2>4, <2>5, <2>6 DEF Placed
  <1>22. Tiled(r)
    BY <1>14, <1>16, <1>19, <1>20, <1>21 DEF Tiled
  <1>23. AllBytes(r) = AllBytes(s) + k * P
    <2> DEFINE f == Sizes(s)
               g == Sizes(r)
    <2>1. IsFiniteSet(D) /\ AllBytes(s) = SumOver(f, D)
      BY <1>4, SizesAre DEF Tiled, Files, AllBytes, A
    <2>2. /\ IsFiniteSet(D \cup new) /\ AllBytes(r) = SumOver(g, D \cup new)
          /\ \A o \in D \cup new : g[o] = LocationSize(r, o) /\ g[o] \in Int
      BY <1>14, <1>16, <1>19, SizesAre DEF Files, AllBytes
    <2>3. \A o \in D : f[o] = g[o]
      BY <1>4, <1>14, <1>16 DEF Sizes, LocationSize, A
    <2>4. \A o \in new : g[o] = P
      <3>1. ASSUME NEW o \in new PROVE g[o] = P
        <4>1. r.all_space[o] = free
          BY <1>14, <1>16
        <4>2. g[o] = LocationSize(r, o)
          BY <2>2
        <4> HIDE DEF g, new
        <4> QED BY <4>1, <4>2 DEF LocationSize, free
      <3> QED BY <3>1
    <2> HIDE DEF f, g
    <2>5. SumOver(g, D) = SumOver(f, D)
      BY <2>1, <2>3, SumSame
    <2>6. SumOver(g, new) = k * P
      <3>1. \A n \in 0..(k - 1) : g[S + n * PageFileSize] = PageFileSize
        BY <1>5, <2>4 DEF P
      <3>2. SumOver(g, {S + n * PageFileSize : n \in 0..(k - 1)}) = k * PageFileSize
        BY <3>1, FilesSum
      <3> QED BY <1>5, <3>2 DEF P
    <2> HIDE DEF new
    <2>7. (D \cup new) \ D = new /\ D \in SUBSET (D \cup new)
      BY <1>12
    <2>8. SumOver(g, D \cup new) = SumOver(g, D) + SumOver(g, (D \cup new) \ D)
      BY <2>2, <2>7, SumUnion
    <2> QED BY <2>1, <2>2, <2>5, <2>6, <2>7, <2>8
  <1>24. FreeBytes(r) >= FreeBytes(s)
    <2>1. SumOver(Sizes(r), Used(s)) = SumOver(Sizes(s), Used(s))
      <3>1. \A o \in Used(s) : r.all_space[o] = s.all_space[o]
        BY <1>4, <1>14, <1>16 DEF Used, A
      <3> QED BY <1>16, <1>18, <1>22, <3>1, SizesSame
    <2>2. /\ AllBytes(s) = FreeBytes(s) + SumOver(Sizes(s), Used(s))
          /\ AllBytes(r) = FreeBytes(r) + SumOver(Sizes(r), Used(r))
          /\ FreeBytes(s) \in Nat /\ FreeBytes(r) \in Nat /\ SumOver(Sizes(s), Used(s)) \in Nat
      BY <1>16, <1>22, FreeBytesIs
    <2>3. k * P \in Nat
      BY <1>8
    <2> QED BY <1>18, <1>23, <2>1, <2>2, <2>3
  <1>25. \A off \in DOMAIN s.all_space : off \in DOMAIN r.all_space /\ r.all_space[off] = s.all_space[off]
    BY <1>4, <1>14, <1>16 DEF A
  <1> QED BY <1>16, <1>18, <1>22, <1>23, <1>24, <1>25 DEF Extended, P

\* More files keep the invariant.
LEMMA ExtendedGood ==
    ASSUME NEW s, NEW del, Good(s, del), NEW k \in Nat, NEW r, Extended(s, r, k)
    PROVE  Good(r, del)
  <1>1. s \in SwapType /\ Tiled(s) /\ Chained(s) /\ r \in SwapType /\ Tiled(r) /\ Sane(s)
    BY DEF Good, Sane, Extended
  <1>2. /\ r.parts = s.parts /\ r.pending = s.pending /\ r.tracker = s.tracker /\ r.status = s.status
        /\ r.memChunks = s.memChunks /\ r.thrown = s.thrown /\ Used(r) = Used(s)
    BY DEF Extended
  <1>3. Chained(r) /\ Sane(r)
    <2>1. Chained(r)
      BY <1>1, <1>2 DEF Chained
    <2> QED BY <1>1, <1>2, <2>1 DEF Sane
  <1>4. \A c \in Chunks : Chain(r, c) = Chain(s, c)
    BY <1>2 DEF Chain
  <1>5. ASSUME NEW c \in Chunks, NEW off \in Chain(s, c) PROVE r.all_space[off] = s.all_space[off]
    <2>1. off \in DOMAIN s.all_space
      BY <1>1, <1>5, ChainIs
    <2> QED BY <2>1 DEF Extended
  <1>6. Ended(r)
    <2>1. ASSUME NEW c \in Chunks, NEW i \in 1..Len(r.parts[c])
          PROVE  r.all_space[r.parts[c][i]].status = IF i = Len(r.parts[c]) THEN "END" ELSE "PART"
      <3>1. s.parts[c][i] \in Chain(s, c) /\ r.parts[c] = s.parts[c] /\ i \in 1..Len(s.parts[c])
        BY <1>2 DEF Chain
      <3>2. r.all_space[s.parts[c][i]] = s.all_space[s.parts[c][i]]
        BY <1>5, <3>1
      <3>3. s.all_space[s.parts[c][i]].status = IF i = Len(s.parts[c]) THEN "END" ELSE "PART"
        BY <3>1 DEF Good, Ended
      <3> QED BY <3>1, <3>2, <3>3
    <2> QED BY <2>1 DEF Ended
  <1>7. Tracked(r)
    <2>1. \A c \in Chunks : OnTheWay(r, c) = OnTheWay(s, c)
      BY <1>2, <1>4 DEF OnTheWay
    <2> QED BY <1>2, <2>1 DEF Good, Tracked
  <1>8. Listed(r)
    <2>1. Listed(s)
      BY DEF Good
    <2> QED BY <1>2, <2>1 DEF Listed
  <1>9. Accounted(r)
    <2>1. AllBytes(s) \in Int /\ AllBytes(r) \in Int
      BY <1>1, AllBytesIs
    <2>2. PICK n \in Int : n = k * PageFileSize
      <3>1. k \in Int /\ PageFileSize \in Int
        BY ConstantsAssumption
      <3>2. \A x, y \in Int : x * y \in Int
        OBVIOUS
      <3> QED BY <3>1, <3>2
    <2>3. Claimed(r) = Claimed(s) /\ Claimed(s) \in Int
      <3>1. Claim(r) = Claim(s)
        BY <1>2 DEF Claim
      <3> QED BY <3>1, ClaimIs DEF Claimed
    <2>4. AllBytes(r) = AllBytes(s) + n /\ r.swapFree = Wrap(s.swapFree + n)
      BY <2>2 DEF Extended
    <2>5. AllBytes(r) - Claimed(r) = AllBytes(s) - Claimed(s) + n
      BY <2>1, <2>3, <2>4
    <2> QED BY <2>1, <2>4, <2>5, AccountedMore DEF Good
  <1>10. Whole(r, del)
    <2>1. \A c \in Chunks : Held(r, c) = Held(s, c)
      <3>1. SUFFICES ASSUME NEW c \in Chunks PROVE Held(r, c) = Held(s, c)
        OBVIOUS
      <3>2. r.parts[c] = s.parts[c] /\ \A off \in Chain(s, c) : r.all_space[off] = s.all_space[off]
        BY <1>2, <1>5
      <3> QED BY <1>1, <1>3, <3>2, HeldSame
    <2> QED BY <1>2, <2>1 DEF Good, Whole
  <1>11. Waiting(r, del)
    BY <1>2 DEF Good, Waiting
  <1> QED BY <1>2, <1>3, <1>6, <1>7, <1>8, <1>9, <1>10, <1>11 DEF Good

\* Making room deletes page copies and adds files, which keeps the invariant.
LEMMA MakeRoomGood ==
    ASSUME NEW s, NEW del, Good(s, del), Chunks # {}, NEW n \in Nat
    PROVE  Good(MakeRoom(s, n), del) /\ MakeRoom(s, n).status = s.status
  <1>1. PICK a : a = IF s.swapFree < n THEN CleanupCachedElements(s, n - s.swapFree).s ELSE s
    OBVIOUS
  <1>2. Good(a, del) /\ a.status = s.status
    <2>1. CASE s.swapFree < n
      <3>1. PICK x : x = CleanupCachedElements(s, n - s.swapFree)
        OBVIOUS
      <3>2. CleanupEnds(s, n - s.swapFree, x)
        BY <3>1, GoodCopies, CleanupIs DEF Good
      <3>3. PICK K : Cleaned(s, x.s, K)
        BY <3>2 DEF CleanupEnds
      <3>4. a = x.s
        BY <1>1, <2>1, <3>1
      <3>5. Good(x.s, del)
        BY <3>3, CleanedGood
      <3>6. x.s.status = s.status
        BY <3>3 DEF Cleaned, Alike
      <3> QED BY <3>4, <3>5, <3>6
    <2>2. CASE ~(s.swapFree < n)
      BY <1>1, <2>2
    <2> QED BY <2>1, <2>2
  <1>3. MakeRoom(s, n) = IF a.swapFree < n THEN ExtendSwapByPolicy(a, n - a.swapFree) ELSE a
    BY <1>1 DEF MakeRoom
  <1>4. CASE ~(a.swapFree < n)
    BY <1>2, <1>3, <1>4
  <1>5. CASE a.swapFree < n
    <2>1. a \in SwapType /\ Tiled(a)
      BY <1>2 DEF Good, Sane
    <2>2. PICK m \in Nat : m = n - a.swapFree
      <3>1. a.swapFree \in Int
        BY <2>1, SwapFreeIs
      <3> QED BY <1>5, <3>1
    <2>3. PICK P \in Nat \ {0} : P = PageFileSize
      BY ConstantsAssumption
    <2>4. PICK k \in Nat : k = (m + P - 1) \div P
      <3>1. PICK x \in Nat : x = m + P - 1
        BY <2>3
      <3>2. x \div P \in Nat
        BY <2>3, <3>1
      <3> QED BY <3>1, <3>2
    <2>5. ExtendSwapByPolicy(a, m) =
             IF a.policy = "autoextendable" /\ a.swapSize + k * PageFileSize <= MaxFiles * PageFileSize
             THEN ExtendSwap(a, k * PageFileSize) ELSE a
      BY <2>3, <2>4 DEF ExtendSwapByPolicy
    <2>6. CASE a.policy = "autoextendable" /\ a.swapSize + k * PageFileSize <= MaxFiles * PageFileSize
      <3>1. PICK r : r = ExtendSwap(a, k * PageFileSize)
        OBVIOUS
      <3>2. Extended(a, r, k)
        BY <2>1, <2>6, <3>1, ExtendTiled
      <3>3. Good(r, del)
        BY <1>2, <3>2, ExtendedGood
      <3>4. MakeRoom(s, n) = r
        BY <1>3, <1>5, <2>2, <2>5, <2>6, <3>1
      <3> QED BY <1>2, <3>2, <3>3, <3>4 DEF Extended
    <2>7. CASE ~(a.policy = "autoextendable" /\ a.swapSize + k * PageFileSize <= MaxFiles * PageFileSize)
      BY <1>2, <1>3, <1>5, <2>2, <2>5, <2>7
    <2> QED BY <2>6, <2>7
  <1> QED BY <1>4, <1>5

-----------------------------------------------------------------------------
(* Transfers *)

\* Where the locations are the same, so are the chains and what they hold.
LEMMA SameChains ==
    ASSUME NEW s, Sane(s), NEW r \in SwapType, r.all_space = s.all_space, r.free_space = s.free_space,
           r.swapSize = s.swapSize, r.layout = s.layout, r.parts = s.parts, r.pending \subseteq Used(s)
    PROVE  /\ Sane(r) /\ AllBytes(r) = AllBytes(s)
           /\ \A c \in Chunks : Chain(r, c) = Chain(s, c) /\ Held(r, c) = Held(s, c)
           /\ Ended(s) => Ended(r)
  <1>1. Tiled(r) /\ Used(r) = Used(s) /\ AllBytes(r) = AllBytes(s)
    BY SameSpace DEF Sane
  <1>2. Chained(r)
    BY <1>1 DEF Chained, Sane
  <1>3. Sane(r)
    BY <1>1, <1>2 DEF Sane
  <1>4. \A c \in Chunks : Chain(r, c) = Chain(s, c)
    BY DEF Chain
  <1>5. \A c \in Chunks : Held(r, c) = Held(s, c)
    BY <1>1, <1>2, HeldSame DEF Sane
  <1>6. Ended(s) => Ended(r)
    BY DEF Ended
  <1> QED BY <1>1, <1>3, <1>4, <1>5, <1>6

\* A chunk gets another status, or another location of it is on its way.
LEMMA StatusGood ==
    ASSUME NEW s, NEW del, Good(s, del), NEW c \in Chunks, NEW r \in SwapType,
           r.all_space = s.all_space, r.free_space = s.free_space, r.swapSize = s.swapSize,
           r.layout = s.layout, r.parts = s.parts, r.memChunks = s.memChunks, r.thrown = s.thrown,
           r.pending \subseteq Used(s),
           \A d \in Chunks : d # c => /\ r.status[d] = s.status[d] /\ r.tracker[d] = s.tracker[d]
                                      /\ OnTheWay(r, d) = OnTheWay(s, d),
           r.tracker[c] = Cardinality(OnTheWay(r, c)),
           r.status[c] \in Moving <=> OnTheWay(r, c) # {},
           s.status[c] # "NONE", r.status[c] # "NONE", Accounted(r),
           c \notin del /\ (r.status[c] \in Claiming \/ r.parts[c] # <<>>) => Held(s, c) = Size[c],
           c \in del => r.status[c] \in {"SWAPOUT", "SWAPPED"}
    PROVE  Good(r, del)
  <1>1. /\ Sane(r) /\ Ended(r)
        /\ \A d \in Chunks : Chain(r, d) = Chain(s, d) /\ Held(r, d) = Held(s, d)
    BY SameChains DEF Good
  <1>2. Tracked(r)
    <2>1. ASSUME NEW d \in Chunks
          PROVE r.tracker[d] = Cardinality(OnTheWay(r, d)) /\ (r.status[d] \in Moving <=> OnTheWay(r, d) # {})
      <3>1. CASE d = c
        BY <3>1
      <3>2. CASE d # c
        BY <3>2 DEF Good, Tracked
      <3> QED BY <3>1, <3>2
    <2> QED BY <2>1 DEF Tracked
  <1>3. Listed(r)
    <2>1. \A d \in Chunks : r.status[d] = "NONE" <=> s.status[d] = "NONE"
      OBVIOUS
    <2>2. Listed(s)
      BY DEF Good
    <2> QED BY <2>1, <2>2 DEF Listed
  <1>4. Whole(r, del)
    <2>1. ASSUME NEW d \in Chunks \ del, r.status[d] \in Claiming \/ r.parts[d] # <<>>
          PROVE  Held(r, d) = Size[d]
      <3>1. Held(r, d) = Held(s, d)
        BY <1>1
      <3>2. CASE d = c
        BY <2>1, <3>1, <3>2
      <3>3. CASE d # c
        BY <2>1, <3>1, <3>3 DEF Good, Whole
      <3> QED BY <3>2, <3>3
    <2> QED BY <2>1 DEF Whole
  <1>5. Waiting(r, del)
    <2>1. Waiting(s, del) /\ del \subseteq Chunks
      BY DEF Good
    <2> QED BY <2>1 DEF Waiting
  <1> QED BY <1>1, <1>2, <1>3, <1>4, <1>5 DEF Good

\* The numbers of the state are of their types.
LEMMA FieldsAre ==
    ASSUME NEW s \in SwapType
    PROVE  /\ s.all_space \in UNION {[D -> Location] : D \in SUBSET Nat} /\ s.free_space \in SUBSET Nat
           /\ s.swapSize \in Nat /\ s.swapFree \in 0..(2^Width - 1)
           /\ s.parts \in [Chunks -> Seq(Nat)] /\ s.pending \in SUBSET Nat
           /\ s.tracker \in [Chunks -> Int] /\ s.status \in [Chunks -> Statuses]
           /\ s.memChunks \in Seq(Chunks)
           /\ s.thrown \in Chunks \cup {"none", "past the end"}
           /\ s.layout \in Layouts /\ s.policy \in Policies
  BY DEF SwapType

\* A chunk with new locations that are all on their way is being swapped out.
LEMMA TakenGood ==
    ASSUME NEW t, NEW del, Good(t, del), NEW c \in Chunks, c \notin del,
           t.status[c] = "ALLOCATED", t.parts[c] = <<>>,
           NEW u, NEW p, Taken(t, u, p, c), p # <<>>,
           NEW r, r = CopyMem([u EXCEPT !.parts[c] = p, !.status[c] = "SWAPOUT",
                                        !.swapFree = Wrap(@ - Size[c])], c)
    PROVE  Good(r, del)
  <1>1. t \in SwapType /\ Tiled(t) /\ Chained(t) /\ Sane(t) /\ u \in SwapType /\ Tiled(u)
    BY DEF Good, Sane, Taken
  <1>2. /\ u.parts = t.parts /\ u.pending = t.pending /\ u.tracker = t.tracker /\ u.status = t.status
        /\ u.memChunks = t.memChunks /\ u.thrown = t.thrown /\ Balanced(t, u)
        /\ u.layout = t.layout /\ u.policy = t.policy /\ u.swapSize = t.swapSize
    BY DEF Taken, Beside
  <1>3. PICK n \in Nat : n = Len(p) /\ p \in Seq(Nat) /\ DOMAIN p = 1..n /\ n > 0
    <2>1. p \in Seq(Nat)
      BY DEF Taken
    <2> QED BY <2>1
  <1>4. ToSet(p) = {p[i] : i \in 1..n} /\ {p[i] : i \in 1..n} \in SUBSET Nat
    BY <1>3 DEF ToSet
  <1>5. /\ r.all_space = u.all_space /\ r.free_space = u.free_space /\ r.swapSize = u.swapSize
        /\ r.layout = u.layout /\ r.memChunks = u.memChunks /\ r.thrown = u.thrown
        /\ r.swapFree = Wrap(u.swapFree - Size[c])
        /\ r.parts = [u.parts EXCEPT ![c] = p] /\ r.status = [u.status EXCEPT ![c] = "SWAPOUT"]
        /\ r.pending = u.pending \cup {p[i] : i \in 1..n} /\ r.tracker = [u.tracker EXCEPT ![c] = n]
        /\ r \in SwapType
    <2>1. u.parts[c] \in Seq(Nat) /\ u.parts \in [Chunks -> Seq(Nat)]
      BY <1>1, PartsAre
    <2>2. [u.parts EXCEPT ![c] = p] \in [Chunks -> Seq(Nat)] /\ [u.parts EXCEPT ![c] = p][c] = p
      BY <1>3, <2>1
    <2>3. [u.tracker EXCEPT ![c] = n] \in [Chunks -> Int] /\ [u.status EXCEPT ![c] = "SWAPOUT"] \in [Chunks -> Statuses]
      <3>1. u.tracker \in [Chunks -> Int] /\ u.status \in [Chunks -> Statuses] /\ n \in Int
        <4>1. u.tracker \in [Chunks -> Int] /\ u.status \in [Chunks -> Statuses]
          BY <1>1, FieldsAre
        <4>2. n \in Int
          BY <1>3
        <4> QED BY <4>1, <4>2
      <3>2. "SWAPOUT" \in Statuses
        BY DEF Statuses
      <3> QED BY <3>1, <3>2
    <2>4. Wrap(u.swapFree - Size[c]) \in 0..(2^Width - 1)
      <3>1. u.swapFree \in Int /\ Size[c] \in Int
        <4>1. u.swapFree \in Int
          BY <1>1, SwapFreeIs
        <4>2. Size[c] \in Int
          BY ConstantsAssumption
        <4> QED BY <4>1, <4>2
      <3>2. u.swapFree - Size[c] \in Int
        BY <3>1
      <3> QED BY <3>2, WrapIs
    <2>5. u.pending \cup {p[i] : i \in 1..n} \in SUBSET Nat
      BY <1>1, <1>4, FieldsAre
    <2>6. r = [u EXCEPT !.parts = [u.parts EXCEPT ![c] = p], !.status = [u.status EXCEPT ![c] = "SWAPOUT"],
                        !.swapFree = Wrap(u.swapFree - Size[c]),
                        !.pending = u.pending \cup {p[i] : i \in 1..n},
                        !.tracker = [u.tracker EXCEPT ![c] = n]]
      <3>1. PICK w : w = [u EXCEPT !.parts[c] = p, !.status[c] = "SWAPOUT", !.swapFree = Wrap(@ - Size[c])]
        OBVIOUS
      <3>2. w = [u EXCEPT !.parts = [u.parts EXCEPT ![c] = p], !.status = [u.status EXCEPT ![c] = "SWAPOUT"],
                          !.swapFree = Wrap(u.swapFree - Size[c])]
        BY <3>1
      <3>3. w.parts[c] = p /\ w.pending = u.pending /\ w.tracker = u.tracker
        BY <1>1, <2>2, <3>2 DEF SwapType
      <3>4. r = [w EXCEPT !.pending = u.pending \cup ToSet(p), !.tracker = [u.tracker EXCEPT ![c] = n]]
        BY <1>3, <3>1, <3>3 DEF CopyMem
      <3> QED BY <1>1, <1>4, <3>2, <3>4 DEF SwapType
    <2> QED BY <1>1, <2>2, <2>3, <2>4, <2>5, <2>6 DEF SwapType
  <1>6. /\ Tiled(r) /\ Used(r) = Used(u) /\ AllBytes(r) = AllBytes(u)
    BY <1>1, <1>5, SameSpace
  <1>7. /\ r.parts[c] = p /\ r.status[c] = "SWAPOUT" /\ r.tracker[c] = n
        /\ \A d \in Chunks : d # c => /\ r.parts[d] = t.parts[d] /\ r.status[d] = t.status[d]
                                     /\ r.tracker[d] = t.tracker[d]
    <2>1. /\ u.parts \in [Chunks -> Seq(Nat)] /\ u.tracker \in [Chunks -> Int]
          /\ u.status \in [Chunks -> Statuses]
      BY <1>1, FieldsAre
    <2> QED BY <1>2, <1>5, <2>1
  <1>8. Used(r) = Used(t) \cup {p[i] : i \in 1..n}
    BY <1>3, <1>6 DEF Taken
  <1>9. \A i \in 1..n : p[i] \notin Used(t)
    BY <1>3 DEF Taken, Used
  <1>10. \A off \in Used(t) : r.all_space[off] = t.all_space[off]
    BY <1>5 DEF Taken
  <1>11. Chained(r)
    <2>1. ASSUME NEW d \in Chunks, NEW i \in 1..Len(r.parts[d]) PROVE r.parts[d][i] \in Used(r)
      BY <1>1, <1>3, <1>7, <1>8 DEF Chained
    <2>2. ASSUME NEW off \in Used(r)
          PROVE \E d \in Chunks : \E i \in 1..Len(r.parts[d]) : r.parts[d][i] = off
      <3>1. CASE off \in Used(t)
        <4>1. PICK d \in Chunks : \E i \in 1..Len(t.parts[d]) : t.parts[d][i] = off
          BY <1>1, <3>1 DEF Chained
        <4>2. d # c
          BY <4>1
        <4> QED BY <1>7, <4>1, <4>2
      <3>2. CASE off \in {p[i] : i \in 1..n}
        BY <1>3, <1>7, <3>2
      <3> QED BY <1>8, <3>1, <3>2
    <2>3. ASSUME NEW d \in Chunks, NEW e \in Chunks, NEW i \in 1..Len(r.parts[d]), NEW j \in 1..Len(r.parts[e]),
                 r.parts[d][i] = r.parts[e][j]
          PROVE  d = e /\ i = j
      <3>1. CASE d = c /\ e = c
        BY <1>7, <2>3, <3>1 DEF Taken
      <3>2. CASE d # c /\ e # c
        <4>1. r.parts[d] = t.parts[d] /\ r.parts[e] = t.parts[e]
          BY <1>7, <3>2
        <4>2. i \in 1..Len(t.parts[d]) /\ j \in 1..Len(t.parts[e]) /\ t.parts[d][i] = t.parts[e][j]
          BY <2>3, <4>1
        <4>3. Chained(t)
          BY <1>1
        <4> QED BY <4>2, <4>3 DEF Chained
      <3>3. CASE d = c /\ e # c
        <4>1. r.parts[d] = p /\ r.parts[e] = t.parts[e]
          BY <1>7, <3>3
        <4>2. r.parts[d][i] \notin Used(t)
          BY <1>3, <1>9, <2>3, <4>1
        <4>3. r.parts[e][j] \in Used(t)
          BY <1>1, <2>3, <4>1 DEF Chained
        <4> QED BY <2>3, <4>2, <4>3
      <3>4. CASE d # c /\ e = c
        <4>1. r.parts[d] = t.parts[d] /\ r.parts[e] = p
          BY <1>7, <3>4
        <4>2. r.parts[e][j] \notin Used(t)
          BY <1>3, <1>9, <2>3, <4>1
        <4>3. r.parts[d][i] \in Used(t)
          BY <1>1, <2>3, <4>1 DEF Chained
        <4> QED BY <2>3, <4>2, <4>3
      <3> QED BY <3>1, <3>2, <3>3, <3>4
    <2> QED BY <2>1, <2>2, <2>3 DEF Chained
  <1>12. Sane(r)
    <2>1. r.pending \subseteq Used(r)
      BY <1>2, <1>5, <1>8 DEF Good, Sane
    <2> QED BY <1>5, <1>6, <1>11, <2>1 DEF Sane
  <1>13. Ended(r)
    <2>1. ASSUME NEW d \in Chunks, NEW i \in 1..Len(r.parts[d])
          PROVE  r.all_space[r.parts[d][i]].status = IF i = Len(r.parts[d]) THEN "END" ELSE "PART"
      <3>1. CASE d = c
        BY <1>5, <1>7, <3>1 DEF Taken
      <3>2. CASE d # c
        <4>1. r.parts[d] = t.parts[d] /\ i \in 1..Len(t.parts[d]) /\ t.parts[d][i] \in Used(t)
          BY <1>1, <1>7, <3>2 DEF Chained
        <4>2. t.all_space[t.parts[d][i]].status = IF i = Len(t.parts[d]) THEN "END" ELSE "PART"
          BY <4>1 DEF Good, Ended
        <4>3. r.all_space[t.parts[d][i]] = t.all_space[t.parts[d][i]]
          BY <1>10, <4>1
        <4> QED BY <4>1, <4>2, <4>3
      <3> QED BY <3>1, <3>2
    <2> QED BY <2>1 DEF Ended
  <1>14. Chain(r, c) = {p[i] : i \in 1..n} /\ \A d \in Chunks : d # c => Chain(r, d) = Chain(t, d)
    BY <1>3, <1>7 DEF Chain
  <1>15. Tracked(r)
    <2>1. OnTheWay(r, c) = Chain(r, c)
      BY <1>5, <1>14 DEF OnTheWay
    <2>2. Cardinality(OnTheWay(r, c)) = n
      BY <1>3, <1>7, <1>12, <2>1, OnTheWayIs
    <2>3. OnTheWay(r, c) # {}
      <3>1. 1 \in 1..n
        BY <1>3
      <3>2. p[1] \in {p[i] : i \in 1..n}
        BY <3>1
      <3> QED BY <1>14, <2>1, <3>2
    <2>4. \A d \in Chunks : d # c => OnTheWay(r, d) = OnTheWay(t, d)
      <3>1. \A d \in Chunks : d # c => Chain(r, c) \cap Chain(r, d) = {}
        BY <1>12, OnTheWayIs
      <3> QED BY <1>2, <1>5, <1>14, <3>1 DEF OnTheWay
    <2>5. Tracked(t)
      BY DEF Good
    <2>6. r.status[c] \in Moving
      BY <1>7 DEF Moving
    <2> QED BY <1>7, <2>2, <2>3, <2>4, <2>5, <2>6 DEF Tracked
  <1>16. Listed(r)
    <2>1. Listed(t)
      BY DEF Good
    <2>2. \A d \in Chunks : r.status[d] = "NONE" <=> t.status[d] = "NONE"
      BY <1>7
    <2>3. \A d \in Chunks : r.status[d] = "NONE" => r.parts[d] = t.parts[d]
      BY <1>7
    <2> QED BY <1>2, <1>5, <2>1, <2>2, <2>3 DEF Listed
  <1>17. Accounted(r)
    <2>1. AllBytes(t) \in Int /\ AllBytes(u) \in Int
      BY <1>1, AllBytesIs
    <2>2. Accounted(u)
      BY <1>2, <2>1, AccountedBalanced DEF Good
    <2>3. Claimed(r) = Claimed(u) + Size[c]
      <3>1. \A d \in Chunks : d # c => (r.status[d] \in Claiming <=> u.status[d] \in Claiming)
        BY <1>2, <1>7
      <3>2. u.status[c] \notin Claiming /\ r.status[c] \in Claiming
        BY <1>2, <1>7 DEF Claiming
      <3> QED BY <3>1, <3>2, ClaimChange
    <2>4. PICK m \in Int : m = Size[c]
      BY ChunkSizes
    <2>5. Claimed(u) \in Int /\ u.swapFree \in Int
      <3>1. Claimed(u) \in Int
        BY ClaimIs
      <3>2. u.swapFree \in Int
        BY <1>1, SwapFreeIs
      <3> QED BY <3>1, <3>2
    <2>6. AllBytes(r) - Claimed(r) = AllBytes(u) - Claimed(u) + (-m)
      BY <1>6, <2>1, <2>3, <2>4, <2>5
    <2>7. r.swapFree = Wrap(u.swapFree + (-m))
      <3>1. u.swapFree - Size[c] = u.swapFree + (-m)
        BY <2>4, <2>5
      <3> QED BY <1>5, <3>1
    <2>8. -m \in Int /\ AllBytes(r) \in Int
      BY <1>6, <2>1, <2>4
    <2> QED BY <2>1, <2>2, <2>6, <2>7, <2>8, AccountedMore
  <1>18. Whole(r, del)
    <2>1. ASSUME NEW d \in Chunks \ del, r.status[d] \in Claiming \/ r.parts[d] # <<>>
          PROVE  Held(r, d) = Size[d]
      <3>1. CASE d = c
        <4>1. Held(r, c) = SumOver(Sizes(r), Chain(r, c))
          BY <1>5, <1>6, <1>11, HeldIs
        <4>2. Sizes(r) = Sizes(u)
          BY <1>5 DEF Sizes, LocationSize
        <4> QED BY <1>3, <1>14, <3>1, <4>1, <4>2 DEF Taken
      <3>2. CASE d # c
        <4>1. r.parts[d] = t.parts[d] /\ r.status[d] = t.status[d]
          BY <1>7, <3>2
        <4>2. \A off \in Chain(t, d) : r.all_space[off] = t.all_space[off]
          BY <1>1, <1>10, ChainIs
        <4>3. Held(r, d) = Held(t, d)
          BY <1>1, <1>5, <1>6, <1>11, <4>1, <4>2, HeldSame
        <4> QED BY <2>1, <4>1, <4>3 DEF Good, Whole
      <3> QED BY <3>1, <3>2
    <2> QED BY <2>1 DEF Whole
  <1>19. Waiting(r, del)
    <2>1. Waiting(t, del) /\ del \subseteq Chunks
      BY DEF Good
    <2>2. \A d \in del : r.status[d] = t.status[d] /\ r.parts[d] = t.parts[d]
      BY <1>7, <2>1
    <2> QED BY <2>1, <2>2 DEF Waiting
  <1>20. r.thrown # "past the end" /\ del \subseteq Chunks
    BY <1>2, <1>5 DEF Good
  <1> QED BY <1>12, <1>13, <1>15, <1>16, <1>17, <1>18, <1>19, <1>20 DEF Good

\* An exception thrown for a chunk leaves the rest of the state alone.
LEMMA ThrownGood ==
    ASSUME NEW s, NEW del, Good(s, del), NEW c \in Chunks
    PROVE  Good([s EXCEPT !.thrown = c], del)
  <1>1. PICK r : r = [s EXCEPT !.thrown = c]
    OBVIOUS
  <1>2. s \in SwapType /\ Sane(s)
    BY DEF Good, Sane
  <1>3. /\ r \in SwapType /\ r.all_space = s.all_space /\ r.free_space = s.free_space
        /\ r.swapSize = s.swapSize /\ r.layout = s.layout /\ r.parts = s.parts /\ r.pending = s.pending
        /\ r.tracker = s.tracker /\ r.status = s.status /\ r.memChunks = s.memChunks
        /\ r.swapFree = s.swapFree /\ r.thrown = c
    BY <1>1, <1>2 DEF SwapType
  <1>4. /\ Sane(r) /\ AllBytes(r) = AllBytes(s) /\ Ended(r)
        /\ \A d \in Chunks : Chain(r, d) = Chain(s, d) /\ Held(r, d) = Held(s, d)
    BY <1>2, <1>3, SameChains DEF Good, Sane
  <1>5. Tracked(r)
    <2>1. \A d \in Chunks : OnTheWay(r, d) = OnTheWay(s, d)
      BY <1>3, <1>4 DEF OnTheWay
    <2> QED BY <1>3, <2>1 DEF Good, Tracked
  <1>6. Listed(r)
    <2>1. Listed(s)
      BY DEF Good
    <2> QED BY <1>3, <2>1 DEF Listed
  <1>7. Accounted(r)
    <2>1. Claim(r) = Claim(s)
      BY <1>3 DEF Claim
    <2>2. Claimed(r) = Claimed(s)
      BY <2>1 DEF Claimed
    <2> QED BY <1>3, <1>4, <2>2 DEF Good, Accounted
  <1>8. Whole(r, del) /\ Waiting(r, del)
    BY <1>3, <1>4 DEF Good, Whole, Waiting
  <1>9. r.thrown # "past the end"
    BY <1>3, NamesAssumption
  <1> QED BY <1>1, <1>4, <1>5, <1>6, <1>7, <1>8, <1>9 DEF Good

\* A chunk whose status alone changes, with what it claims.
LEMMA RelabelGood ==
    ASSUME NEW s, NEW del, Good(s, del), NEW c \in Chunks, c \notin del,
           s.status[c] = "ALLOCATED", s.parts[c] # <<>>
    PROVE  Good([s EXCEPT !.status[c] = "SWAPPED", !.swapFree = Wrap(@ - Size[c])], del)
  <1>1. PICK m \in Int : m = Size[c]
    BY ConstantsAssumption
  <1>2. PICK r : r = [s EXCEPT !.status = [s.status EXCEPT ![c] = "SWAPPED"],
                               !.swapFree = Wrap(s.swapFree + (-m))]
    OBVIOUS
  <1>3. s \in SwapType /\ Sane(s) /\ Tiled(s) /\ s.swapFree \in Int
    BY SwapFreeIs DEF Good, Sane
  <1>4. r = [s EXCEPT !.status[c] = "SWAPPED", !.swapFree = Wrap(@ - Size[c])]
    <2>1. s.swapFree - Size[c] = s.swapFree + (-m)
      BY <1>1, <1>3
    <2> QED BY <1>2, <2>1
  <1>5. s.status \in [Chunks -> Statuses] /\ "SWAPPED" \in Statuses
    BY <1>3, FieldsAre DEF Statuses
  <1>6. Wrap(s.swapFree + (-m)) \in 0..(2^Width - 1)
    <2>1. s.swapFree + (-m) \in Int
      BY <1>1, <1>3
    <2> QED BY <2>1, WrapIs
  <1>7. /\ r \in SwapType /\ r.all_space = s.all_space /\ r.free_space = s.free_space
        /\ r.swapSize = s.swapSize /\ r.layout = s.layout /\ r.parts = s.parts /\ r.pending = s.pending
        /\ r.tracker = s.tracker /\ r.memChunks = s.memChunks /\ r.thrown = s.thrown
        /\ r.status = [s.status EXCEPT ![c] = "SWAPPED"] /\ r.swapFree = Wrap(s.swapFree + (-m))
    BY <1>2, <1>3, <1>5, <1>6 DEF SwapType
  <1>8. r.status[c] = "SWAPPED" /\ \A d \in Chunks : d # c => r.status[d] = s.status[d]
    BY <1>5, <1>7
  <1>9. \A d \in Chunks : OnTheWay(r, d) = OnTheWay(s, d)
    BY <1>7 DEF OnTheWay, Chain
  <1>10. AllBytes(r) = AllBytes(s) /\ AllBytes(s) \in Int
    BY <1>3, <1>7, SameSpace, AllBytesIs
  <1>11. Accounted(r)
    <2>1. Claimed(r) = Claimed(s) + Size[c]
      <3>1. s.status[c] \notin Claiming /\ r.status[c] \in Claiming
        BY <1>8 DEF Claiming
      <3> QED BY <1>8, <3>1, ClaimChange
    <2>2. Claimed(s) \in Int
      BY ClaimIs
    <2>3. AllBytes(r) - Claimed(r) = AllBytes(s) - Claimed(s) + (-m)
      BY <1>1, <1>10, <2>1, <2>2
    <2>4. -m \in Int
      BY <1>1
    <2> QED BY <1>7, <1>10, <2>3, <2>4, AccountedMore DEF Good
  <1>12. r.tracker[c] = Cardinality(OnTheWay(r, c)) /\ (r.status[c] \in Moving <=> OnTheWay(r, c) # {})
    <2>1. s.status[c] \notin Moving /\ r.status[c] \notin Moving
      BY <1>8 DEF Moving
    <2>2. s.tracker[c] = Cardinality(OnTheWay(s, c)) /\ OnTheWay(s, c) = {}
      BY <2>1 DEF Good, Tracked
    <2> QED BY <1>7, <1>9, <2>1, <2>2
  <1>13. Held(s, c) = Size[c]
    BY DEF Good, Whole
  <1>14. r.pending \subseteq Used(s)
    BY <1>3, <1>7 DEF Sane
  <1>15. s.status[c] # "NONE" /\ r.status[c] # "NONE"
    BY <1>8
  <1>16. \A d \in Chunks : d # c => /\ r.status[d] = s.status[d] /\ r.tracker[d] = s.tracker[d]
                                   /\ OnTheWay(r, d) = OnTheWay(s, d)
    BY <1>7, <1>8, <1>9
  <1>17. Good(r, del)
    <2>1. c \notin del /\ (r.status[c] \in Claiming \/ r.parts[c] # <<>>) => Held(s, c) = Size[c]
      BY <1>13
    <2>2. c \in del => r.status[c] \in {"SWAPOUT", "SWAPPED"}
      BY <1>8
    <2> HIDE DEF Moving, Claiming
    <2> QED BY <1>7, <1>11, <1>12, <1>14, <1>15, <1>16, <2>1, <2>2, StatusGood
  <1> QED BY <1>4, <1>17

\* Swapping a chunk out keeps the invariant: for want of space nothing has happened to it, a
\* page copy is claimed again, or its new locations are on their way.
LEMMA UnloadGood ==
    ASSUME NEW s, NEW del, Good(s, del), NEW c \in Chunks, c \notin del, s.status[c] = "ALLOCATED"
    PROVE  Good(UnloadChunk(s, c), del)
  <1>1. PICK x : x = Pfmalloc(s, c)
    OBVIOUS
  <1>2. UnloadChunk(s, c) =
           IF Size[c] > s.swapFree THEN s
           ELSE IF s.parts[c] # <<>>
           THEN [s EXCEPT !.status[c] = "SWAPPED", !.swapFree = Wrap(@ - Size[c])]
           ELSE IF x.parts = <<>> THEN x.s
           ELSE CopyMem([x.s EXCEPT !.parts[c] = x.parts, !.status[c] = "SWAPOUT", !.swapFree = Wrap(@ - Size[c])], c)
    BY <1>1 DEF UnloadChunk
  <1>3. CASE Size[c] > s.swapFree
    BY <1>2, <1>3
  <1>4. CASE ~(Size[c] > s.swapFree) /\ s.parts[c] # <<>>
    BY <1>2, <1>4, RelabelGood
  <1>5. CASE ~(Size[c] > s.swapFree) /\ s.parts[c] = <<>>
    <2>1. PfmallocEnds(s, x, c)
      BY <1>1, GoodCopies, PfmallocIs DEF Good
    <2>2. PICK K, t : /\ Cleaned(s, t, K)
                      /\ \/ x.parts = <<>> /\ (x.s = t \/ x.s = [t EXCEPT !.thrown = c])
                         \/ Taken(t, x.s, x.parts, c)
      BY <2>1 DEF PfmallocEnds
    <2>3. Good(t, del)
      BY <2>2, CleanedGood
    <2>4. t.status[c] = "ALLOCATED" /\ t.parts[c] = <<>>
      BY <1>5, <2>2 DEF Cleaned, Alike
    <2>5. CASE x.parts = <<>>
      <3>1. UnloadChunk(s, c) = x.s
        BY <1>2, <1>5, <2>5
      <3>2. ~Taken(t, x.s, x.parts, c)
        <4>1. SUFFICES ASSUME Taken(t, x.s, x.parts, c) PROVE FALSE
          OBVIOUS
        <4>2. {x.parts[i] : i \in 1..Len(x.parts)} = {}
          BY <2>5
        <4>3. SumOver(Sizes(x.s), {}) = Size[c]
          BY <4>1, <4>2 DEF Taken
        <4> QED BY <4>3, SumEmpty, ConstantsAssumption
      <3> QED BY <2>2, <2>3, <3>1, <3>2, ThrownGood
    <2>6. CASE x.parts # <<>>
      <3>1. UnloadChunk(s, c) = CopyMem([x.s EXCEPT !.parts[c] = x.parts, !.status[c] = "SWAPOUT",
                                                   !.swapFree = Wrap(@ - Size[c])], c)
        BY <1>2, <1>5, <2>6
      <3>2. Taken(t, x.s, x.parts, c)
        BY <2>2, <2>6
      <3> QED BY <2>3, <2>4, <2>6, <3>1, <3>2, TakenGood
    <2> QED BY <2>5, <2>6
  <1> QED BY <1>3, <1>4, <1>5

\* Swapping a chunk in keeps the invariant.
LEMMA LoadGood ==
    ASSUME NEW s, NEW del, Good(s, del), NEW c \in Chunks, c \notin del, s.status[c] = "SWAPPED"
    PROVE  Good(LoadChunk(s, c), del)
  <1>1. s \in SwapType /\ Sane(s) /\ Tiled(s) /\ Chained(s)
    BY DEF Good, Sane
  <1>2. s.tracker \in [Chunks -> Int] /\ s.status \in [Chunks -> Statuses]
    BY <1>1, FieldsAre
  <1>3. s.pending \in SUBSET Nat /\ "SWAPIN" \in Statuses
    BY <1>1, FieldsAre DEF Statuses
  <1>4. PICK n \in Nat : n = Len(s.parts[c])
    BY <1>1, PartsAre
  <1>5. Chain(s, c) = ToSet(s.parts[c]) /\ Chain(s, c) \subseteq Used(s) /\ Chain(s, c) \in SUBSET Nat
    <2>1. \A i \in 1..Len(s.parts[c]) : s.parts[c][i] \in Nat
      BY <1>1, PartsAre
    <2> QED BY <1>1, <2>1, ChainIs DEF Chain
  <1>6. PICK r : r = [s EXCEPT !.status = [s.status EXCEPT ![c] = "SWAPIN"],
                               !.pending = s.pending \cup Chain(s, c),
                               !.tracker = [s.tracker EXCEPT ![c] = n]]
    OBVIOUS
  <1>7. r = LoadChunk(s, c)
    <2>1. PICK w : w = [s EXCEPT !.status[c] = "SWAPIN"]
      OBVIOUS
    <2>2. w.parts = s.parts /\ w.pending = s.pending /\ w.tracker = s.tracker
      BY <1>1, <2>1 DEF SwapType
    <2>3. LoadChunk(s, c) = [w EXCEPT !.pending = s.pending \cup Chain(s, c),
                                      !.tracker = [s.tracker EXCEPT ![c] = n]]
      BY <1>4, <1>5, <2>1, <2>2 DEF LoadChunk, CopyMem
    <2> QED BY <1>1, <1>6, <2>1, <2>3 DEF SwapType
  <1>8. /\ r \in SwapType /\ r.all_space = s.all_space /\ r.free_space = s.free_space
        /\ r.swapSize = s.swapSize /\ r.layout = s.layout /\ r.parts = s.parts
        /\ r.memChunks = s.memChunks /\ r.thrown = s.thrown /\ r.swapFree = s.swapFree
        /\ r.status = [s.status EXCEPT ![c] = "SWAPIN"] /\ r.pending = s.pending \cup Chain(s, c)
        /\ r.tracker = [s.tracker EXCEPT ![c] = n]
    <2>1. [s.status EXCEPT ![c] = "SWAPIN"] \in [Chunks -> Statuses]
      BY <1>2, <1>3
    <2>2. [s.tracker EXCEPT ![c] = n] \in [Chunks -> Int]
      BY <1>2
    <2>3. s.pending \cup Chain(s, c) \in SUBSET Nat
      BY <1>3, <1>5
    <2> QED BY <1>1, <1>6, <2>1, <2>2, <2>3 DEF SwapType
  <1>9. /\ r.status[c] = "SWAPIN" /\ r.tracker[c] = n
        /\ \A d \in Chunks : d # c => r.status[d] = s.status[d] /\ r.tracker[d] = s.tracker[d]
    BY <1>2, <1>8
  <1>10. \A d \in Chunks : Chain(r, d) = Chain(s, d)
    BY <1>8 DEF Chain
  <1>11. \A d \in Chunks : d # c => OnTheWay(r, d) = OnTheWay(s, d)
    <2>1. \A d \in Chunks : d # c => Chain(s, c) \cap Chain(s, d) = {}
      BY <1>1, OnTheWayIs
    <2> QED BY <1>8, <1>10, <2>1 DEF OnTheWay
  <1>12. OnTheWay(r, c) = Chain(s, c)
    BY <1>8, <1>10 DEF OnTheWay
  <1>13. Cardinality(Chain(s, c)) = n
    BY <1>1, <1>4, OnTheWayIs
  <1>14. Held(s, c) = Size[c]
    BY DEF Good, Whole, Claiming
  <1>15. OnTheWay(r, c) # {}
    <2>1. s.parts[c] # <<>>
      BY <1>1, <1>14, HoldsSome
    <2> QED BY <1>1, <1>12, <2>1, ChainIs
  <1>16. Accounted(r)
    <2>1. \A d \in Chunks : r.status[d] \in Claiming <=> s.status[d] \in Claiming
      BY <1>9 DEF Claiming
    <2>2. Claimed(r) = Claimed(s)
      BY <2>1, ClaimSame
    <2>3. AllBytes(r) = AllBytes(s)
      BY <1>8, SameSpace
    <2> QED BY <1>8, <2>2, <2>3 DEF Good, Accounted
  <1>17. r.pending \subseteq Used(s)
    BY <1>1, <1>5, <1>8 DEF Sane
  <1>18. Good(r, del)
    <2>1. \A d \in Chunks : d # c => /\ r.status[d] = s.status[d] /\ r.tracker[d] = s.tracker[d]
                                     /\ OnTheWay(r, d) = OnTheWay(s, d)
      BY <1>9, <1>11
    <2>2. r.tracker[c] = Cardinality(OnTheWay(r, c)) /\ (r.status[c] \in Moving <=> OnTheWay(r, c) # {})
      BY <1>9, <1>12, <1>13, <1>15 DEF Moving
    <2>3. s.status[c] # "NONE" /\ r.status[c] # "NONE"
      BY <1>9
    <2>4. c \notin del /\ (r.status[c] \in Claiming \/ r.parts[c] # <<>>) => Held(s, c) = Size[c]
      BY <1>14
    <2>5. c \in del => r.status[c] \in {"SWAPOUT", "SWAPPED"}
      OBVIOUS
    <2> HIDE DEF Moving, Claiming
    <2> QED BY <1>8, <1>16, <1>17, <2>1, <2>2, <2>3, <2>4, <2>5, StatusGood
  <1> QED BY <1>7, <1>18

\* One location less on its way.
LEMMA OneArrived ==
    ASSUME NEW s, Sane(s), Tracked(s), NEW c \in Chunks, NEW off \in OnTheWay(s, c),
           NEW r, r.parts = s.parts, r.pending = s.pending \ {off}
    PROVE  /\ OnTheWay(r, c) = OnTheWay(s, c) \ {off}
           /\ Cardinality(OnTheWay(r, c)) = s.tracker[c] - 1
           /\ s.tracker[c] = 1 <=> OnTheWay(r, c) = {}
           /\ \A d \in Chunks : d # c => OnTheWay(r, d) = OnTheWay(s, d)
  <1>1. \A d \in Chunks : Chain(r, d) = Chain(s, d)
    BY DEF Chain
  <1>2. OnTheWay(r, c) = OnTheWay(s, c) \ {off}
    BY <1>1 DEF OnTheWay
  <1>3. /\ IsFiniteSet(OnTheWay(s, c)) /\ Cardinality(OnTheWay(s, c)) \in Nat
        /\ Cardinality(OnTheWay(s, c)) = s.tracker[c]
    <2>1. IsFiniteSet(OnTheWay(s, c)) /\ Cardinality(OnTheWay(s, c)) \in Nat
      BY OnTheWayIs
    <2> QED BY <2>1 DEF Tracked
  <1>4. Cardinality(OnTheWay(s, c) \ {off}) = Cardinality(OnTheWay(s, c)) - 1
    BY <1>3, FS_RemoveElement
  <1>5. IsFiniteSet(OnTheWay(r, c)) /\ (Cardinality(OnTheWay(r, c)) = 0 <=> OnTheWay(r, c) = {})
    <2>1. IsFiniteSet(OnTheWay(s, c) \ {off})
      BY <1>3, FS_RemoveElement
    <2> QED BY <1>2, <2>1, FS_EmptySet
  <1>6. \A d \in Chunks : d # c => OnTheWay(r, d) = OnTheWay(s, d)
    <2>1. ASSUME NEW d \in Chunks, d # c PROVE off \notin Chain(s, d)
      <3>1. Chain(s, c) \cap Chain(s, d) = {}
        BY <2>1, OnTheWayIs
      <3>2. off \in Chain(s, c)
        BY DEF OnTheWay
      <3> QED BY <3>1, <3>2
    <2> QED BY <1>1, <2>1 DEF OnTheWay
  <1>7. s.tracker[c] = 1 <=> OnTheWay(r, c) = {}
    <2>1. PICK n \in Nat : n = s.tracker[c]
      BY <1>3
    <2> QED BY <1>2, <1>3, <1>4, <1>5, <2>1
  <1> QED BY <1>2, <1>3, <1>4, <1>6, <1>7

\* The arrival of a location keeps the invariant, whether others are on their way or not.
LEMMA ArriveGood ==
    ASSUME NEW s, NEW del, Good(s, del), NEW c \in Chunks, NEW off \in ToSet(s.parts[c]) \cap s.pending
    PROVE  Good(AsyncIoArrived(s, c, off), del)
  <1>1. s \in SwapType /\ Sane(s) /\ Tiled(s) /\ Chained(s) /\ Tracked(s)
    BY DEF Good, Sane
  <1>2. off \in OnTheWay(s, c)
    BY <1>1, ChainIs DEF OnTheWay
  <1>3. s.tracker \in [Chunks -> Int] /\ s.status \in [Chunks -> Statuses] /\ s.pending \in SUBSET Nat
    BY <1>1, FieldsAre
  <1>4. "ALLOCATED" \in Statuses /\ "SWAPPED" \in Statuses
    BY DEF Statuses
  <1>5. PICK a : a = [s EXCEPT !.pending = s.pending \ {off}, !.tracker = [s.tracker EXCEPT ![c] = s.tracker[c] - 1]]
    OBVIOUS
  <1>6. AsyncIoArrived(s, c, off) = IF s.tracker[c] = 1 THEN CompleteTransactionOn(a, c) ELSE a
    BY <1>5 DEF AsyncIoArrived
  <1>7. /\ a \in SwapType /\ a.all_space = s.all_space /\ a.free_space = s.free_space
        /\ a.swapSize = s.swapSize /\ a.layout = s.layout /\ a.parts = s.parts
        /\ a.memChunks = s.memChunks /\ a.thrown = s.thrown /\ a.swapFree = s.swapFree
        /\ a.status = s.status /\ a.pending = s.pending \ {off}
        /\ a.tracker = [s.tracker EXCEPT ![c] = s.tracker[c] - 1]
    <2>1. [s.tracker EXCEPT ![c] = s.tracker[c] - 1] \in [Chunks -> Int]
      <3>1. s.tracker[c] - 1 \in Int
        BY <1>3
      <3> QED BY <1>3, <3>1
    <2>2. s.pending \ {off} \in SUBSET Nat
      BY <1>3
    <2> QED BY <1>1, <1>5, <2>1, <2>2 DEF SwapType
  <1>8. a.tracker[c] = s.tracker[c] - 1 /\ \A d \in Chunks : d # c => a.tracker[d] = s.tracker[d]
    BY <1>3, <1>7
  <1>9. s.status[c] \in {"SWAPOUT", "SWAPIN"} /\ s.parts[c] # <<>>
    <2>1. OnTheWay(s, c) # {}
      BY <1>2
    <2>2. Chain(s, c) # {}
      BY <1>2 DEF OnTheWay
    <2> QED BY <1>1, <2>1, <2>2, ChainIs DEF Tracked, Moving
  <1>10. c \notin del => Held(s, c) = Size[c]
    BY <1>9 DEF Good, Whole, Claiming
  <1>11. c \in del => s.status[c] = "SWAPOUT"
    <2>1. c \in del => s.status[c] \in {"SWAPOUT", "SWAPPED"}
      BY DEF Good, Waiting
    <2> QED BY <1>9, <2>1
  <1>12. a.pending \subseteq Used(s)
    BY <1>1, <1>7 DEF Sane
  <1>13. AllBytes(a) = AllBytes(s) /\ AllBytes(s) \in Int
    BY <1>1, <1>7, SameSpace, AllBytesIs
  <1>14. CASE s.tracker[c] # 1
    <2>1. /\ Cardinality(OnTheWay(a, c)) = a.tracker[c] /\ OnTheWay(a, c) # {}
          /\ \A d \in Chunks : d # c => OnTheWay(a, d) = OnTheWay(s, d)
      BY <1>1, <1>2, <1>7, <1>8, <1>14, OneArrived
    <2>2. Accounted(a)
      <3>1. Claim(a) = Claim(s)
        BY <1>7 DEF Claim
      <3>2. Claimed(a) = Claimed(s)
        BY <3>1 DEF Claimed
      <3> QED BY <1>7, <1>13, <3>2 DEF Good, Accounted
    <2>3. \A d \in Chunks : d # c => /\ a.status[d] = s.status[d] /\ a.tracker[d] = s.tracker[d]
                                     /\ OnTheWay(a, d) = OnTheWay(s, d)
      BY <1>7, <1>8, <2>1
    <2>4. a.tracker[c] = Cardinality(OnTheWay(a, c)) /\ (a.status[c] \in Moving <=> OnTheWay(a, c) # {})
      BY <1>7, <1>9, <2>1 DEF Moving
    <2>5. s.status[c] # "NONE" /\ a.status[c] # "NONE"
      BY <1>7, <1>9
    <2>6. c \in del => a.status[c] \in {"SWAPOUT", "SWAPPED"}
      BY <1>7, <1>11
    <2>7. c \notin del /\ (a.status[c] \in Claiming \/ a.parts[c] # <<>>) => Held(s, c) = Size[c]
      BY <1>10
    <2>8. Good(a, del)
      <3> HIDE DEF Moving, Claiming
      <3> QED BY <1>7, <1>12, <2>2, <2>3, <2>4, <2>5, <2>6, <2>7, StatusGood
    <2> QED BY <1>6, <1>14, <2>8
  <1>15. CASE s.tracker[c] = 1
    <2>1. PICK m \in Int : m = IF s.status[c] = "SWAPIN" THEN Size[c] ELSE 0
      BY ConstantsAssumption
    <2>2. PICK x : x = IF s.status[c] = "SWAPIN" THEN "ALLOCATED" ELSE "SWAPPED"
      OBVIOUS
    <2>3. PICK r : r = [a EXCEPT !.status = [s.status EXCEPT ![c] = x], !.swapFree = Wrap(s.swapFree + m)]
      OBVIOUS
    <2>4. s.swapFree \in Int /\ Wrap(s.swapFree) = s.swapFree
      BY <1>1, SwapFreeIs
    <2>5. s.status[c] # "SWAPIN" => Wrap(s.swapFree + m) = s.swapFree
      <3>1. s.status[c] # "SWAPIN" => s.swapFree + m = s.swapFree
        BY <2>1, <2>4
      <3> QED BY <2>4, <3>1
    <2>6. CompleteTransactionOn(a, c) = r
      <3>1. CASE s.status[c] = "SWAPIN"
        <4>1. CompleteTransactionOn(a, c) = [a EXCEPT !.status[c] = "ALLOCATED", !.swapFree = Wrap(@ + Size[c])]
          BY <1>7, <3>1 DEF CompleteTransactionOn
        <4> QED BY <1>7, <2>1, <2>2, <2>3, <3>1, <4>1
      <3>2. CASE s.status[c] # "SWAPIN"
        <4>1. CompleteTransactionOn(a, c) = [a EXCEPT !.status[c] = "SWAPPED"]
          BY <1>7, <3>2 DEF CompleteTransactionOn
        <4>2. r = [a EXCEPT !.status = [s.status EXCEPT ![c] = "SWAPPED"], !.swapFree = a.swapFree]
          BY <1>7, <2>2, <2>3, <2>5, <3>2
        <4>3. r = [a EXCEPT !.status = [s.status EXCEPT ![c] = "SWAPPED"]]
          BY <1>7, <4>2 DEF SwapType
        <4> QED BY <1>7, <4>1, <4>3
      <3> QED BY <3>1, <3>2
    <2>7. /\ r \in SwapType /\ r.all_space = s.all_space /\ r.free_space = s.free_space
          /\ r.swapSize = s.swapSize /\ r.layout = s.layout /\ r.parts = s.parts
          /\ r.memChunks = s.memChunks /\ r.thrown = s.thrown /\ r.swapFree = Wrap(s.swapFree + m)
          /\ r.status = [s.status EXCEPT ![c] = x] /\ r.pending = s.pending \ {off}
          /\ r.tracker = a.tracker
      <3>1. [s.status EXCEPT ![c] = x] \in [Chunks -> Statuses]
        BY <1>3, <1>4, <2>2
      <3>2. Wrap(s.swapFree + m) \in 0..(2^Width - 1)
        <4>1. s.swapFree + m \in Int
          BY <2>1, <2>4
        <4> QED BY <4>1, WrapIs
      <3> QED BY <1>7, <2>3, <3>1, <3>2 DEF SwapType
    <2>8. r.status[c] = x /\ \A d \in Chunks : d # c => r.status[d] = s.status[d]
      BY <1>3, <2>7
    <2>9. /\ Cardinality(OnTheWay(r, c)) = r.tracker[c] /\ OnTheWay(r, c) = {}
          /\ \A d \in Chunks : d # c => OnTheWay(r, d) = OnTheWay(s, d)
      <3>1. /\ Cardinality(OnTheWay(r, c)) = s.tracker[c] - 1 /\ OnTheWay(r, c) = {}
            /\ \A d \in Chunks : d # c => OnTheWay(r, d) = OnTheWay(s, d)
        BY <1>1, <1>2, <1>15, <2>7, OneArrived
      <3> QED BY <1>8, <2>7, <3>1
    <2>10. Accounted(r)
      <3>1. AllBytes(r) = AllBytes(s)
        BY <2>7, SameSpace
      <3>2. Claimed(s) \in Int
        BY ClaimIs
      <3>3. Claimed(r) = Claimed(s) - m
        <4>1. CASE s.status[c] = "SWAPIN"
          <5>1. s.status[c] \in Claiming /\ r.status[c] \notin Claiming
            BY <2>2, <2>8, <4>1 DEF Claiming
          <5> QED BY <2>1, <2>8, <4>1, <5>1, ClaimChange
        <4>2. CASE s.status[c] # "SWAPIN"
          <5>1. \A d \in Chunks : r.status[d] \in Claiming <=> s.status[d] \in Claiming
            BY <1>9, <2>2, <2>8, <4>2 DEF Claiming
          <5>2. Claimed(r) = Claimed(s)
            BY <5>1, ClaimSame
          <5> QED BY <2>1, <3>2, <4>2, <5>2
        <4> QED BY <4>1, <4>2
      <3>4. AllBytes(r) - Claimed(r) = AllBytes(s) - Claimed(s) + m
        BY <1>13, <2>1, <3>1, <3>2, <3>3
      <3> QED BY <1>13, <2>1, <2>7, <3>1, <3>4, AccountedMore DEF Good
    <2>11. \A d \in Chunks : d # c => /\ r.status[d] = s.status[d] /\ r.tracker[d] = s.tracker[d]
                                      /\ OnTheWay(r, d) = OnTheWay(s, d)
      BY <1>8, <2>7, <2>8, <2>9
    <2>12. r.tracker[c] = Cardinality(OnTheWay(r, c)) /\ (r.status[c] \in Moving <=> OnTheWay(r, c) # {})
      BY <2>2, <2>8, <2>9 DEF Moving
    <2>13. s.status[c] # "NONE" /\ r.status[c] # "NONE"
      BY <1>9, <2>2, <2>8
    <2>14. c \in del => r.status[c] \in {"SWAPOUT", "SWAPPED"}
      BY <1>11, <2>2, <2>8
    <2>15. c \notin del /\ (r.status[c] \in Claiming \/ r.parts[c] # <<>>) => Held(s, c) = Size[c]
      BY <1>10
    <2>16. r.pending \subseteq Used(s)
      BY <1>7, <1>12, <2>7
    <2>17. Good(r, del)
      <3> HIDE DEF Moving, Claiming
      <3> QED BY <2>7, <2>10, <2>11, <2>12, <2>13, <2>14, <2>15, <2>16, StatusGood
    <2> QED BY <1>6, <1>15, <2>6, <2>17
  <1> QED BY <1>14, <1>15

-----------------------------------------------------------------------------
(* Deletion *)

\* While the locations of a chunk are given back, the rest of the state keeps its invariant.
LEMMA GivenGood ==
    ASSUME NEW s, NEW del, Good(s, del), NEW c \in Chunks, NEW j \in 0..Len(s.parts[c]),
           NEW t, Given(s, t, c, j)
    PROVE  /\ Sane(t) /\ Ended(t) /\ Tracked(t) /\ Listed(t) /\ Accounted(t) /\ Alike(s, t)
           /\ Whole(t, del \cup {c}) /\ Waiting(t, del \ {c})
           /\ OnTheWay(t, c) = OnTheWay(s, c)
  <1>1. s \in SwapType /\ Sane(s) /\ Tiled(s) /\ Chained(s)
    BY DEF Good, Sane
  <1>2. t \in SwapType /\ Sane(t) /\ Tiled(t) /\ Chained(t)
    BY DEF Given, Sane
  <1>3. /\ Alike(s, t) /\ t.pending = s.pending /\ t.tracker = s.tracker /\ t.status = s.status
        /\ t.memChunks = s.memChunks /\ \A d \in Chunks : d # c => t.parts[d] = s.parts[d]
    BY DEF Given, Alike
  <1>4. PICK n \in Nat : n = Len(s.parts[c]) /\ j \in 0..n
    BY <1>1, PartsAre
  <1>5. PICK m \in Nat : m = Len(t.parts[c])
    BY <1>2, PartsAre
  <1>6. /\ m = n - j
        /\ \A i \in 1..m : t.parts[c][i] = s.parts[c][i + j]
        /\ \A i \in 1..j : s.parts[c][i] \notin s.pending
    BY <1>4, <1>5 DEF Given
  <1>7. \A off \in Used(t) : off \in Used(s) /\ t.all_space[off] = s.all_space[off]
    BY DEF Given
  <1>8. Ended(t)
    <2>1. ASSUME NEW d \in Chunks, NEW i \in 1..Len(t.parts[d])
          PROVE  t.all_space[t.parts[d][i]].status = IF i = Len(t.parts[d]) THEN "END" ELSE "PART"
      <3>1. t.all_space[t.parts[d][i]] = s.all_space[t.parts[d][i]]
        <4>1. t.parts[d][i] \in Used(t)
          BY <1>2 DEF Chained
        <4> QED BY <1>7, <4>1
      <3>2. CASE d = c
        <4>1. i \in 1..m /\ i + j \in 1..n /\ (i = m <=> i + j = n)
          <5>1. i \in 1..m /\ m = n - j /\ j \in 0..n
            BY <1>4, <1>5, <1>6, <3>2
          <5> QED BY <5>1
        <4>2. s.all_space[s.parts[c][i + j]].status = IF i + j = n THEN "END" ELSE "PART"
          BY <1>4, <4>1 DEF Good, Ended
        <4>3. t.parts[c][i] = s.parts[c][i + j]
          BY <1>6, <4>1
        <4> QED BY <1>5, <3>1, <3>2, <4>1, <4>2, <4>3
      <3>3. CASE d # c
        <4>1. t.parts[d] = s.parts[d]
          BY <1>3, <3>3
        <4>2. s.all_space[s.parts[d][i]].status = IF i = Len(s.parts[d]) THEN "END" ELSE "PART"
          BY <4>1 DEF Good, Ended
        <4> QED BY <3>1, <4>1, <4>2
      <3> QED BY <3>2, <3>3
    <2> QED BY <2>1 DEF Ended
  <1>9. OnTheWay(t, c) = OnTheWay(s, c)
    <2>1. ASSUME NEW off \in OnTheWay(t, c) PROVE off \in OnTheWay(s, c)
      <3>1. PICK i \in 1..m : off = t.parts[c][i]
        BY <1>5 DEF OnTheWay, Chain
      <3>2. off = s.parts[c][i + j] /\ i + j \in 1..n
        BY <1>4, <1>6, <3>1
      <3>3. off \in s.pending
        BY <1>3 DEF OnTheWay
      <3> QED BY <1>4, <3>2, <3>3 DEF OnTheWay, Chain
    <2>2. ASSUME NEW off \in OnTheWay(s, c) PROVE off \in OnTheWay(t, c)
      <3>1. PICK i \in 1..n : off = s.parts[c][i]
        BY <1>4 DEF OnTheWay, Chain
      <3>2. off \in s.pending
        BY DEF OnTheWay
      <3>3. i \notin 1..j
        BY <1>6, <3>1, <3>2
      <3>4. i - j \in 1..m /\ (i - j) + j = i
        BY <1>4, <1>6, <3>1, <3>3
      <3>5. t.parts[c][i - j] = off
        BY <1>6, <3>1, <3>4
      <3> QED BY <1>3, <1>5, <3>2, <3>4, <3>5 DEF OnTheWay, Chain
    <2> QED BY <2>1, <2>2
  <1>10. Tracked(t)
    <2>1. \A d \in Chunks : d # c => OnTheWay(t, d) = OnTheWay(s, d)
      BY <1>3 DEF OnTheWay, Chain
    <2>2. Tracked(s)
      BY DEF Good
    <2> QED BY <1>3, <1>9, <2>1, <2>2 DEF Tracked
  <1>11. Listed(t)
    <2>1. Listed(s)
      BY DEF Good
    <2>2. s.parts[c] = <<>> => t.parts[c] = <<>>
      <3>1. s.parts[c] = <<>> => n = 0
        BY <1>4
      <3>2. n = 0 => m = 0
        <4>1. PICK y \in 0..n : y = j
          BY <1>4
        <4>2. PICK x \in Nat : x = n
          OBVIOUS
        <4>3. m = x - y /\ y \in 0..x
          BY <1>6, <4>1, <4>2
        <4>4. ASSUME x = 0 PROVE m = 0
          <5>1. y = 0
            BY <4>1, <4>2, <4>4
          <5> QED BY <4>3, <4>4, <5>1
        <4> QED BY <4>2, <4>4
      <3>3. m = 0 => t.parts[c] = <<>>
        <4>1. PICK q \in Seq(Nat) : q = t.parts[c]
          BY <1>2, PartsAre
        <4>2. Len(q) = 0 => q = <<>>
          BY <4>1
        <4> QED BY <1>5, <4>1, <4>2
      <3> QED BY <3>1, <3>2, <3>3
    <2> QED BY <1>3, <2>1, <2>2 DEF Listed
  <1>12. Accounted(t)
    <2>1. AllBytes(s) \in Int /\ AllBytes(t) \in Int
      BY <1>1, <1>2, AllBytesIs
    <2>2. Balanced(s, t) /\ Accounted(s)
      BY DEF Given, Good
    <2> QED BY <1>3, <2>1, <2>2, AccountedBalanced
  <1>13. Whole(t, del \cup {c})
    <2>1. ASSUME NEW d \in Chunks \ (del \cup {c}), t.status[d] \in Claiming \/ t.parts[d] # <<>>
          PROVE  Held(t, d) = Size[d]
      <3>1. t.parts[d] = s.parts[d] /\ t.status[d] = s.status[d]
        BY <1>3
      <3>2. Chain(t, d) = Chain(s, d)
        BY <3>1 DEF Chain
      <3>3. \A off \in Chain(s, d) : t.all_space[off] = s.all_space[off]
        BY <1>2, <1>7, <3>2, ChainIs
      <3>4. Held(t, d) = Held(s, d)
        BY <1>1, <1>2, <3>1, <3>3, HeldSame
      <3> QED BY <2>1, <3>1, <3>4 DEF Good, Whole
    <2> QED BY <2>1 DEF Whole
  <1>14. Waiting(t, del \ {c})
    <2>1. Waiting(s, del) /\ del \subseteq Chunks
      BY DEF Good
    <2> QED BY <1>3, <2>1 DEF Waiting
  <1> QED BY <1>2, <1>3, <1>8, <1>9, <1>10, <1>11, <1>12, <1>13, <1>14

\* r is q without c.
Without(q, r, c) ==
    /\ r \in Seq(Chunks) /\ \A i, j \in 1..Len(r) : r[i] = r[j] => i = j
    /\ \A d \in Chunks : (\E i \in 1..Len(r) : r[i] = d) <=> d # c /\ \E i \in 1..Len(q) : q[i] = d

\* The first of the places of an element is found, and only there the sequence is shortened.
LEMMA RemoveIs ==
    ASSUME NEW q \in Seq(Chunks), NEW c \in Chunks,
           \A i, j \in 1..Len(q) : q[i] = q[j] => i = j
    PROVE  Without(q, RemoveFirst(q, c), c)
  <1>1. PICK n \in Nat : n = Len(q) /\ DOMAIN q = 1..n
    OBVIOUS
  <1>2. CASE \A i \in 1..n : q[i] # c
    <2>1. RemoveFirst(q, c) = q
      BY <1>1, <1>2 DEF RemoveFirst
    <2> QED BY <1>1, <1>2, <2>1 DEF Without
  <1>3. CASE \E i \in 1..n : q[i] = c
    <2>1. PICK k \in 1..n : q[k] = c
      BY <1>3
    <2>2. RemoveFirst(q, c) = RemoveAt(q, SelectInSeq(q, LAMBDA e : e = c))
      BY <1>1, <1>3 DEF RemoveFirst
    <2>3. SelectInSeq(q, LAMBDA e : e = c) = k
      <3>1. PICK I : I = {i \in 1..n : q[i] = c}
        OBVIOUS
      <3>2. I = {k}
        BY <1>1, <2>1, <3>1
      <3>3. SelectInSeq(q, LAMBDA e : e = c) = Min(I)
        BY <1>1, <3>1, <3>2 DEF SelectInSeq
      <3>4. Min({k}) \in {k}
        <4>1. k \in Int /\ \A y \in {k} : y >= k
          BY <1>1, <2>1
        <4>2. {k} \in SUBSET Int /\ {k} # {}
          BY <4>1
        <4> QED BY <4>1, <4>2, MinIs
      <3> QED BY <3>2, <3>3, <3>4
    <2>4. PICK r : r = RemoveFirst(q, c) /\ r = RemoveAt(q, k)
      BY <2>2, <2>3
    <2>5. r = SubSeq(q, 1, k - 1) \o SubSeq(q, k + 1, n)
      BY <1>1, <2>4 DEF RemoveAt
    <2>6. PICK a : a = SubSeq(q, 1, k - 1)
      OBVIOUS
    <2>7. PICK b : b = SubSeq(q, k + 1, n)
      OBVIOUS
    <2>8. k \in Int /\ 1 <= k /\ k <= n
      BY <1>1, <2>1
    <2>9. a \in Seq(Chunks) /\ Len(a) = k - 1 /\ \A i \in 1..(k - 1) : a[i] = q[i]
      BY <1>1, <2>6, <2>8
    <2>10. b \in Seq(Chunks) /\ Len(b) = n - k /\ \A i \in 1..(n - k) : b[i] = q[i + k]
      BY <1>1, <2>7, <2>8
    <2>11. /\ r \in Seq(Chunks) /\ Len(r) = n - 1
           /\ \A i \in 1..(n - 1) : r[i] = IF i < k THEN q[i] ELSE q[i + 1]
      <3>1. r = a \o b
        BY <2>5, <2>6, <2>7
      <3>2. r \in Seq(Chunks) /\ Len(r) = n - 1
        BY <1>1, <2>8, <2>9, <2>10, <3>1
      <3>3. ASSUME NEW i \in 1..(n - 1) PROVE r[i] = IF i < k THEN q[i] ELSE q[i + 1]
        <4>1. CASE i < k
          <5>1. i \in 1..(k - 1)
            BY <1>1, <2>8, <4>1
          <5>2. r[i] = a[i]
            BY <2>9, <2>10, <3>1, <5>1
          <5> QED BY <2>9, <4>1, <5>1, <5>2
        <4>2. CASE ~(i < k)
          <5>1. i - (k - 1) \in 1..(n - k) /\ i \in (k - 1) + 1..(k - 1) + (n - k)
                /\ (i - (k - 1)) + k = i + 1
            BY <1>1, <2>8, <4>2
          <5>2. r[i] = b[i - (k - 1)]
            BY <1>1, <2>8, <2>9, <2>10, <3>1, <5>1
          <5>3. b[i - (k - 1)] = q[i + 1]
            BY <2>10, <5>1
          <5> QED BY <4>2, <5>2, <5>3
        <4> QED BY <4>1, <4>2
      <3> QED BY <3>2, <3>3
    <2>12. ASSUME NEW i \in 1..(n - 1), NEW j \in 1..(n - 1), r[i] = r[j] PROVE i = j
      <3>1. PICK x \in 1..n : x = IF i < k THEN i ELSE i + 1
        BY <1>1, <2>8
      <3>2. PICK y \in 1..n : y = IF j < k THEN j ELSE j + 1
        BY <1>1, <2>8
      <3>3. q[x] = q[y]
        BY <2>11, <2>12, <3>1, <3>2
      <3>4. x = y
        BY <1>1, <3>3
      <3> QED BY <1>1, <2>8, <3>1, <3>2, <3>4
    <2>13. ASSUME NEW d \in Chunks
           PROVE  (\E i \in 1..(n - 1) : r[i] = d) <=> d # c /\ \E i \in 1..n : q[i] = d
      <3>1. ASSUME NEW i \in 1..(n - 1), r[i] = d PROVE d # c /\ \E x \in 1..n : q[x] = d
        <4>1. PICK x \in 1..n : x = (IF i < k THEN i ELSE i + 1) /\ x # k
          BY <1>1, <2>8
        <4>2. q[x] = d
          BY <2>11, <3>1, <4>1
        <4> QED BY <1>1, <2>1, <4>1, <4>2
      <3>2. ASSUME d # c, NEW x \in 1..n, q[x] = d PROVE \E i \in 1..(n - 1) : r[i] = d
        <4>1. x # k
          BY <2>1, <3>2
        <4>2. PICK i \in 1..(n - 1) : i = IF x < k THEN x ELSE x - 1
          BY <1>1, <2>8, <4>1
        <4>3. (IF i < k THEN i ELSE i + 1) = x
          BY <1>1, <2>8, <4>1, <4>2
        <4>4. r[i] = d
          BY <2>11, <3>2, <4>2, <4>3
        <4> QED BY <4>4
      <3> QED BY <3>1, <3>2
    <2>14. Len(r) = n - 1
      BY <2>11
    <2> QED BY <1>1, <2>4, <2>11, <2>12, <2>13, <2>14 DEF Without
  <1> QED BY <1>2, <1>3

\* Deleting a chunk keeps the invariant, whether pffree comes to its end or waits.
LEMMA DeleteGood ==
    ASSUME NEW s, NEW del, Good(s, del), NEW c \in Chunks, s.status[c] \notin {"NONE", "SWAPIN"},
           NEW t, t = Pffree(s, c)
    PROVE  Good(IF t.parts[c] = <<>> THEN Erased(t, c) ELSE t,
                IF t.parts[c] = <<>> THEN del \ {c} ELSE del \cup {c})
  <1>1. s \in SwapType /\ Sane(s) /\ Tiled(s) /\ Chained(s) /\ Tracked(s) /\ del \subseteq Chunks
        /\ s.thrown # "past the end"
    BY DEF Good, Sane
  <1>2. PICK j \in 0..Len(s.parts[c]) :
           Given(s, t, c, j) /\ (j < Len(s.parts[c]) => s.parts[c][j + 1] \in s.pending)
    <2>1. PffreeEnds(s, t, c)
      BY <1>1, PffreeIs
    <2> QED BY <2>1 DEF PffreeEnds
  <1>3. PICK n \in Nat : n = Len(s.parts[c])
    BY <1>1, PartsAre
  <1>4. /\ Sane(t) /\ Ended(t) /\ Tracked(t) /\ Listed(t) /\ Accounted(t) /\ Alike(s, t)
        /\ Whole(t, del \cup {c}) /\ Waiting(t, del \ {c}) /\ OnTheWay(t, c) = OnTheWay(s, c)
    BY <1>2, GivenGood
  <1>5. t \in SwapType /\ Tiled(t) /\ Chained(t)
    BY <1>4 DEF Sane
  <1>6. t.status = s.status /\ t.thrown = s.thrown /\ t.tracker = s.tracker /\ t.memChunks = s.memChunks
    BY <1>4 DEF Alike
  <1>7. s.status[c] \in {"ALLOCATED", "SWAPOUT", "SWAPPED"}
    BY <1>1, StatusIs
  <1>8. CASE t.parts[c] # <<>>
    <2>1. j < n
      <3>1. PICK q \in Seq(Nat) : q = t.parts[c]
        BY <1>5, PartsAre
      <3>2. Len(q) # 0
        BY <1>8, <3>1
      <3>3. Len(q) = n - j
        BY <1>2, <1>3, <3>1 DEF Given
      <3>4. j \in 0..n
        BY <1>2, <1>3
      <3> QED BY <1>3, <3>2, <3>3, <3>4
    <2>2. s.parts[c][j + 1] \in OnTheWay(s, c)
      <3>1. j + 1 \in 1..Len(s.parts[c])
        BY <1>2, <1>3, <2>1
      <3>2. s.parts[c][j + 1] \in s.pending
        BY <1>2, <1>3, <2>1
      <3> QED BY <3>1, <3>2 DEF OnTheWay, Chain
    <2>3. s.status[c] = "SWAPOUT"
      <3>1. s.status[c] \in Moving
        BY <1>1, <2>2 DEF Tracked
      <3> QED BY <1>7, <3>1 DEF Moving
    <2>4. Waiting(t, del \cup {c})
      BY <1>4, <1>6, <1>8, <2>3 DEF Waiting
    <2>5. Good(t, del \cup {c})
      BY <1>1, <1>4, <1>6, <2>4 DEF Good
    <2> QED BY <1>8, <2>5
  <1>9. CASE t.parts[c] = <<>>
    <2>1. OnTheWay(t, c) = {}
      <3>1. Chain(t, c) = {}
        BY <1>5, <1>9, ChainIs
      <3> QED BY <3>1 DEF OnTheWay
    <2>2. t.status[c] \in {"ALLOCATED", "SWAPPED"}
      <3>1. t.status[c] \notin Moving
        BY <1>4, <2>1 DEF Tracked
      <3> QED BY <1>6, <1>7, <3>1 DEF Moving
    <2>3. PICK m \in Int : m = IF t.status[c] = "SWAPPED" THEN Size[c] ELSE 0
      BY ConstantsAssumption
    <2>4. t.swapFree \in Int /\ Wrap(t.swapFree) = t.swapFree
      BY <1>5, SwapFreeIs
    <2>5. PICK q : q = RemoveFirst(t.memChunks, c)
      OBVIOUS
    <2>6. PICK r : r = [t EXCEPT !.swapFree = Wrap(t.swapFree + m), !.status = [t.status EXCEPT ![c] = "NONE"],
                                 !.memChunks = q]
      OBVIOUS
    <2>7. r = Erased(t, c)
      <3>1. Erased(t, c) = [t EXCEPT !.swapFree = IF t.status[c] = "SWAPPED" THEN Wrap(t.swapFree + Size[c]) ELSE t.swapFree,
                                     !.status = [t.status EXCEPT ![c] = "NONE"], !.memChunks = q]
        BY <2>5 DEF Erased
      <3>2. Wrap(t.swapFree + m) = IF t.status[c] = "SWAPPED" THEN Wrap(t.swapFree + Size[c]) ELSE t.swapFree
        <4>1. t.status[c] # "SWAPPED" => t.swapFree + m = t.swapFree
          BY <2>3, <2>4
        <4> QED BY <2>3, <2>4, <4>1
      <3> QED BY <2>6, <3>1, <3>2
    <2>8. t.memChunks \in Seq(Chunks) /\ \A i, k \in 1..Len(t.memChunks) : t.memChunks[i] = t.memChunks[k] => i = k
      BY <1>4, <1>5, FieldsAre DEF Listed
    <2>9. /\ q \in Seq(Chunks) /\ \A i, k \in 1..Len(q) : q[i] = q[k] => i = k
          /\ \A d \in Chunks : (\E i \in 1..Len(q) : q[i] = d) <=> d # c /\ \E i \in 1..Len(t.memChunks) : t.memChunks[i] = d
      <3>1. Without(t.memChunks, q, c)
        BY <2>5, <2>8, RemoveIs
      <3> QED BY <3>1 DEF Without
    <2>10. t.status \in [Chunks -> Statuses] /\ "NONE" \in Statuses
      BY <1>5, FieldsAre DEF Statuses
    <2>11. /\ r \in SwapType /\ r.all_space = t.all_space /\ r.free_space = t.free_space
           /\ r.swapSize = t.swapSize /\ r.layout = t.layout /\ r.parts = t.parts
           /\ r.thrown = t.thrown /\ r.pending = t.pending /\ r.tracker = t.tracker
           /\ r.memChunks = q /\ r.status = [t.status EXCEPT ![c] = "NONE"]
           /\ r.swapFree = Wrap(t.swapFree + m)
      <3>1. Wrap(t.swapFree + m) \in 0..(2^Width - 1)
        <4>1. t.swapFree + m \in Int
          BY <2>3, <2>4
        <4> QED BY <4>1, WrapIs
      <3>2. [t.status EXCEPT ![c] = "NONE"] \in [Chunks -> Statuses]
        BY <2>10
      <3> QED BY <1>5, <2>6, <2>9, <3>1, <3>2 DEF SwapType
    <2>12. r.status[c] = "NONE" /\ \A d \in Chunks : d # c => r.status[d] = t.status[d]
      BY <2>10, <2>11
    <2>13. /\ Sane(r) /\ Ended(r) /\ AllBytes(r) = AllBytes(t)
           /\ \A d \in Chunks : Chain(r, d) = Chain(t, d) /\ Held(r, d) = Held(t, d)
      <3>1. r.pending \subseteq Used(t)
        BY <1>4, <2>11 DEF Sane
      <3> QED BY <1>4, <2>11, <3>1, SameChains
    <2>14. Tracked(r)
      <3>1. \A d \in Chunks : OnTheWay(r, d) = OnTheWay(t, d)
        BY <2>11, <2>13 DEF OnTheWay
      <3>2. r.status[c] \notin Moving
        BY <2>12 DEF Moving
      <3>3. \A d \in Chunks : r.status[d] \in Moving <=> OnTheWay(r, d) # {}
        BY <1>4, <2>1, <2>12, <3>1, <3>2 DEF Tracked
      <3> QED BY <1>4, <2>11, <3>1, <3>3 DEF Tracked
    <2>15. Listed(r)
      <3>1. \A d \in Chunks : r.status[d] # "NONE" <=> \E i \in 1..Len(q) : q[i] = d
        <4>1. \A d \in Chunks : t.status[d] # "NONE" <=> \E i \in 1..Len(t.memChunks) : t.memChunks[i] = d
          BY <1>4 DEF Listed
        <4> QED BY <2>9, <2>12, <4>1
      <3>2. \A d \in Chunks : r.status[d] = "NONE" => r.parts[d] = <<>>
        BY <1>4, <1>9, <2>11, <2>12 DEF Listed
      <3> QED BY <2>9, <2>11, <3>1, <3>2 DEF Listed
    <2>16. Accounted(r)
      <3>1. AllBytes(t) \in Int /\ Claimed(t) \in Int
        <4>1. AllBytes(t) \in Int
          BY <1>5, AllBytesIs
        <4> QED BY <4>1, ClaimIs
      <3>2. Claimed(r) = Claimed(t) - m
        <4>1. r.status[c] \notin Claiming
          BY <2>12 DEF Claiming
        <4>2. CASE t.status[c] = "SWAPPED"
          <5>1. t.status[c] \in Claiming
            BY <4>2 DEF Claiming
          <5> QED BY <2>3, <2>12, <4>1, <4>2, <5>1, ClaimChange
        <4>3. CASE t.status[c] # "SWAPPED"
          <5>1. t.status[c] \notin Claiming
            BY <2>2, <4>3 DEF Claiming
          <5>2. \A d \in Chunks : r.status[d] \in Claiming <=> t.status[d] \in Claiming
            BY <2>12, <4>1, <5>1
          <5>3. Claimed(r) = Claimed(t)
            BY <5>2, ClaimSame
          <5> QED BY <2>3, <3>1, <4>3, <5>3
        <4> QED BY <4>2, <4>3
      <3>3. AllBytes(r) - Claimed(r) = AllBytes(t) - Claimed(t) + m
        BY <2>3, <2>13, <3>1, <3>2
      <3> QED BY <1>4, <2>3, <2>11, <2>13, <3>1, <3>3, AccountedMore
    <2>17. Whole(r, del \ {c})
      <3>1. ASSUME NEW d \in Chunks \ (del \ {c}), r.status[d] \in Claiming \/ r.parts[d] # <<>>
            PROVE  Held(r, d) = Size[d]
        <4>1. d # c
          BY <1>9, <2>11, <2>12, <3>1 DEF Claiming
        <4>2. r.status[d] = t.status[d] /\ r.parts[d] = t.parts[d] /\ Held(r, d) = Held(t, d)
          BY <2>11, <2>12, <2>13, <4>1
        <4> QED BY <1>4, <3>1, <4>1, <4>2 DEF Whole
      <3> QED BY <3>1 DEF Whole
    <2>18. Waiting(r, del \ {c})
      <3>1. \A d \in del \ {c} : r.status[d] = t.status[d] /\ r.parts[d] = t.parts[d]
        BY <1>1, <2>11, <2>12
      <3> QED BY <1>4, <3>1 DEF Waiting
    <2>19. Good(r, del \ {c})
      BY <1>1, <1>6, <2>11, <2>13, <2>14, <2>15, <2>16, <2>17, <2>18 DEF Good
    <2> QED BY <1>9, <2>7, <2>19
  <1> QED BY <1>8, <1>9

-----------------------------------------------------------------------------
(* mmalloc, and the deletion of page copies *)

\* A new chunk keeps the invariant.
LEMMA MmallocGood ==
    ASSUME NEW s, NEW del, Good(s, del), NEW c \in Chunks, s.status[c] = "NONE"
    PROVE  Good([s EXCEPT !.status[c] = "ALLOCATED", !.memChunks = Append(@, c)], del)
  <1>1. s \in SwapType /\ Sane(s) /\ Tiled(s) /\ Chained(s) /\ Tracked(s) /\ Listed(s) /\ del \subseteq Chunks
    BY DEF Good, Sane
  <1>2. s.parts[c] = <<>> /\ c \notin del
    BY <1>1 DEF Listed, Good, Waiting
  <1>3. PICK q \in Seq(Chunks) : q = s.memChunks
    BY <1>1, FieldsAre
  <1>4. PICK n \in Nat : n = Len(q) /\ DOMAIN q = 1..n
    BY <1>3
  <1>5. PICK r : r = [s EXCEPT !.status = [s.status EXCEPT ![c] = "ALLOCATED"], !.memChunks = Append(q, c)]
    OBVIOUS
  <1>6. r = [s EXCEPT !.status[c] = "ALLOCATED", !.memChunks = Append(@, c)]
    BY <1>3, <1>5
  <1>7. s.status \in [Chunks -> Statuses] /\ "ALLOCATED" \in Statuses
    BY <1>1, FieldsAre DEF Statuses
  <1>8. /\ r \in SwapType /\ r.all_space = s.all_space /\ r.free_space = s.free_space
        /\ r.swapSize = s.swapSize /\ r.layout = s.layout /\ r.parts = s.parts
        /\ r.thrown = s.thrown /\ r.pending = s.pending /\ r.tracker = s.tracker
        /\ r.memChunks = Append(q, c) /\ r.status = [s.status EXCEPT ![c] = "ALLOCATED"]
        /\ r.swapFree = s.swapFree
    <2>1. [s.status EXCEPT ![c] = "ALLOCATED"] \in [Chunks -> Statuses]
      BY <1>7
    <2>2. Append(q, c) \in Seq(Chunks)
      BY <1>3
    <2> QED BY <1>1, <1>5, <2>1, <2>2 DEF SwapType
  <1>9. r.status[c] = "ALLOCATED" /\ \A d \in Chunks : d # c => r.status[d] = s.status[d]
    BY <1>7, <1>8
  <1>10. /\ Sane(r) /\ Ended(r) /\ AllBytes(r) = AllBytes(s)
         /\ \A d \in Chunks : Chain(r, d) = Chain(s, d) /\ Held(r, d) = Held(s, d)
    <2>1. r.pending \subseteq Used(s) /\ Ended(s)
      BY <1>1, <1>8 DEF Sane, Good
    <2> QED BY <1>1, <1>8, <2>1, SameChains
  <1>11. Tracked(r)
    <2>1. \A d \in Chunks : OnTheWay(r, d) = OnTheWay(s, d)
      BY <1>8, <1>10 DEF OnTheWay
    <2>2. \A d \in Chunks : r.status[d] \in Moving <=> s.status[d] \in Moving
      BY <1>9 DEF Moving
    <2> QED BY <1>1, <1>8, <2>1, <2>2 DEF Tracked
  <1>12. Listed(r)
    <2>1. PICK a \in Seq(Chunks) : a = Append(q, c)
      <3>1. Append(q, c) \in Seq(Chunks)
        BY <1>3
      <3> QED BY <3>1
    <2>2. Len(a) = n + 1 /\ a[n + 1] = c /\ \A i \in 1..n : a[i] = q[i]
      BY <1>3, <1>4, <2>1
    <2>3. \A i \in 1..n : q[i] # c
      BY <1>1, <1>3, <1>4 DEF Listed
    <2>4. \A i, j \in 1..n : q[i] = q[j] => i = j
      BY <1>1, <1>3, <1>4 DEF Listed
    <2>5. ASSUME NEW i \in 1..(n + 1), NEW j \in 1..(n + 1), a[i] = a[j] PROVE i = j
      <3>1. (i \in 1..n \/ i = n + 1) /\ (j \in 1..n \/ j = n + 1)
        BY <1>4
      <3> QED BY <2>2, <2>3, <2>4, <2>5, <3>1
    <2>6. ASSUME NEW d \in Chunks PROVE r.status[d] # "NONE" <=> \E i \in 1..(n + 1) : a[i] = d
      <3>1. s.status[d] # "NONE" <=> \E i \in 1..n : q[i] = d
        BY <1>1, <1>3, <1>4 DEF Listed
      <3>2. \A i : i \in 1..(n + 1) <=> i \in 1..n \/ i = n + 1
        BY <1>4
      <3> QED BY <1>9, <2>2, <3>1, <3>2
    <2>7. \A d \in Chunks : r.status[d] = "NONE" => r.parts[d] = <<>>
      BY <1>1, <1>8, <1>9 DEF Listed
    <2>8. r.memChunks = a /\ Len(r.memChunks) = n + 1
      BY <1>8, <2>1, <2>2
    <2> QED BY <2>5, <2>6, <2>7, <2>8 DEF Listed
  <1>13. Accounted(r)
    <2>1. \A d \in Chunks : r.status[d] \in Claiming <=> s.status[d] \in Claiming
      BY <1>9 DEF Claiming
    <2>2. Claimed(r) = Claimed(s)
      BY <2>1, ClaimSame
    <2> QED BY <1>8, <1>10, <2>2 DEF Good, Accounted
  <1>14. Whole(r, del)
    <2>1. ASSUME NEW d \in Chunks \ del, r.status[d] \in Claiming \/ r.parts[d] # <<>>
          PROVE  Held(r, d) = Size[d]
      <3>1. d # c
        BY <1>2, <1>8, <1>9, <2>1 DEF Claiming
      <3> QED BY <1>8, <1>9, <1>10, <2>1, <3>1 DEF Good, Whole
    <2> QED BY <2>1 DEF Whole
  <1>15. Waiting(r, del)
    <2>1. Waiting(s, del)
      BY DEF Good
    <2> QED BY <1>1, <1>2, <1>8, <1>9, <2>1 DEF Waiting
  <1>16. r.thrown # "past the end"
    BY <1>8 DEF Good
  <1> QED BY <1>1, <1>6, <1>10, <1>11, <1>12, <1>13, <1>14, <1>15, <1>16 DEF Good

\* Deleting one page copy keeps the invariant.
LEMMA InvalidateGood ==
    ASSUME NEW s, NEW del, Good(s, del), NEW c \in Cached(s)
    PROVE  Good(Pffree(s, c), del)
  <1>1. Sane(s) /\ Copies(s) /\ Chunks # {}
    BY GoodCopies DEF Good, Cached
  <1>2. Cleaned(s, s, {})
    BY <1>1, CleanedNone
  <1>3. Cleaned(s, Pffree(s, c), {} \cup {c})
    BY <1>1, <1>2, CleanedMore
  <1> QED BY <1>3, CleanedGood

-----------------------------------------------------------------------------
(* The start *)

\* The files at the start are free and tile the swap.
LEMMA InitTiled ==
    ASSUME NEW l \in Layouts, NEW p \in Policies, NEW s,
           LET files == {n * PageFileSize : n \in 0..(PageFileNumber - 1)}
           IN  s = [all_space  |-> [off \in files |-> [size |-> PageFileSize, status |-> "FREE"]],
                    free_space |-> files,
                    swapSize   |-> PageFileNumber * PageFileSize,
                    swapFree   |-> PageFileNumber * PageFileSize,
                    parts      |-> [c \in Chunks |-> <<>>],
                    pending    |-> {},
                    tracker    |-> [c \in Chunks |-> 0],
                    status     |-> [c \in Chunks |-> "NONE"],
                    memChunks  |-> <<>>,
                    thrown     |-> "none",
                    layout |-> l, policy |-> p]
    PROVE  /\ s \in SwapType /\ Tiled(s) /\ Used(s) = {}
           /\ AllBytes(s) = PageFileNumber * PageFileSize /\ s.swapFree = Wrap(AllBytes(s))
  <1> DEFINE N == PageFileNumber
             P == PageFileSize
             key(n) == n * P
             D == {key(n) : n \in 0..(N - 1)}
             free == [size |-> P, status |-> "FREE"]
             A == [off \in D |-> free]
  <1>1. P \in Nat \ {0} /\ N \in Nat \ {0} /\ MaxFiles \in Nat /\ N <= MaxFiles
    BY ConstantsAssumption
  <1>2. /\ s.all_space = A /\ s.free_space = D /\ s.swapSize = key(N) /\ s.swapFree = key(N)
        /\ s.layout = l /\ s.parts = [c \in Chunks |-> <<>>] /\ s.pending = {}
    OBVIOUS
  <1>3. \A n \in Nat : key(n) \in Nat
    BY <1>1
  <1>4. \A n, m \in Nat : n < m => key(n) + P <= key(m)
    <2>1. SUFFICES ASSUME NEW n \in Nat, NEW m \in Nat, n < m PROVE key(n) + P <= key(m)
      OBVIOUS
    <2>2. PICK e \in Nat : e = m - n - 1
      BY <2>1
    <2>3. m = n + e + 1
      BY <2>1, <2>2
    <2>4. m * P = n * P + e * P + P
      BY <1>1, <2>2, <2>3
    <2>5. n * P \in Nat /\ e * P \in Nat /\ m * P \in Nat
      BY <1>3, <2>2
    <2> QED BY <1>1, <2>4, <2>5
  <1>5. \A n \in Nat : StartOfFile(key(n))
    <2>1. SUFFICES ASSUME NEW n \in Nat PROVE key(n) % P = 0
      BY DEF StartOfFile
    <2>2. key(n) = P * n /\ key(n) \in Int /\ n \in Int
      BY <1>1, <1>3
    <2> QED BY <1>1, <2>2, Multiples
  <1>6. D \subseteq Nat /\ free \in Location /\ A \in [D -> Location] /\ DOMAIN A = D
        /\ \A o \in D : A[o] = free
    <2>1. D \subseteq Nat
      BY <1>3
    <2>2. free \in Location
      BY <1>1 DEF Location
    <2> HIDE DEF D, free
    <2> QED BY <2>1, <2>2
  <1>7. key(N) \in 0..(2^Width - 1)
    <2>1. PICK w \in Int : w = 2^Width /\ w > 2 * MaxFiles * P
      BY ConstantsAssumption
    <2>2. PICK e \in Nat : e = MaxFiles - N
      BY <1>1
    <2>3. MaxFiles * P = key(N) + e * P /\ e * P \in Nat /\ key(N) \in Nat
      <3>1. MaxFiles = N + e
        BY <1>1, <2>2
      <3>2. (N + e) * P = N * P + e * P
        BY <1>1, <2>2
      <3> QED BY <1>1, <1>3, <2>2, <3>1, <3>2
    <2>4. 2 * MaxFiles * P = 2 * (MaxFiles * P)
      BY <1>1
    <2> QED BY <2>1, <2>3, <2>4
  <1>8. s \in SwapType
    <2>1. [c \in Chunks |-> <<>>] \in [Chunks -> Seq(Nat)] /\ <<>> \in Seq(Chunks)
      OBVIOUS
    <2>2. [c \in Chunks |-> 0] \in [Chunks -> Int] /\ [c \in Chunks |-> "NONE"] \in [Chunks -> Statuses]
      BY DEF Statuses
    <2>3. A \in UNION {[E -> Location] : E \in SUBSET Nat}
      <3> HIDE DEF A, D
      <3> QED BY <1>6
    <2>4. key(N) \in Nat
      BY <1>1, <1>3
    <2> QED BY <1>6, <1>7, <2>1, <2>2, <2>3, <2>4 DEF SwapType
  <1> HIDE DEF A, free
  <1>9. \A o : Free(s, o) <=> o \in D
    <2>1. \A o : Free(s, o) <=> o \in D /\ A[o].status = "FREE"
      BY <1>2, <1>6 DEF Free
    <2>2. \A o \in D : A[o].status = "FREE"
      <3>1. free.status = "FREE"
        BY DEF free
      <3> HIDE DEF D
      <3> QED BY <1>6, <3>1
    <2> HIDE DEF D
    <2> QED BY <2>1, <2>2
  <1>10. Files(s)
    <2>1. N \in 1..MaxFiles /\ s.swapSize = N * P
      BY <1>1, <1>2
    <2>2. Span(s)
      <3>1. ASSUME NEW n \in 0..(N - 1) PROVE key(n) \in 0..(key(N) - 1)
        <4>1. n \in Nat /\ n < N
          BY <1>1
        <4>2. key(n) + P <= key(N) /\ key(n) \in Nat /\ key(N) \in Nat
          BY <1>1, <1>3, <1>4, <4>1
        <4>3. PICK x \in Int, y \in Int : x = key(n) /\ y = key(N)
          BY <4>2
        <4>4. x + P <= y /\ 0 <= x
          BY <4>2, <4>3
        <4>5. x \in 0..(y - 1)
          <5>1. PICK z \in Nat \ {0} : z = P
            BY <1>1
          <5>2. x + z <= y /\ 0 <= x /\ x \in Int /\ y \in Int /\ z \in Int /\ z >= 1
            BY <4>3, <4>4, <5>1
          <5> QED BY <5>2
        <4> QED BY <4>3, <4>5
      <3> QED BY <1>2, <1>6, <3>1 DEF Span
    <2>3. ASSUME NEW off \in 0..(s.swapSize - 1), StartOfFile(off) PROVE off \in DOMAIN s.all_space
      <3>1. key(N) \in Nat
        BY <1>1, <1>3
      <3>2. off \in Nat /\ off < key(N)
        BY <1>2, <3>1
      <3>3. PICK j \in Int : off = P * j
        <4>1. off % P = 0 /\ off \in Int /\ P \in Nat \ {0}
          BY <1>1, <2>3, <3>2 DEF StartOfFile
        <4> QED BY <4>1, Multiples
      <3>4. j * P = off
        BY <1>1, <3>3
      <3>5. j >= 0
        <4>1. j <= -1 => j * P <= -P
          BY <1>1, <3>3
        <4> QED BY <1>1, <3>2, <3>3, <3>4, <4>1
      <3>6. j < N
        <4>1. j >= N => j * P >= N * P
          BY <1>1, <3>3
        <4> QED BY <1>1, <3>1, <3>2, <3>3, <3>4, <4>1
      <3>7. j \in 0..(N - 1) /\ off = key(j)
        BY <1>1, <3>3, <3>4, <3>5, <3>6
      <3> QED BY <1>2, <1>6, <3>7
    <2>4. s.free_space = {off \in DOMAIN s.all_space : Free(s, off)}
      <3> HIDE DEF D
      <3> QED BY <1>2, <1>6, <1>9
    <2> QED BY <2>1, <2>2, <2>3, <2>4 DEF Files
  <1>11. ASSUME NEW o \in D PROVE Placed(s, o)
    <2>1. PICK n \in 0..(N - 1) : o = key(n)
      OBVIOUS
    <2>2. n \in Nat /\ n < N /\ n + 1 \in Nat /\ n + 1 <= N
      BY <1>1, <2>1
    <2>3. o \in Nat
      BY <1>3, <2>1, <2>2
    <2>4. o % s.layout.alignment = 0
      <3>1. PICK a \in Nat \ {0} : a = l.alignment /\ P % a = 0
        BY ConstantsAssumption
      <3>2. PICK j \in Int : P = a * j
        <4>1. PICK x \in Int : x = P /\ x % a = 0
          BY <1>1, <3>1
        <4>2. \E j \in Int : x = a * j
          BY <3>1, <4>1, Multiples
        <4> QED BY <4>1, <4>2
      <3>3. o = a * (n * j) /\ n * j \in Int
        <4>1. o = n * (a * j)
          BY <2>1, <3>2
        <4>2. n * (a * j) = a * (n * j)
          BY <2>2, <3>1, <3>2
        <4>3. n * j \in Int
          <5>1. n \in Int /\ j \in Int
            BY <2>2, <3>2
          <5>2. \A x, y \in Int : x * y \in Int
            OBVIOUS
          <5> QED BY <5>1, <5>2
        <4> QED BY <4>1, <4>2, <4>3
      <3>4. o % a = 0
        <4>1. PICK x \in Int : x = n * j
          BY <3>3
        <4>2. o \in Int /\ o = a * x
          BY <2>3, <3>3, <4>1
        <4> HIDE DEF D
        <4> QED BY <3>1, <4>1, <4>2, Multiples
      <3> QED BY <1>2, <3>1, <3>4
    <2>5. ASSUME NEW next \in Nat, IsNext(s, o, next) PROVE o + P = next /\ StartOfFile(next)
      <3>1. next \in D \cup {key(N)} /\ next > o /\ \A x \in D : x > o => x >= next
        BY <1>2, <1>6, <2>5 DEF IsNext
      <3>2. PICK m \in Nat : next = key(m) /\ m <= N
        <4>1. N \in Nat /\ N <= N /\ \A i \in 0..(N - 1) : i \in Nat /\ i <= N
          BY <1>1
        <4> QED BY <3>1, <4>1
      <3>3. m > n
        <4>1. m < n => next + P <= o
          BY <1>4, <2>1, <2>2, <3>2
        <4>2. m = n => next = o
          BY <2>1, <3>2
        <4> QED BY <1>1, <2>2, <2>3, <3>1, <3>2, <4>1, <4>2
      <3>4. o + P <= next
        BY <1>4, <2>1, <2>2, <3>2, <3>3
      <3>5. key(n + 1) = o + P
        BY <1>1, <2>1, <2>2
      <3>6. next <= o + P
        <4>1. CASE n + 1 = N
          <5>1. m = n + 1
            BY <1>1, <2>2, <3>2, <3>3, <4>1
          <5>2. next = key(n + 1)
            BY <3>2, <5>1
          <5> QED BY <1>1, <2>3, <3>5, <5>2
        <4>2. CASE n + 1 < N
          <5>1. n + 1 \in 0..(N - 1)
            BY <1>1, <2>2, <4>2
          <5>2. o + P \in D
            BY <3>5, <5>1
          <5>3. o + P > o
            BY <1>1, <2>3
          <5> QED BY <1>1, <2>3, <3>1, <5>2, <5>3
        <4> QED BY <1>1, <2>2, <4>1, <4>2
      <3>7. StartOfFile(next)
        BY <1>5, <3>2
      <3>8. o + P = next
        <4>1. o \in Int /\ P \in Int /\ next \in Int
          BY <1>1, <2>3, <2>5
        <4> HIDE DEF P
        <4> QED BY <3>4, <3>6, <4>1
      <3> QED BY <3>7, <3>8
    <2>6. LocationSize(s, o) = P /\ Free(s, o)
      BY <1>2, <1>6, <1>9 DEF LocationSize, free
    <2> QED BY <2>4, <2>5, <2>6 DEF Placed
  <1>12. Tiled(s)
    BY <1>2, <1>6, <1>10, <1>11 DEF Tiled
  <1>13. Used(s) = {}
    BY <1>2, <1>6 DEF Used
  <1>14. AllBytes(s) = N * P
    <2>1. \A n \in 0..(N - 1) : Sizes(s)[0 + n * PageFileSize] = PageFileSize
      <3>1. SUFFICES ASSUME NEW n \in 0..(N - 1) PROVE Sizes(s)[0 + n * PageFileSize] = PageFileSize
        OBVIOUS
      <3>2. PICK o \in D : o = n * PageFileSize
        OBVIOUS
      <3>3. 0 + n * PageFileSize = o
        BY <1>3, <1>6, <3>2
      <3>4. Sizes(s)[o] = P
        BY <1>2, <1>6, <3>2 DEF Sizes, LocationSize, free
      <3> QED BY <3>3, <3>4
    <2>2. SumOver(Sizes(s), {0 + n * PageFileSize : n \in 0..(N - 1)}) = N * PageFileSize
      <3>1. N \in Nat /\ 0 \in Nat
        BY <1>1
      <3> QED BY <2>1, <3>1, FilesSum
    <2>3. {0 + n * PageFileSize : n \in 0..(N - 1)} = D
      <3>1. \A n \in 0..(N - 1) : 0 + n * PageFileSize = key(n)
        <4>1. \A n \in 0..(N - 1) : n * PageFileSize \in Nat
          BY <1>3
        <4> QED BY <4>1
      <3> QED BY <3>1
    <2>4. DOMAIN s.all_space = D
      BY <1>2, <1>6
    <2> QED BY <2>2, <2>3, <2>4 DEF AllBytes
  <1>15. s.swapFree = Wrap(AllBytes(s))
    BY <1>2, <1>7, <1>14, WrapSmall
  <1> QED BY <1>8, <1>12, <1>13, <1>14, <1>15

\* The state at the start is good.
LEMMA InitGood ==
    ASSUME Init
    PROVE  Good(swap, deleting)
  <1>1. PICK l \in Layouts, p \in Policies :
           LET files == {n * PageFileSize : n \in 0..(PageFileNumber - 1)}
           IN  swap = [all_space  |-> [off \in files |-> [size |-> PageFileSize, status |-> "FREE"]],
                       free_space |-> files,
                       swapSize   |-> PageFileNumber * PageFileSize,
                       swapFree   |-> PageFileNumber * PageFileSize,
                       parts      |-> [c \in Chunks |-> <<>>],
                       pending    |-> {},
                       tracker    |-> [c \in Chunks |-> 0],
                       status     |-> [c \in Chunks |-> "NONE"],
                       memChunks  |-> <<>>,
                       thrown     |-> "none",
                       layout |-> l, policy |-> p]
    BY DEF Init
  <1>2. PICK s : s = swap
    OBVIOUS
  <1>3. /\ s \in SwapType /\ Tiled(s) /\ Used(s) = {}
        /\ AllBytes(s) = PageFileNumber * PageFileSize /\ s.swapFree = Wrap(AllBytes(s))
    BY <1>1, <1>2, InitTiled
  <1>4. /\ s.parts = [c \in Chunks |-> <<>>] /\ s.pending = {} /\ s.tracker = [c \in Chunks |-> 0]
        /\ s.status = [c \in Chunks |-> "NONE"] /\ s.memChunks = <<>> /\ s.thrown = "none"
    BY <1>1, <1>2
  <1>5. \A c \in Chunks : s.parts[c] = <<>> /\ s.tracker[c] = 0 /\ s.status[c] = "NONE"
    BY <1>4
  <1>6. Chained(s)
    BY <1>3, <1>5 DEF Chained
  <1>7. Sane(s)
    BY <1>3, <1>4, <1>6 DEF Sane
  <1>8. Ended(s)
    BY <1>5 DEF Ended
  <1>9. Tracked(s)
    <2>1. \A c \in Chunks : OnTheWay(s, c) = {}
      BY <1>4 DEF OnTheWay
    <2> QED BY <1>5, <2>1, FS_EmptySet DEF Tracked, Moving
  <1>10. Listed(s)
    BY <1>4, <1>5 DEF Listed
  <1>11. Accounted(s)
    <2>1. \A c \in Chunks : Claim(s)[c] = 0
      BY <1>5, ClaimIs DEF Claiming
    <2>2. Claimed(s) = 0
      BY <2>1, ClaimIs, SumZero DEF Claimed
    <2>3. AllBytes(s) \in Int
      BY <1>3, AllBytesIs
    <2>4. AllBytes(s) - Claimed(s) = AllBytes(s)
      BY <2>2, <2>3
    <2> QED BY <1>3, <2>4 DEF Accounted
  <1>12. deleting = {}
    BY DEF Init
  <1>13. Whole(s, {}) /\ Waiting(s, {})
    BY <1>5 DEF Whole, Waiting, Claiming
  <1>14. s.thrown # "past the end"
    BY <1>4
  <1> QED BY <1>2, <1>7, <1>8, <1>9, <1>10, <1>11, <1>12, <1>13, <1>14 DEF Good

-----------------------------------------------------------------------------
(* The steps *)

\* Every step keeps the invariant.
LEMMA StepGood ==
    ASSUME Good(swap, deleting), [Next]_vars
    PROVE  Good(swap', deleting')
  <1>1. CASE UNCHANGED vars
    BY <1>1 DEF vars
  <1>2. ASSUME NEW c \in Chunks, Mmalloc(c) PROVE Good(swap', deleting')
    BY <1>2, MmallocGood DEF Mmalloc
  <1>3. ASSUME NEW c \in Chunks, SwapOut(c) PROVE Good(swap', deleting')
    <2>1. swap' = UnloadChunk(MakeRoom(swap, Size[c]), c) /\ deleting' = deleting
          /\ swap.status[c] = "ALLOCATED" /\ c \notin deleting
      BY <1>3 DEF SwapOut, Live
    <2>2. Chunks # {} /\ Size[c] \in Nat
      BY ConstantsAssumption
    <2>3. PICK s : s = MakeRoom(swap, Size[c])
      OBVIOUS
    <2>4. Good(s, deleting) /\ s.status = swap.status
      BY <2>2, <2>3, MakeRoomGood
    <2>5. Good(UnloadChunk(s, c), deleting)
      BY <2>1, <2>4, UnloadGood
    <2> QED BY <2>1, <2>3, <2>5
  <1>4. ASSUME NEW c \in Chunks, SwapIn(c) PROVE Good(swap', deleting')
    BY <1>4, LoadGood DEF SwapIn, Live
  <1>5. ASSUME NEW c \in Chunks, InvalidateCacheFor(c) PROVE Good(swap', deleting')
    BY <1>5, InvalidateGood DEF InvalidateCacheFor
  <1>6. ASSUME NEW c \in Chunks, SwapDelete(c), swap.status[c] \notin {"NONE", "SWAPIN"}
        PROVE  Good(swap', deleting')
    <2>1. PICK t : t = Pffree(swap, c)
      OBVIOUS
    <2>2. Good(IF t.parts[c] = <<>> THEN Erased(t, c) ELSE t,
               IF t.parts[c] = <<>> THEN deleting \ {c} ELSE deleting \cup {c})
      BY <1>6, <2>1, DeleteGood
    <2>3. IF t.parts[c] = <<>> THEN swap' = Erased(t, c) /\ deleting' = deleting \ {c}
          ELSE swap' = t /\ deleting' = deleting \cup {c}
      BY <1>6, <2>1 DEF SwapDelete
    <2> QED BY <2>2, <2>3
  <1>7. ASSUME NEW c \in Chunks, Mfree(c) PROVE Good(swap', deleting')
    BY <1>6, <1>7 DEF Mfree, Live
  <1>8. ASSUME NEW c \in Chunks, PffreeAgain(c) PROVE Good(swap', deleting')
    <2>1. c \in deleting /\ SwapDelete(c)
      BY <1>8 DEF PffreeAgain
    <2>2. swap.status[c] \in {"SWAPOUT", "SWAPPED"}
      BY <2>1 DEF Good, Waiting
    <2> QED BY <1>6, <2>1, <2>2
  <1>9. ASSUME NEW c \in Chunks, Arrive(c) PROVE Good(swap', deleting')
    <2>1. PICK off \in ToSet(swap.parts[c]) \cap swap.pending : swap' = AsyncIoArrived(swap, c, off)
      BY <1>9 DEF Arrive
    <2>2. deleting' = deleting
      BY <1>9 DEF Arrive
    <2> QED BY <2>1, <2>2, ArriveGood
  <1>10. ASSUME CleanCache PROVE Good(swap', deleting')
    <2>1. Chunks # {}
      BY <1>10 DEF CleanCache, Cached
    <2> QED BY <1>10, <2>1, CleanupGood DEF CleanCache
  <1>11. CASE Stopped
    BY <1>11 DEF Stopped, vars
  <1> QED BY <1>1, <1>2, <1>3, <1>4, <1>5, <1>7, <1>8, <1>9, <1>10, <1>11 DEF Next

\* The inductive invariant of the page files.
Inv == Good(swap, deleting)

\* Whatever the manager calls, and in whatever order transfers arrive, the state stays good.
THEOREM Invariance == Spec => []Inv
  <1>1. Init => Inv
    BY InitGood DEF Inv
  <1>2. Inv /\ [Next]_vars => Inv'
    BY StepGood DEF Inv
  <1> QED BY <1>1, <1>2, PTL DEF Spec

-----------------------------------------------------------------------------
(* What the invariant says of the properties *)

\* The state is of its types: no location is longer than a page file.
LEMMA TypesAre ==
    ASSUME Inv
    PROVE  TypeOK
  <1> DEFINE s == swap
             P == PageFileSize
  <1>1. s \in SwapType /\ Sane(s) /\ Tiled(s) /\ Chained(s) /\ Files(s) /\ Span(s) /\ Tracked(s) /\ Listed(s)
    BY DEF Inv, Good, Sane, Tiled, Files
  <1>2. P \in Nat \ {0} /\ MaxFiles \in Nat
    BY ConstantsAssumption
  <1>3. PICK k \in 1..MaxFiles : s.swapSize = k * P
    BY <1>1 DEF Files
  <1>4. PICK S \in Nat : S = s.swapSize
    BY <1>1, KeysAre
  <1>5. S <= MaxFiles * P /\ MaxFiles * P \in Nat
    <2>1. PICK e \in Nat : e = MaxFiles - k
      BY <1>2, <1>3
    <2>2. MaxFiles = k + e
      BY <1>2, <1>3, <2>1
    <2>3. (k + e) * P = k * P + e * P
      BY <1>2, <1>3, <2>1
    <2>4. e * P \in Nat /\ MaxFiles * P \in Nat
      BY <1>2, <2>1
    <2> QED BY <1>3, <1>4, <2>2, <2>3, <2>4
  <1>6. DOMAIN s.all_space \subseteq 0..(S - 1) /\ DOMAIN s.all_space \subseteq Offsets /\ S \in Offsets
    <2>1. DOMAIN s.all_space \subseteq 0..(S - 1)
      BY <1>1, <1>4 DEF Span
    <2>2. \A o \in 0..(S - 1) : o \in 0..(MaxFiles * P)
      BY <1>4, <1>5
    <2>3. S \in 0..(MaxFiles * P)
      BY <1>4, <1>5
    <2> QED BY <2>1, <2>2, <2>3 DEF Offsets
  <1>7. ASSUME NEW off \in DOMAIN s.all_space PROVE LocationSize(s, off) <= P
    <2>1. off \in Nat /\ off < S
      BY <1>4, <1>6
    <2>2. PICK d \in Int, r \in Int : d = off \div P /\ r = off % P
      BY <1>2, <2>1
    <2>3. off = P * d + r /\ 0 <= r /\ r < P
      <3>1. PICK x \in Int, w \in Nat \ {0} : x = off /\ w = P
        BY <1>2, <2>1
      <3>2. d = x \div w /\ r = x % w
        BY <2>2, <3>1
      <3>3. x = w * d + r /\ 0 <= r /\ r < w
        BY <2>2, <3>1, <3>2
      <3> QED BY <3>1, <3>3
    <2>4. PICK e \in Int : e = d + 1
      BY <2>2
    <2>5. PICK f \in Int : f = P * e
      <3>1. \A x, y \in Int : x * y \in Int
        OBVIOUS
      <3> QED BY <1>2, <2>4, <3>1
    <2>6. P * e = P * d + P
      BY <1>2, <2>2, <2>4
    <2>7. f = off - r + P
      <3>1. P * d \in Int
        <4>1. \A x, y \in Int : x * y \in Int
          OBVIOUS
        <4> QED BY <1>2, <2>2, <4>1
      <3> QED BY <1>2, <2>1, <2>2, <2>3, <2>5, <2>6, <3>1
    <2>8. off < f /\ f <= off + P /\ f \in Nat
      <3>1. r \in Int /\ 0 <= r /\ r < P
        BY <2>2, <2>3
      <3>2. off \in Nat /\ f \in Int
        BY <2>1, <2>5
      <3> QED BY <1>2, <2>7, <3>1, <3>2
    <2>9. f % P = 0
      BY <1>2, <2>4, <2>5, Multiples
    <2>10. PICK next \in Nat : IsNext(s, off, next)
      BY <1>1, <1>4, <2>1, FollowingIs
    <2>11. next <= f
      <3>1. CASE f < S
        <4>1. f \in 0..(s.swapSize - 1)
          BY <1>4, <2>8, <3>1
        <4>2. f \in DOMAIN s.all_space
          BY <1>1, <2>9, <4>1 DEF Files, StartOfFile
        <4> QED BY <2>8, <2>10, <4>2 DEF IsNext
      <3>2. CASE f >= S
        <4>1. next <= S
          BY <1>4, <1>6, <2>10 DEF IsNext
        <4> QED BY <1>4, <2>8, <3>2, <4>1
      <3> QED BY <1>4, <2>8, <3>1, <3>2
    <2>12. off + LocationSize(s, off) <= next /\ LocationSize(s, off) \in Nat
      <3>1. LocationSize(s, off) \in Nat
        BY <1>1, KeysAre
      <3>2. Placed(s, off)
        BY <1>1 DEF Tiled
      <3> QED BY <2>1, <2>10, <3>1, <3>2 DEF Placed
    <2> QED BY <1>2, <2>1, <2>8, <2>11, <2>12
  <1>8. ASSUME NEW off \in DOMAIN s.all_space
        PROVE  s.all_space[off] \in [size : 1..PageFileSize, status : {"FREE", "PART", "END"}]
    <2>1. s.all_space[off] \in Location
      BY <1>1, KeysAre
    <2>2. s.all_space[off].size <= P
      BY <1>7 DEF LocationSize
    <2> QED BY <1>2, <2>1, <2>2 DEF Location
  <1>9. s.free_space \subseteq DOMAIN s.all_space
    BY <1>1 DEF Files
  <1>10. s.swapFree \in 0..(2^Width - 1) /\ s.status \in [Chunks -> Statuses]
         /\ s.thrown \in Chunks \cup {"none", "past the end"}
    BY <1>1, FieldsAre
  <1>11. ASSUME NEW c \in Chunks PROVE s.parts[c] \in Seq(DOMAIN s.all_space)
    <2>1. PICK q \in Seq(Nat) : q = s.parts[c]
      BY <1>1, PartsAre
    <2>2. \A i \in 1..Len(q) : q[i] \in DOMAIN s.all_space
      BY <1>1, <2>1 DEF Chained, Used
    <2>3. q \in Seq(DOMAIN s.all_space)
      <3>1. Len(q) \in Nat /\ DOMAIN q = 1..Len(q) /\ q = [i \in 1..Len(q) |-> q[i]]
        BY <2>1
      <3>2. q \in [1..Len(q) -> DOMAIN s.all_space]
        BY <2>2, <3>1
      <3>3. PICK n \in Nat : n = Len(q)
        BY <3>1
      <3>4. \A T : [1..n -> T] \subseteq Seq(T)
        BY <3>3, SeqDef
      <3> QED BY <3>2, <3>3, <3>4
    <2> QED BY <2>1, <2>3
  <1>12. s.pending \subseteq DOMAIN s.all_space
    BY <1>1 DEF Sane, Used
  <1>13. s.tracker \in [Chunks -> Nat]
    <2>1. s.tracker \in [Chunks -> Int]
      BY <1>1, FieldsAre
    <2>2. \A c \in Chunks : s.tracker[c] \in Nat
      BY <1>1, OnTheWayIs DEF Tracked
    <2> QED BY <2>1, <2>2
  <1>14. ToSet(s.memChunks) = {c \in Chunks : s.status[c] # "NONE"}
    <2>1. PICK q \in Seq(Chunks) : q = s.memChunks
      BY <1>1, FieldsAre
    <2>2. ToSet(q) = {q[i] : i \in 1..Len(q)} /\ \A i \in 1..Len(q) : q[i] \in Chunks
      BY <2>1 DEF ToSet
    <2>3. \A c \in Chunks : s.status[c] # "NONE" <=> \E i \in 1..Len(q) : q[i] = c
      BY <1>1, <2>1 DEF Listed
    <2> QED BY <2>1, <2>2, <2>3
  <1>15. deleting \subseteq Chunks
    BY DEF Inv, Good
  <1> QED BY <1>4, <1>6, <1>8, <1>9, <1>10, <1>11, <1>12, <1>13, <1>14, <1>15 DEF TypeOK

\* The locations tile the files.
LEMMA TilesAre ==
    ASSUME Inv
    PROVE  SpaceTiled
  <1> DEFINE s == swap
             P == PageFileSize
  <1>1. s \in SwapType /\ Tiled(s) /\ Files(s) /\ Span(s)
    BY DEF Inv, Good, Sane, Tiled, Files
  <1>2. P \in Nat \ {0} /\ MaxFiles \in Nat
    BY ConstantsAssumption
  <1>3. PICK k \in 1..MaxFiles : s.swapSize = k * P
    BY <1>1 DEF Files
  <1>4. s.swapSize \div P = k
    BY <1>2, <1>3, DivMultiple
  <1>5. ASSUME NEW n \in 0..(k - 1) PROVE n * P \in DOMAIN s.all_space
    <2>1. PICK x \in Int : x = n * P
      <3>1. \A a, b \in Int : a * b \in Int
        OBVIOUS
      <3> QED BY <1>2, <3>1
    <2>2. x % P = 0
      <3>1. x = P * n /\ n \in Int
        BY <1>2, <2>1
      <3> QED BY <1>2, <3>1, Multiples
    <2>3. PICK e \in Nat : e = k - n - 1
      BY <1>3
    <2>4. k * P = n * P + e * P + P
      <3>1. k = n + e + 1
        BY <1>3, <2>3
      <3> QED BY <1>2, <2>3, <3>1
    <2>5. e * P \in Nat /\ n * P \in Nat
      BY <1>2, <2>3
    <2>6. x \in 0..(s.swapSize - 1)
      BY <1>2, <1>3, <2>1, <2>4, <2>5
    <2> QED BY <1>1, <2>1, <2>2, <2>6 DEF Files, StartOfFile
  <1>6. {0} \cup {n * P : n \in 0..(k - 1)} \subseteq DOMAIN s.all_space
    <2>1. 0 \in 0..(k - 1) /\ 0 * P = 0
      BY <1>2, <1>3
    <2> QED BY <1>5, <2>1
  <1>7. s.free_space = {off \in DOMAIN s.all_space : Free(s, off)}
    BY <1>1 DEF Files
  <1>8. ASSUME NEW off \in DOMAIN s.all_space
        PROVE  /\ off % s.layout.alignment = 0
               /\ IF Free(s, off)
                  THEN /\ Following(s, off) - off - LocationSize(s, off) = 0
                       /\ Free(s, Following(s, off)) => StartOfFile(Following(s, off))
                  ELSE Following(s, off) - off - LocationSize(s, off) \in 0..(s.layout.alignment + s.layout.record)
    <2>1. off \in Nat /\ off < s.swapSize /\ s.swapSize \in Nat /\ LocationSize(s, off) \in Nat
      BY <1>1, KeysAre DEF Span
    <2>2. PICK next \in Nat : next = Following(s, off) /\ IsNext(s, off, next)
      BY <1>1, <2>1, FollowingIs
    <2>3. s.layout.alignment \in Nat /\ s.layout.record \in Nat
      BY <1>1, LayoutIs
    <2>4. Placed(s, off)
      BY <1>1 DEF Tiled
    <2>5. off % s.layout.alignment = 0
      BY <2>4 DEF Placed
    <2>6. IF Free(s, off) THEN off + LocationSize(s, off) = next /\ (Free(s, next) => StartOfFile(next))
          ELSE /\ off + LocationSize(s, off) <= next
               /\ next <= off + LocationSize(s, off) + s.layout.alignment + s.layout.record
      BY <2>2, <2>4 DEF Placed
    <2>7. PICK z \in Nat : z = LocationSize(s, off)
      BY <2>1
    <2>8. PICK a \in Nat, r \in Nat : a = s.layout.alignment /\ r = s.layout.record
      BY <2>3
    <2>9. off + z = next => next - off - z = 0
      BY <2>1, <2>2, <2>7
    <2>10. off + z <= next /\ next <= off + z + a + r => next - off - z \in 0..(a + r)
      BY <2>1, <2>2, <2>7, <2>8
    <2> QED BY <2>2, <2>5, <2>6, <2>7, <2>8, <2>9, <2>10
  <1> QED BY <1>4, <1>6, <1>7, <1>8 DEF SpaceTiled

\* A transfer is what the status says, and no free location is written.
LEMMA TransfersAre ==
    ASSUME Inv
    PROVE  TransfersWhole
  <1>1. swap \in SwapType /\ Sane(swap) /\ Chained(swap) /\ Tracked(swap)
    BY DEF Inv, Good, Sane
  <1>2. ASSUME NEW c \in Chunks
        PROVE  /\ swap.tracker[c] = Cardinality(ToSet(swap.parts[c]) \cap swap.pending)
               /\ swap.status[c] \in {"SWAPIN", "SWAPOUT"} <=> ToSet(swap.parts[c]) \cap swap.pending # {}
    <2>1. OnTheWay(swap, c) = ToSet(swap.parts[c]) \cap swap.pending
      BY <1>1, ChainIs DEF OnTheWay
    <2> QED BY <1>1, <2>1 DEF Tracked, Moving
  <1>3. swap.pending \cap swap.free_space = {}
    BY <1>1 DEF Sane, Used
  <1> QED BY <1>2, <1>3 DEF TransfersWhole

\* The used locations are those of the chunks, each with enough of them.
LEMMA ChainsAre ==
    ASSUME Inv
    PROVE  ChainsWhole
  <1> DEFINE s == swap
  <1>1. s \in SwapType /\ Sane(s) /\ Chained(s) /\ Ended(s) /\ Whole(s, deleting) /\ deleting \subseteq Chunks
    BY DEF Inv, Good, Sane
  <1>2. \A c \in Chunks : Chain(s, c) = ToSet(s.parts[c])
    BY <1>1, ChainIs
  <1>3. DOMAIN s.all_space \ s.free_space = UNION {ToSet(s.parts[c]) : c \in Chunks}
    <2>1. ASSUME NEW off \in Used(s) PROVE \E c \in Chunks : off \in Chain(s, c)
      BY <1>1 DEF Chained, Chain
    <2>2. ASSUME NEW c \in Chunks PROVE Chain(s, c) \subseteq Used(s)
      BY <1>1 DEF Chained, Chain
    <2>3. Used(s) = UNION {ToSet(s.parts[c]) : c \in Chunks}
      BY <1>2, <2>1, <2>2
    <2> QED BY <2>3 DEF Used
  <1>4. \A c, d \in Chunks : c # d => ToSet(s.parts[c]) \cap ToSet(s.parts[d]) = {}
    BY <1>1, <1>2, OnTheWayIs
  <1>5. ASSUME NEW c \in Kept \cup Cached(s) PROVE Held(s, c) = Size[c]
    <2>1. CASE c \in Kept
      <3>1. c \in Chunks \ deleting /\ s.status[c] \in Claiming
        BY <2>1 DEF Kept, Claiming
      <3> QED BY <1>1, <3>1 DEF Whole
    <2>2. CASE c \in Cached(s)
      <3>1. Copies(s)
        BY GoodCopies DEF Inv
      <3> QED BY <2>2, <3>1 DEF Copies
    <2> QED BY <2>1, <2>2
  <1>6. ASSUME NEW c \in Chunks, NEW i \in DOMAIN s.parts[c]
        PROVE s.all_space[s.parts[c][i]].status = IF i = Len(s.parts[c]) THEN "END" ELSE "PART"
    <2>1. i \in 1..Len(s.parts[c])
      BY <1>1, PartsAre
    <2> QED BY <1>1, <2>1 DEF Ended
  <1> QED BY <1>3, <1>4, <1>5, <1>6 DEF ChainsWhole, Held

-----------------------------------------------------------------------------
(* The theorems *)

\* Every member of managedFileSwap stays of its type, whatever is called: keys are offsets in
\* the files there are, and no location is longer than a file.
THEOREM Typed == Spec => []TypeOK
  <1>1. Inv => TypeOK
    BY TypesAre
  <1> QED BY <1>1, Invariance, PTL

\* allocInFree and pffree never lose or duplicate a byte, and keep free locations aligned.
THEOREM Tiling == Spec => []SpaceTiled
  <1>1. Inv => SpaceTiled
    BY TilesAre
  <1> QED BY <1>1, Invariance, PTL

\* A chunk is in transition exactly while a part of it is on its way, in whatever order
\* asyncIoArrived is called for its parts.
THEOREM Transfers == Spec => []TransfersWhole
  <1>1. Inv => TransfersWhole
    BY TransfersAre
  <1> QED BY <1>1, Invariance, PTL

\* The locations that pfmalloc linked for a chunk are its own and hold all of it until pffree.
THEOREM Chains == Spec => []ChainsWhole
  <1>1. Inv => ChainsWhole
    BY ChainsAre
  <1> QED BY <1>1, Invariance, PTL

\* pfmalloc never goes past the end of the free locations.
THEOREM Sufficing == Spec => []PartsSuffice
  <1>1. Inv => PartsSuffice
    BY DEF Inv, Good, PartsSuffice
  <1> QED BY <1>1, Invariance, PTL

-----------------------------------------------------------------------------
(* swapFree *)

\* What is used is what chunks hold.
LEMMA HeldSum ==
    ASSUME NEW s, Sane(s), NEW h, \A c \in Chunks : h[c] = Held(s, c)
    PROVE  SumOver(Sizes(s), Used(s)) = SumOver(h, Chunks)
  <1> DEFINE f == Sizes(s)
             All(T) == UNION {Chain(s, c) : c \in T}
             G == {T \in SUBSET Chunks : SumOver(f, All(T)) = SumOver(h, T)}
  <1>1. s \in SwapType /\ Tiled(s) /\ Chained(s) /\ Span(s)
    BY DEF Sane, Tiled, Files
  <1>2. \A c \in Chunks : /\ Chain(s, c) \subseteq Used(s) /\ Chain(s, c) \subseteq DOMAIN s.all_space
                          /\ h[c] = SumOver(f, Chain(s, c)) /\ h[c] \in Int
    BY <1>1, ChainIs, HeldIs
  <1>3. \A S \in SUBSET (DOMAIN s.all_space) : IsFiniteSet(S) /\ \A x \in S : f[x] \in Int
    BY <1>1, SizesAre
  <1>4. IsFiniteSet(Chunks)
    BY ConstantsAssumption
  <1>5. \A c, d \in Chunks : c # d => Chain(s, c) \cap Chain(s, d) = {}
    BY OnTheWayIs
  <1> HIDE DEF f
  <1>6. ASSUME NEW T \in SUBSET Chunks, \A U \in SUBSET T : U # T => U \in G
        PROVE  T \in G
    <2>1. CASE T = {}
      <3>1. All(T) = {}
        BY <2>1
      <3>2. SumOver(f, All(T)) = SumOver(h, T)
        <4> HIDE DEF All
        <4> QED BY <2>1, <3>1, SumEmpty
      <3> QED BY <3>2
    <2>2. CASE T # {}
      <3>1. PICK x \in T : TRUE
        BY <2>2
      <3>2. PICK U \in SUBSET T : U = T \ {x}
        OBVIOUS
      <3>3. SumOver(f, All(U)) = SumOver(h, U)
        <4>1. U \in G
          BY <1>6, <3>1, <3>2
        <4> QED BY <4>1
      <3>4. All(U) \in SUBSET All(T) /\ All(T) \ All(U) = Chain(s, x)
        <4>1. T = U \cup {x} /\ x \notin U
          BY <3>1, <3>2
        <4>2. \A c \in U : Chain(s, x) \cap Chain(s, c) = {}
          BY <1>5, <4>1
        <4> QED BY <4>1, <4>2
      <3>5. All(T) \in SUBSET (DOMAIN s.all_space)
        BY <1>2
      <3> HIDE DEF All
      <3>6. SumOver(f, All(T)) = SumOver(f, All(U)) + SumOver(f, Chain(s, x))
        <4>1. PICK S \in SUBSET (DOMAIN s.all_space) : S = All(T)
          BY <3>5
        <4>2. PICK R \in SUBSET S : R = All(U)
          BY <3>4, <4>1
        <4>3. IsFiniteSet(S) /\ \A y \in S : f[y] \in Int
          BY <1>3
        <4>4. SumOver(f, S) = SumOver(f, R) + SumOver(f, S \ R)
          BY <4>2, <4>3, SumUnion
        <4>5. S \ R = Chain(s, x)
          BY <3>4, <4>1, <4>2
        <4> QED BY <4>1, <4>2, <4>4, <4>5
      <3>7. SumOver(h, U) = SumOver(h, T) - h[x]
        <4>1. IsFiniteSet(T)
          BY <1>4, FS_Subset
        <4>2. \A c \in T : h[c] \in Int
          BY <1>2
        <4> QED BY <3>1, <3>2, <4>1, <4>2, SumRemove
      <3>8. SumOver(h, T) \in Int
        <4>1. IsFiniteSet(T) /\ \A c \in T : h[c] \in Int
          BY <1>2, <1>4, FS_Subset
        <4> QED BY <4>1, SumType
      <3>9. h[x] = SumOver(f, Chain(s, x)) /\ h[x] \in Int
        BY <1>2, <3>1
      <3>10. SumOver(f, All(T)) = SumOver(h, T)
        BY <3>3, <3>6, <3>7, <3>8, <3>9
      <3> QED BY <3>10
    <2> QED BY <2>1, <2>2
  <1>7. Chunks \in G
    <2> HIDE DEF G
    <2>1. \A T \in SUBSET Chunks : T \in G
      BY <1>4, <1>6, SubsetInduction
    <2> QED BY <2>1
  <1>8. All(Chunks) = Used(s)
    <2>1. \A off \in Used(s) : \E c \in Chunks : off \in Chain(s, c)
      BY <1>1 DEF Chained, Chain
    <2> QED BY <1>2, <2>1
  <1>9. SumOver(f, All(Chunks)) = SumOver(h, Chunks)
    BY <1>7
  <1> HIDE DEF All
  <1> QED BY <1>8, <1>9 DEF f

\* The sum of what deletions that wait have not given back.
LEMMA RestSum ==
    ASSUME NEW s, NEW S \in SUBSET Chunks, NEW e, \A c \in S : e[c] = Size[c] - Held(s, c)
    PROVE  MapThenSumSet(LAMBDA c : Size[c] - Held(s, c), S) = SumOver(e, S)
  <1> DEFINE Concrete(g) == g = [u \in SUBSET S |-> IF u = {} THEN 0
                                    ELSE (Size[First(u)] - Held(s, First(u))) + g[u \ {First(u)}]]
  <1>1. IsFiniteSet(S)
    BY ChunkSizes
  <1>2. MapThenSumSet(LAMBDA c : Size[c] - Held(s, c), S) = (CHOOSE g : Concrete(g))[S]
    BY DEF MapThenSumSet, MapThenFoldSet, First
  <1>3. \A g : Sums(g, e, SUBSET S) <=> Concrete(g)
    <2>1. \A u \in SUBSET S : u # {} => First(u) \in S
      BY DEF First
    <2>2. \A u \in SUBSET S : u # {} => e[First(u)] = Size[First(u)] - Held(s, First(u))
      BY <2>1
    <2> QED BY <2>2 DEF Sums
  <1>4. PICK g : g = CHOOSE h : Concrete(h)
    OBVIOUS
  <1>5. Sums(g, e, SUBSET S)
    <2>1. \E h : Concrete(h)
      <3> HIDE DEF Concrete
      <3> QED BY <1>1, <1>3, SumsExists
    <2> HIDE DEF Concrete
    <2> QED BY <1>3, <1>4, <2>1
  <1>6. SumOver(e, S) = g[S]
    <2>1. S \in SUBSET S
      OBVIOUS
    <2> QED BY <1>1, <1>5, <2>1, SumIsSums
  <1> HIDE DEF Concrete
  <1> QED BY <1>2, <1>4, <1>6

\* What each chunk claims and what it holds.
LEMMA ClaimsAre ==
    ASSUME NEW s, NEW del, Good(s, del), NEW c \in Chunks
    PROVE  Held(s, c) + (IF c \in del THEN Size[c] - Held(s, c) ELSE 0)
              = Claim(s)[c] + (IF c \in Cached(s) THEN Size[c] ELSE 0)
  <1>1. s \in SwapType /\ Tiled(s) /\ Chained(s) /\ Sane(s) /\ Copies(s) /\ Cached(s) \cap del = {}
    BY GoodCopies DEF Good, Sane
  <1>2. PICK h \in Int, z \in Int : h = Held(s, c) /\ z = Size[c]
    <2>1. Held(s, c) \in Int
      BY <1>1, HeldIs
    <2>2. Size[c] \in Int
      BY ConstantsAssumption
    <2> QED BY <2>1, <2>2
  <1>3. Claim(s)[c] = IF s.status[c] \in Claiming THEN z ELSE 0
    BY <1>2, ClaimIs
  <1>4. CASE c \in del
    <2>1. s.status[c] \in Claiming /\ c \notin Cached(s)
      BY <1>1, <1>4 DEF Good, Waiting, Claiming
    <2> QED BY <1>2, <1>3, <1>4, <2>1
  <1>5. CASE c \notin del /\ s.status[c] \in Claiming
    <2>1. h = z
      BY <1>2, <1>5 DEF Good, Whole
    <2>2. c \notin Cached(s)
      BY <1>5 DEF Cached, Claiming
    <2> QED BY <1>2, <1>3, <1>5, <2>1, <2>2
  <1>6. CASE c \notin del /\ s.status[c] \notin Claiming /\ s.parts[c] # <<>>
    <2>1. h = z
      BY <1>2, <1>6 DEF Good, Whole
    <2>2. s.status[c] # "NONE"
      BY <1>6 DEF Good, Listed
    <2>3. c \in Cached(s)
      BY <1>1, <1>6, <2>2, StatusIs DEF Cached, Claiming
    <2> QED BY <1>2, <1>3, <1>6, <2>1, <2>3
  <1>7. CASE c \notin del /\ s.status[c] \notin Claiming /\ s.parts[c] = <<>>
    <2>1. h = 0
      <3>1. Chain(s, c) = {}
        BY <1>1, <1>7, ChainIs
      <3>2. Held(s, c) = SumOver(Sizes(s), {})
        BY <1>1, <3>1, HeldIs
      <3> QED BY <1>2, <3>2, SumEmpty
    <2>2. c \notin Cached(s)
      BY <1>7 DEF Cached
    <2> QED BY <1>2, <1>3, <1>7, <2>1, <2>2
  <1> QED BY <1>4, <1>5, <1>6, <1>7

\* swapFree is what is free, what page copies hold and what deletions still hold back.
LEMMA FreeIsExact ==
    ASSUME Inv
    PROVE  SwapFreeExact
  <1> DEFINE s == swap
             h == [c \in Chunks |-> Held(s, c)]
             e == [c \in Chunks |-> IF c \in deleting THEN Size[c] - Held(s, c) ELSE 0]
             k == [c \in Chunks |-> IF c \in Cached(s) THEN Size[c] ELSE 0]
             m == [c \in Chunks |-> h[c] + e[c]]
  <1>1. /\ Good(s, deleting) /\ s \in SwapType /\ Sane(s) /\ Tiled(s) /\ Chained(s) /\ Accounted(s)
        /\ deleting \in SUBSET Chunks /\ IsFiniteSet(Chunks)
    BY ConstantsAssumption DEF Inv, Good, Sane
  <1>2. \A c \in Chunks : Held(s, c) \in Int /\ Size[c] \in Int /\ Claim(s)[c] \in Int
    <2>1. \A c \in Chunks : Held(s, c) \in Int
      BY <1>1, HeldIs
    <2>2. \A c \in Chunks : Claim(s)[c] \in Int
      BY ClaimIs
    <2>3. \A c \in Chunks : Size[c] \in Int
      BY ConstantsAssumption
    <2> QED BY <2>1, <2>2, <2>3
  <1>3. \A c \in Chunks : /\ h[c] = Held(s, c) /\ h[c] \in Int /\ e[c] \in Int /\ k[c] \in Int
                          /\ m[c] = h[c] + e[c] /\ Claim(s)[c] \in Int
    BY <1>2
  <1>4. \A c \in Chunks : m[c] = Claim(s)[c] + k[c]
    BY <1>1, ClaimsAre
  <1>5. \A c \in deleting : e[c] = Size[c] - Held(s, c)
    BY <1>1
  <1>6. \A c \in Chunks \ deleting : e[c] = 0
    OBVIOUS
  <1>7. \A c \in Chunks \ Cached(s) : k[c] = 0
    OBVIOUS
  <1>8. \A c \in Cached(s) : k[c] = Size[c]
    BY DEF Cached
  <1> HIDE DEF h, e, k, m
  <1>9. SumOver(m, Chunks) = SumOver(h, Chunks) + SumOver(e, Chunks)
    BY <1>1, <1>3, SumPlus
  <1>10. SumOver(m, Chunks) = Claimed(s) + SumOver(k, Chunks)
    <2>1. PICK a : a = Claim(s)
      OBVIOUS
    <2>2. SumOver(m, Chunks) = SumOver(a, Chunks) + SumOver(k, Chunks)
      BY <1>1, <1>3, <1>4, <2>1, SumPlus
    <2> QED BY <2>1, <2>2 DEF Claimed
  <1>11. SumOver(k, Chunks) = Bytes(Cached(s))
    <2>1. Cached(s) \in SUBSET Chunks
      BY DEF Cached
    <2>2. SumOver(k, Chunks) = SumOver(k, Cached(s))
      BY <1>1, <1>3, <1>7, <2>1, SumSupport
    <2>3. IsFiniteSet(Cached(s))
      BY <1>1, <2>1, FS_Subset
    <2>4. SumOver(k, Cached(s)) = SumOver(Size, Cached(s))
      BY <1>8, <2>3, SumSame
    <2>5. SumOver(Size, Cached(s)) = Bytes(Cached(s))
      BY DEF SumOver, Bytes
    <2> QED BY <2>2, <2>4, <2>5
  <1>12. SumOver(e, Chunks) = MapThenSumSet(LAMBDA c : Size[c] - Held(s, c), deleting)
    <2>1. SumOver(e, Chunks) = SumOver(e, deleting)
      BY <1>1, <1>3, <1>6, SumSupport
    <2>2. MapThenSumSet(LAMBDA c : Size[c] - Held(s, c), deleting) = SumOver(e, deleting)
      BY <1>1, <1>5, RestSum
    <2> QED BY <2>1, <2>2
  <1>13. AllBytes(s) = FreeBytes(s) + SumOver(h, Chunks) /\ FreeBytes(s) \in Int
    <2>1. SumOver(Sizes(s), Used(s)) = SumOver(h, Chunks)
      BY <1>1, <1>3, HeldSum
    <2> QED BY <1>1, <2>1, FreeBytesIs
  <1>14. /\ SumOver(h, Chunks) \in Int /\ SumOver(e, Chunks) \in Int /\ SumOver(k, Chunks) \in Int
         /\ Claimed(s) \in Int
    <2>1. Claimed(s) \in Int
      BY ClaimIs
    <2> QED BY <1>1, <1>3, <2>1, SumType
  <1>15. AllBytes(s) - Claimed(s) = FreeBytes(s) + SumOver(k, Chunks) - SumOver(e, Chunks)
    BY <1>9, <1>10, <1>13, <1>14
  <1>16. swap.swapFree = Wrap(FreeBytes(swap) + Bytes(Cached(swap))
                              - MapThenSumSet(LAMBDA c : Size[c] - Held(swap, c), deleting))
    BY <1>1, <1>11, <1>12, <1>15 DEF Accounted
  <1> QED BY <1>16 DEF SwapFreeExact, Held

\* swapFree, which allocInFree, pffree, claimUsageof and completeTransactionOn add to and take
\* from modulo 2^Width, is always what is free or held by page copies, less the claims of waiting
\* deletions.
THEOREM Exactness == Spec => []SwapFreeExact
  <1>1. Inv => SwapFreeExact
    BY FreeIsExact
  <1> QED BY <1>1, Invariance, PTL

-----------------------------------------------------------------------------
(* PageFile implements SwapSpace: no two chunks have a byte in common, and a chunk that is   *)
(* out has all of its bytes, because locations do not overlap, so the bytes of a chunk are   *)
(* as many as its locations hold.  That a chunk keeps its bytes as long as it is out is      *)
(* shown operation by operation: a chunk stays where it is, or it loses locations and is not *)
(* kept after that, or it gets its bytes now.                                                *)

\* The bytes that c has in s.
BytesIn(s, c) == UNION {off..(off + LocationSize(s, off) - 1) : off \in Chain(s, c)}

KeptIn(s, del) == {c \in Chunks : s.status[c] \in Claiming /\ c \notin del}

-----------------------------------------------------------------------------
(* Bytes *)

\* A location ends before the next one begins.
LEMMA LocationsApart ==
    ASSUME NEW s \in SwapType, Tiled(s), NEW a \in DOMAIN s.all_space, NEW b \in DOMAIN s.all_space, a < b
    PROVE  a + LocationSize(s, a) <= b
  <1>1. a \in Nat /\ b \in Nat /\ LocationSize(s, a) \in Nat \ {0}
    BY KeysAre
  <1>2. Span(s) /\ s.swapSize \in Nat
    BY KeysAre DEF Tiled, Files
  <1>3. a < s.swapSize
    BY <1>1, <1>2 DEF Span
  <1>4. PICK next \in Nat : next = Following(s, a) /\ IsNext(s, a, next)
    BY <1>1, <1>2, <1>3, FollowingIs
  <1>5. b >= next
    BY <1>4 DEF IsNext
  <1>6. a + LocationSize(s, a) <= next
    <2>1. Placed(s, a)
      BY DEF Tiled
    <2> QED BY <1>1, <1>4, <2>1 DEF Placed
  <1> QED BY <1>1, <1>4, <1>5, <1>6

\* No two locations have a byte in common.
LEMMA LocationsDisjoint ==
    ASSUME NEW s \in SwapType, Tiled(s), NEW a \in DOMAIN s.all_space, NEW b \in DOMAIN s.all_space, a # b
    PROVE  (a..(a + LocationSize(s, a) - 1)) \cap (b..(b + LocationSize(s, b) - 1)) = {}
  <1>1. PICK m \in Int, n \in Int : m = LocationSize(s, a) /\ n = LocationSize(s, b)
    BY KeysAre
  <1>2. a \in Int /\ b \in Int
    BY KeysAre
  <1>3. a + m <= b \/ b + n <= a
    <2>1. CASE a < b
      BY <1>1, <2>1, LocationsApart
    <2>2. CASE b < a
      BY <1>1, <2>2, LocationsApart
    <2> QED BY <1>2, <2>1, <2>2
  <1> QED BY <1>1, <1>2, <1>3

\* No two chunks have a byte in common.
LEMMA BytesApart ==
    ASSUME NEW s, Sane(s), NEW c \in Chunks, NEW d \in Chunks, c # d
    PROVE  BytesIn(s, c) \cap BytesIn(s, d) = {}
  <1>1. s \in SwapType /\ Tiled(s) /\ Chained(s)
    BY DEF Sane
  <1>2. Chain(s, c) \subseteq DOMAIN s.all_space /\ Chain(s, d) \subseteq DOMAIN s.all_space
    BY <1>1, ChainIs
  <1>3. Chain(s, c) \cap Chain(s, d) = {}
    BY OnTheWayIs
  <1>4. SUFFICES ASSUME NEW x \in BytesIn(s, c), x \in BytesIn(s, d) PROVE FALSE
    OBVIOUS
  <1>5. PICK a \in Chain(s, c) : x \in a..(a + LocationSize(s, a) - 1)
    BY <1>4 DEF BytesIn
  <1>6. PICK b \in Chain(s, d) : x \in b..(b + LocationSize(s, b) - 1)
    BY <1>4 DEF BytesIn
  <1>7. a \in DOMAIN s.all_space /\ b \in DOMAIN s.all_space /\ a # b
    BY <1>2, <1>3, <1>5, <1>6
  <1>8. (a..(a + LocationSize(s, a) - 1)) \cap (b..(b + LocationSize(s, b) - 1)) = {}
    BY <1>1, <1>7, LocationsDisjoint
  <1> QED BY <1>5, <1>6, <1>8

\* A chunk has as many bytes as its locations hold.
LEMMA BytesCount ==
    ASSUME NEW s, Sane(s), NEW c \in Chunks
    PROVE  Cardinality(BytesIn(s, c)) = Held(s, c)
  <1> DEFINE f == Sizes(s)
             At(o) == o..(o + LocationSize(s, o) - 1)
             All(T) == UNION {At(o) : o \in T}
             G == {T \in SUBSET (DOMAIN s.all_space) :
                      IsFiniteSet(All(T)) /\ Cardinality(All(T)) = SumOver(f, T)}
  <1>1. s \in SwapType /\ Tiled(s) /\ Chained(s) /\ Span(s)
    BY DEF Sane, Tiled, Files
  <1>2. Chain(s, c) \subseteq DOMAIN s.all_space /\ Held(s, c) = SumOver(f, Chain(s, c))
    BY <1>1, ChainIs, HeldIs
  <1>3. \A S \in SUBSET (DOMAIN s.all_space) : IsFiniteSet(S) /\ \A x \in S : f[x] \in Int
    BY <1>1, SizesAre
  <1>4. \A o \in DOMAIN s.all_space : IsFiniteSet(At(o)) /\ Cardinality(At(o)) = f[o]
    <2>1. SUFFICES ASSUME NEW o \in DOMAIN s.all_space
                   PROVE  IsFiniteSet(At(o)) /\ Cardinality(At(o)) = f[o]
      OBVIOUS
    <2>2. PICK n \in Nat \ {0} : n = LocationSize(s, o) /\ f[o] = n
      BY <1>1, KeysAre, SizesAre
    <2>3. o \in Int /\ o + n - 1 \in Int /\ o <= o + n - 1 /\ (o + n - 1) - o + 1 = n
      BY <1>1, <2>2, KeysAre
    <2>4. IsFiniteSet(o..(o + n - 1)) /\ Cardinality(o..(o + n - 1)) = n
      BY <2>3, FS_Interval
    <2> QED BY <2>2, <2>4
  <1>5. \A a, b \in DOMAIN s.all_space : a # b => At(a) \cap At(b) = {}
    BY <1>1, LocationsDisjoint
  <1> HIDE DEF f, At
  <1>6. ASSUME NEW T \in SUBSET (DOMAIN s.all_space), \A U \in SUBSET T : U # T => U \in G
        PROVE  T \in G
    <2>1. CASE T = {}
      <3>1. All(T) = {}
        BY <2>1
      <3>2. IsFiniteSet(All(T)) /\ Cardinality(All(T)) = SumOver(f, T)
        <4> HIDE DEF All
        <4> QED BY <2>1, <3>1, SumEmpty, FS_EmptySet
      <3> QED BY <3>2
    <2>2. CASE T # {}
      <3>1. PICK x \in T : TRUE
        BY <2>2
      <3>2. PICK U \in SUBSET T : U = T \ {x}
        OBVIOUS
      <3>3. IsFiniteSet(All(U)) /\ Cardinality(All(U)) = SumOver(f, U)
        <4>1. U \in G
          BY <1>6, <3>1, <3>2
        <4> QED BY <4>1
      <3>4. All(T) = All(U) \cup At(x) /\ All(U) \cap At(x) = {}
        <4>1. T = U \cup {x} /\ x \notin U /\ x \in DOMAIN s.all_space
          BY <3>1, <3>2
        <4>2. \A y \in U : At(y) \cap At(x) = {}
          BY <1>5, <4>1
        <4> QED BY <4>1, <4>2
      <3>5. IsFiniteSet(At(x)) /\ Cardinality(At(x)) = f[x] /\ f[x] \in Int
        BY <1>3, <1>4, <3>1
      <3> HIDE DEF All
      <3>6. PICK A, B : A = All(U) /\ B = At(x)
        OBVIOUS
      <3>7. IsFiniteSet(A \cup B) /\ Cardinality(A \cup B) = Cardinality(A) + Cardinality(B) - Cardinality(A \cap B)
        BY <3>3, <3>5, <3>6, FS_Union
      <3>8. Cardinality(A \cap B) = 0
        BY <3>4, <3>6, FS_EmptySet
      <3>9. SumOver(f, U) = SumOver(f, T) - f[x]
        <4>1. IsFiniteSet(T) /\ \A o \in T : f[o] \in Int
          BY <1>3
        <4> QED BY <3>1, <3>2, <4>1, SumRemove
      <3>10. SumOver(f, T) \in Int
        <4>1. IsFiniteSet(T) /\ \A o \in T : f[o] \in Int
          BY <1>3
        <4> QED BY <4>1, SumType
      <3>11. Cardinality(A \cup B) = SumOver(f, T)
        BY <3>3, <3>5, <3>6, <3>7, <3>8, <3>9, <3>10
      <3>12. IsFiniteSet(All(T)) /\ Cardinality(All(T)) = SumOver(f, T)
        BY <3>4, <3>6, <3>7, <3>11
      <3> QED BY <3>12
    <2> QED BY <2>1, <2>2
  <1>7. Chain(s, c) \in G
    <2>1. IsFiniteSet(DOMAIN s.all_space)
      BY <1>3
    <2> HIDE DEF G
    <2>2. \A T \in SUBSET (DOMAIN s.all_space) : T \in G
      BY <1>6, <2>1, SubsetInduction
    <2> QED BY <1>2, <2>2
  <1>8. BytesIn(s, c) = All(Chain(s, c))
    BY DEF BytesIn, At
  <1> HIDE DEF All
  <1> QED BY <1>2, <1>7, <1>8

-----------------------------------------------------------------------------
(* What an operation leaves a chunk *)

\* From s to r, c has the same locations, or none that it did not have.
Stays(s, r, c) ==
    Chain(r, c) = Chain(s, c) /\ \A off \in Chain(s, c) : LocationSize(r, off) = LocationSize(s, off)
Rests(s, r, c) ==
    Chain(r, c) \subseteq Chain(s, c) /\ \A off \in Chain(r, c) : LocationSize(r, off) = LocationSize(s, off)

\* c stays where it is, or a page copy of it has been deleted.
Loses(s, r, c) ==
    r.status[c] = s.status[c] /\ (Stays(s, r, c) \/ (Rests(s, r, c) /\ s.status[c] = "ALLOCATED"))

\* Nothing but page copies has been deleted.
Frees(s, r) == \A c \in Chunks : Loses(s, r, c)

\* The same, but for c that is now on its way out or out.
Out(s, r, c) == \A d \in Chunks : Loses(s, r, d) \/ (d = c /\ r.status[c] \in Claiming)

\* What a step may do to the locations of the chunks.
Moves(s, del, r, rel) ==
    \A c \in Chunks : \/ Stays(s, r, c)
                      \/ Rests(s, r, c) /\ (c \notin KeptIn(s, del) \/ c \notin KeptIn(r, rel))
                      \/ c \in KeptIn(r, rel) /\ c \notin KeptIn(s, del)

\* The chain and its locations are the same.
LEMMA StaysIs ==
    ASSUME NEW s, NEW r, NEW c, r.parts[c] = s.parts[c],
           \A off \in Chain(s, c) : r.all_space[off] = s.all_space[off]
    PROVE  Stays(s, r, c)
  BY DEF Stays, Chain, LocationSize

\* One after the other.
LEMMA LosesTwice ==
    ASSUME NEW s, NEW t, NEW r, NEW c, Loses(s, t, c), Loses(t, r, c)
    PROVE  Loses(s, r, c)
  BY DEF Loses, Stays, Rests

\* Page copies are not kept.
LEMMA LosesMoves ==
    ASSUME NEW s, NEW r, NEW c \in Chunks, Loses(s, r, c), NEW del, NEW rel
    PROVE  \/ Stays(s, r, c)
           \/ Rests(s, r, c) /\ (c \notin KeptIn(s, del) \/ c \notin KeptIn(r, rel))
  <1>1. "ALLOCATED" \notin Claiming
    BY DEF Claiming
  <1> QED BY <1>1 DEF Loses, KeptIn

\* Deleting page copies.
LEMMA CleanedFrees ==
    ASSUME NEW s, Sane(s), NEW r, NEW K, Cleaned(s, r, K)
    PROVE  Frees(s, r)
  <1>1. Sane(r) /\ r.status = s.status /\ K \subseteq Cached(s)
        /\ (\A d \in Chunks : r.parts[d] = IF d \in K THEN <<>> ELSE s.parts[d])
        /\ \A off \in Used(r) : r.all_space[off] = s.all_space[off]
    BY DEF Cleaned, Alike
  <1>2. SUFFICES ASSUME NEW d \in Chunks PROVE Loses(s, r, d)
    BY DEF Frees
  <1>3. CASE d \in K
    <2>1. r.parts[d] = <<>>
      BY <1>1, <1>3
    <2>2. Chain(r, d) = {}
      BY <2>1 DEF Chain
    <2>3. s.status[d] = "ALLOCATED"
      BY <1>1, <1>3 DEF Cached
    <2> QED BY <1>1, <2>2, <2>3 DEF Loses, Rests
  <1>4. CASE d \notin K
    <2>1. r.parts[d] = s.parts[d]
      BY <1>1, <1>4
    <2>2. Chain(r, d) \subseteq Used(r) /\ Chain(r, d) = Chain(s, d)
      BY <1>1, <2>1, ChainIs DEF Sane, Chain
    <2>3. Stays(s, r, d)
      BY <1>1, <2>1, <2>2, StaysIs
    <2> QED BY <1>1, <2>3 DEF Loses
  <1> QED BY <1>3, <1>4

\* Adding files.
LEMMA ExtendedFrees ==
    ASSUME NEW s, Sane(s), NEW k, NEW r, Extended(s, r, k)
    PROVE  Frees(s, r)
  <1>1. r.parts = s.parts /\ r.status = s.status
        /\ \A off \in DOMAIN s.all_space : r.all_space[off] = s.all_space[off]
    BY DEF Extended
  <1>2. \A d \in Chunks : Chain(s, d) \subseteq DOMAIN s.all_space
    BY ChainIs DEF Sane
  <1>3. \A d \in Chunks : Stays(s, r, d)
    BY <1>1, <1>2, StaysIs
  <1> QED BY <1>1, <1>3 DEF Frees, Loses

\* Making room deletes page copies at most.
LEMMA MakeRoomFrees ==
    ASSUME NEW s, NEW del, Good(s, del), Chunks # {}, NEW n \in Nat
    PROVE  Frees(s, MakeRoom(s, n))
  <1>1. PICK a : a = IF s.swapFree < n THEN CleanupCachedElements(s, n - s.swapFree).s ELSE s
    OBVIOUS
  <1>2. Sane(s) /\ Copies(s) /\ Cleaned(s, s, {})
    BY GoodCopies, CleanedNone DEF Good
  <1>3. PICK K : Cleaned(s, a, K)
    <2>1. CASE s.swapFree < n
      <3>1. PICK x : x = CleanupCachedElements(s, n - s.swapFree)
        OBVIOUS
      <3>2. CleanupEnds(s, n - s.swapFree, x)
        BY <1>2, <3>1, CleanupIs
      <3>3. a = x.s
        BY <1>1, <2>1, <3>1
      <3> QED BY <3>2, <3>3 DEF CleanupEnds
    <2>2. CASE ~(s.swapFree < n)
      BY <1>1, <1>2, <2>2
    <2> QED BY <2>1, <2>2
  <1>4. Sane(a) /\ Frees(s, a)
    BY <1>2, <1>3, CleanedFrees DEF Cleaned
  <1>5. MakeRoom(s, n) = IF a.swapFree < n THEN ExtendSwapByPolicy(a, n - a.swapFree) ELSE a
    BY <1>1 DEF MakeRoom
  <1>6. CASE ~(a.swapFree < n)
    BY <1>4, <1>5, <1>6
  <1>7. CASE a.swapFree < n
    <2>1. a \in SwapType /\ Tiled(a)
      BY <1>4 DEF Sane
    <2>2. PICK m \in Nat : m = n - a.swapFree
      <3>1. a.swapFree \in Int
        BY <2>1, SwapFreeIs
      <3> QED BY <1>7, <3>1
    <2>3. PICK P \in Nat \ {0} : P = PageFileSize
      BY ConstantsAssumption
    <2>4. PICK k \in Nat : k = (m + P - 1) \div P
      <3>1. PICK x \in Nat : x = m + P - 1
        BY <2>3
      <3>2. x \div P \in Nat
        BY <2>3, <3>1
      <3> QED BY <3>1, <3>2
    <2>5. ExtendSwapByPolicy(a, m) =
             IF a.policy = "autoextendable" /\ a.swapSize + k * PageFileSize <= MaxFiles * PageFileSize
             THEN ExtendSwap(a, k * PageFileSize) ELSE a
      BY <2>3, <2>4 DEF ExtendSwapByPolicy
    <2>6. CASE a.policy = "autoextendable" /\ a.swapSize + k * PageFileSize <= MaxFiles * PageFileSize
      <3>1. PICK r : r = ExtendSwap(a, k * PageFileSize)
        OBVIOUS
      <3>2. Extended(a, r, k)
        BY <2>1, <2>6, <3>1, ExtendTiled
      <3>3. Frees(a, r)
        BY <1>4, <3>2, ExtendedFrees
      <3>4. MakeRoom(s, n) = r
        BY <1>5, <1>7, <2>2, <2>5, <2>6, <3>1
      <3>5. Frees(s, r)
        BY <1>4, <3>3, LosesTwice DEF Frees
      <3> QED BY <3>4, <3>5
    <2>7. CASE ~(a.policy = "autoextendable" /\ a.swapSize + k * PageFileSize <= MaxFiles * PageFileSize)
      BY <1>4, <1>5, <1>7, <2>2, <2>5, <2>7
    <2> QED BY <2>6, <2>7
  <1> QED BY <1>6, <1>7

\* Swapping c out may delete page copies, and else moves c alone.
LEMMA UnloadOut ==
    ASSUME NEW s, NEW del, Good(s, del), NEW c \in Chunks, s.status[c] = "ALLOCATED"
    PROVE  Out(s, UnloadChunk(s, c), c)
  <1>1. PICK x : x = Pfmalloc(s, c)
    OBVIOUS
  <1>2. UnloadChunk(s, c) =
           IF Size[c] > s.swapFree THEN s
           ELSE IF s.parts[c] # <<>>
           THEN [s EXCEPT !.status[c] = "SWAPPED", !.swapFree = Wrap(@ - Size[c])]
           ELSE IF x.parts = <<>> THEN x.s
           ELSE CopyMem([x.s EXCEPT !.parts[c] = x.parts, !.status[c] = "SWAPOUT", !.swapFree = Wrap(@ - Size[c])], c)
    BY <1>1 DEF UnloadChunk
  <1>3. Sane(s) /\ Copies(s) /\ s \in SwapType /\ s.status \in [Chunks -> Statuses]
    BY GoodCopies, FieldsAre DEF Good, Sane
  <1>4. CASE Size[c] > s.swapFree
    <2>1. \A d \in Chunks : Stays(s, s, d)
      BY DEF Stays
    <2> QED BY <1>2, <1>4, <2>1 DEF Out, Loses
  <1>5. CASE ~(Size[c] > s.swapFree) /\ s.parts[c] # <<>>
    <2>1. PICK r : r = [s EXCEPT !.status[c] = "SWAPPED", !.swapFree = Wrap(@ - Size[c])]
      OBVIOUS
    <2>2. r.parts = s.parts /\ r.all_space = s.all_space /\ r.status = [s.status EXCEPT ![c] = "SWAPPED"]
      BY <1>3, <2>1 DEF SwapType
    <2>3. \A d \in Chunks : Stays(s, r, d)
      BY <2>2, StaysIs
    <2>4. r.status[c] \in Claiming /\ \A d \in Chunks : d # c => r.status[d] = s.status[d]
      BY <1>3, <2>2 DEF Claiming
    <2>5. Out(s, r, c)
      BY <2>3, <2>4 DEF Out, Loses
    <2> QED BY <1>2, <1>5, <2>1, <2>5
  <1>6. CASE ~(Size[c] > s.swapFree) /\ s.parts[c] = <<>>
    <2>1. PfmallocEnds(s, x, c)
      BY <1>1, <1>3, PfmallocIs
    <2>2. PICK K, t : /\ Cleaned(s, t, K)
                      /\ \/ x.parts = <<>> /\ (x.s = t \/ x.s = [t EXCEPT !.thrown = c])
                         \/ Taken(t, x.s, x.parts, c)
      BY <2>1 DEF PfmallocEnds
    <2>3. Frees(s, t) /\ Sane(t) /\ t \in SwapType /\ t.status \in [Chunks -> Statuses]
      BY <1>3, <2>2, CleanedFrees, FieldsAre DEF Cleaned, Sane
    <2>4. CASE x.parts = <<>>
      <3>1. UnloadChunk(s, c) = x.s
        BY <1>2, <1>6, <2>4
      <3>2. ~Taken(t, x.s, x.parts, c)
        <4>1. SUFFICES ASSUME Taken(t, x.s, x.parts, c) PROVE FALSE
          OBVIOUS
        <4>2. {x.parts[i] : i \in 1..Len(x.parts)} = {}
          BY <2>4
        <4>3. SumOver(Sizes(x.s), {}) = Size[c]
          BY <4>1, <4>2 DEF Taken
        <4> QED BY <4>3, SumEmpty, ConstantsAssumption
      <3>3. x.s.parts = t.parts /\ x.s.all_space = t.all_space /\ x.s.status = t.status
        BY <2>2, <2>3, <3>2 DEF SwapType
      <3>4. \A d \in Chunks : Loses(t, x.s, d)
        BY <3>3, StaysIs DEF Loses
      <3> QED BY <2>3, <3>1, <3>4, LosesTwice DEF Out, Frees
    <2>5. CASE x.parts # <<>>
      <3>1. PICK u, r : u = x.s /\ r = CopyMem([u EXCEPT !.parts[c] = x.parts, !.status[c] = "SWAPOUT",
                                                         !.swapFree = Wrap(@ - Size[c])], c)
        OBVIOUS
      <3>2. UnloadChunk(s, c) = r
        BY <1>2, <1>6, <2>5, <3>1
      <3>3. Taken(t, u, x.parts, c)
        BY <2>2, <2>5, <3>1
      <3>4. u \in SwapType /\ u.parts = t.parts /\ u.status = t.status
            /\ \A off \in Used(t) : u.all_space[off] = t.all_space[off]
        BY <3>3 DEF Taken, Beside
      <3>5. u.parts \in [Chunks -> Seq(Nat)]
        BY <3>4, FieldsAre
      <3>6. /\ r.parts = [u.parts EXCEPT ![c] = x.parts] /\ r.all_space = u.all_space
            /\ r.status = [u.status EXCEPT ![c] = "SWAPOUT"]
        BY <3>1, <3>4 DEF CopyMem, SwapType
      <3>7. \A d \in Chunks : d # c => r.parts[d] = t.parts[d] /\ r.status[d] = t.status[d]
        BY <2>3, <3>4, <3>5, <3>6
      <3>8. r.status[c] \in Claiming
        BY <2>3, <3>4, <3>6 DEF Claiming
      <3>9. \A d \in Chunks : Chain(t, d) \subseteq Used(t)
        BY <2>3, ChainIs DEF Sane
      <3>10. \A d \in Chunks : d # c => Stays(t, r, d)
        BY <3>4, <3>6, <3>7, <3>9, StaysIs
      <3>11. \A d \in Chunks : d # c => Loses(s, r, d)
        BY <2>3, <3>7, <3>10, LosesTwice DEF Frees, Loses
      <3> QED BY <3>2, <3>8, <3>11 DEF Out
    <2> QED BY <2>4, <2>5
  <1> QED BY <1>4, <1>5, <1>6

\* Deleting c takes from c alone, and c is not kept after that.
LEMMA DeleteMoves ==
    ASSUME NEW s, NEW del, Good(s, del), NEW c \in Chunks, NEW t, t = Pffree(s, c), NEW r, NEW rel,
           IF t.parts[c] = <<>> THEN r = Erased(t, c) /\ rel = del \ {c} ELSE r = t /\ rel = del \cup {c}
    PROVE  Moves(s, del, r, rel)
  <1>1. Sane(s) /\ s \in SwapType /\ Tiled(s) /\ Chained(s)
    BY DEF Good, Sane
  <1>2. PICK j \in 0..Len(s.parts[c]) : Given(s, t, c, j)
    BY <1>1, PffreeIs DEF PffreeEnds
  <1>3. Sane(t) /\ t \in SwapType /\ Tiled(t) /\ Chained(t) /\ t.status \in [Chunks -> Statuses]
    BY <1>2, FieldsAre DEF Given, Sane
  <1>4. r.parts = t.parts /\ r.all_space = t.all_space
    BY <1>3 DEF Erased, SwapType
  <1>5. c \notin KeptIn(r, rel)
    <2>1. CASE t.parts[c] = <<>>
      <3>1. r.status = [t.status EXCEPT ![c] = "NONE"]
        BY <1>3, <2>1 DEF Erased, SwapType
      <3>2. r.status[c] \notin Claiming
        BY <1>3, <3>1 DEF Claiming
      <3> QED BY <3>2 DEF KeptIn
    <2>2. CASE t.parts[c] # <<>>
      BY <2>2 DEF KeptIn
    <2> QED BY <2>1, <2>2
  <1>6. \A d \in Chunks : Chain(t, d) \subseteq Used(t) /\ Chain(r, d) = Chain(t, d)
    BY <1>3, <1>4, ChainIs DEF Chain
  <1>7. \A off \in Used(t) : r.all_space[off] = s.all_space[off]
    BY <1>2, <1>4 DEF Given
  <1>8. \A d \in Chunks : d # c => Stays(s, r, d)
    <2>1. SUFFICES ASSUME NEW d \in Chunks, d # c PROVE Stays(s, r, d)
      OBVIOUS
    <2>2. r.parts[d] = s.parts[d]
      BY <1>2, <1>4, <2>1 DEF Given
    <2>3. Chain(s, d) = Chain(r, d)
      BY <2>2 DEF Chain
    <2>4. \A off \in Chain(s, d) : r.all_space[off] = s.all_space[off]
      BY <1>6, <1>7, <2>3
    <2> QED BY <2>2, <2>4, StaysIs
  <1>9. Rests(s, r, c)
    <2>1. \A i \in 1..Len(t.parts[c]) : t.parts[c][i] \in Chain(s, c)
      <3>1. PICK m \in Nat, n \in Nat : m = Len(s.parts[c]) /\ n = Len(t.parts[c])
        BY <1>1, <1>3, PartsAre
      <3>2. n = m - j /\ \A i \in 1..n : t.parts[c][i] = s.parts[c][i + j]
        BY <1>2, <3>1 DEF Given
      <3>3. \A i \in 1..n : i + j \in 1..m
        BY <1>2, <3>1, <3>2
      <3> QED BY <3>1, <3>2, <3>3 DEF Chain
    <2>2. \A off \in Chain(t, c) : \E i \in 1..Len(t.parts[c]) : t.parts[c][i] = off
      BY DEF Chain
    <2>3. Chain(r, c) \subseteq Chain(s, c)
      BY <1>6, <2>1, <2>2
    <2> QED BY <1>6, <1>7, <2>3 DEF Rests, LocationSize
  <1> QED BY <1>5, <1>8, <1>9 DEF Moves

-----------------------------------------------------------------------------
(* The steps *)

\* Chunks that only lose page copies move so.
LEMMA FreesMoves ==
    ASSUME NEW s, NEW r, Frees(s, r), NEW del
    PROVE  Moves(s, del, r, del)
  BY LosesMoves DEF Frees, Moves

\* So do all where the locations are the same.
LEMMA SameMoves ==
    ASSUME NEW s, NEW r, r.parts = s.parts, r.all_space = s.all_space, NEW del, NEW rel
    PROVE  Moves(s, del, r, rel)
  BY StaysIs DEF Moves

\* Every step does to the locations of a chunk only what Moves allows.
LEMMA StepMoves ==
    ASSUME Good(swap, deleting), [Next]_vars
    PROVE  Moves(swap, deleting, swap', deleting')
  <1>1. Sane(swap) /\ Copies(swap) /\ swap \in SwapType
    BY GoodCopies DEF Good, Sane
  <1>2. CASE UNCHANGED vars
    BY <1>2, SameMoves DEF vars
  <1>3. ASSUME NEW c \in Chunks, Mmalloc(c) PROVE Moves(swap, deleting, swap', deleting')
    <2>1. swap'.parts = swap.parts /\ swap'.all_space = swap.all_space
      BY <1>1, <1>3 DEF Mmalloc, SwapType
    <2> QED BY <2>1, SameMoves
  <1>4. ASSUME NEW c \in Chunks, SwapOut(c) PROVE Moves(swap, deleting, swap', deleting')
    <2>1. swap' = UnloadChunk(MakeRoom(swap, Size[c]), c) /\ deleting' = deleting
          /\ swap.status[c] = "ALLOCATED" /\ c \notin deleting
      BY <1>4 DEF SwapOut, Live
    <2>2. Chunks # {} /\ Size[c] \in Nat
      BY ConstantsAssumption
    <2>3. PICK s : s = MakeRoom(swap, Size[c])
      OBVIOUS
    <2>4. Good(s, deleting) /\ s.status = swap.status
      BY <2>2, <2>3, MakeRoomGood
    <2>5. Frees(swap, s)
      BY <2>2, <2>3, MakeRoomFrees
    <2>6. PICK r : r = UnloadChunk(s, c)
      OBVIOUS
    <2>7. Out(s, r, c)
      BY <2>1, <2>4, <2>6, UnloadOut
    <2>8. \A d \in Chunks : Loses(swap, r, d) \/ (d = c /\ r.status[c] \in Claiming)
      BY <2>5, <2>7, LosesTwice DEF Frees, Out
    <2>9. c \notin KeptIn(swap, deleting) /\ (r.status[c] \in Claiming => c \in KeptIn(r, deleting))
      BY <2>1 DEF KeptIn, Claiming
    <2>10. Moves(swap, deleting, r, deleting)
      BY <2>8, <2>9, LosesMoves DEF Moves
    <2> QED BY <2>1, <2>3, <2>6, <2>10
  <1>5. ASSUME NEW c \in Chunks, SwapIn(c) PROVE Moves(swap, deleting, swap', deleting')
    <2>1. swap'.parts = swap.parts /\ swap'.all_space = swap.all_space
      BY <1>1, <1>5 DEF SwapIn, LoadChunk, CopyMem, SwapType
    <2> QED BY <2>1, SameMoves
  <1>6. ASSUME NEW c \in Chunks, InvalidateCacheFor(c) PROVE Moves(swap, deleting, swap', deleting')
    <2>1. c \in Cached(swap) /\ swap' = Pffree(swap, c) /\ deleting' = deleting
      BY <1>6 DEF InvalidateCacheFor
    <2>2. Chunks # {}
      OBVIOUS
    <2>3. Cleaned(swap, swap, {})
      BY <1>1, <2>2, CleanedNone
    <2>4. Cleaned(swap, swap', {} \cup {c})
      BY <1>1, <2>1, <2>3, CleanedMore
    <2>5. Frees(swap, swap')
      BY <1>1, <2>4, CleanedFrees
    <2> QED BY <2>1, <2>5, FreesMoves
  <1>7. ASSUME NEW c \in Chunks, SwapDelete(c) PROVE Moves(swap, deleting, swap', deleting')
    <2>1. PICK t : t = Pffree(swap, c)
      OBVIOUS
    <2>2. IF t.parts[c] = <<>> THEN swap' = Erased(t, c) /\ deleting' = deleting \ {c}
          ELSE swap' = t /\ deleting' = deleting \cup {c}
      BY <1>7, <2>1 DEF SwapDelete
    <2> QED BY <2>1, <2>2, DeleteMoves
  <1>8. ASSUME NEW c \in Chunks, Mfree(c) \/ PffreeAgain(c) PROVE Moves(swap, deleting, swap', deleting')
    BY <1>7, <1>8 DEF Mfree, PffreeAgain
  <1>9. ASSUME NEW c \in Chunks, Arrive(c) PROVE Moves(swap, deleting, swap', deleting')
    <2>1. PICK off : swap' = AsyncIoArrived(swap, c, off)
      BY <1>9 DEF Arrive
    <2>2. swap'.parts = swap.parts /\ swap'.all_space = swap.all_space
      BY <1>1, <2>1 DEF AsyncIoArrived, CompleteTransactionOn, SwapType
    <2> QED BY <2>2, SameMoves
  <1>10. ASSUME CleanCache PROVE Moves(swap, deleting, swap', deleting')
    <2>1. Chunks # {} /\ swap' = CleanupCachedElements(swap, 0).s /\ deleting' = deleting
      BY <1>10 DEF CleanCache, Cached
    <2>2. CleanupEnds(swap, 0, CleanupCachedElements(swap, 0))
      BY <1>1, <2>1, CleanupIs
    <2>3. PICK K : Cleaned(swap, swap', K)
      BY <2>1, <2>2 DEF CleanupEnds
    <2>4. Frees(swap, swap')
      BY <1>1, <2>3, CleanedFrees
    <2> QED BY <2>1, <2>4, FreesMoves
  <1>11. CASE Stopped
    BY <1>2, <1>11 DEF Stopped
  <1> QED BY <1>2, <1>3, <1>4, <1>5, <1>6, <1>8, <1>9, <1>10, <1>11 DEF Next

-----------------------------------------------------------------------------
(* The refinement *)

\* The bytes of a chunk whose locations stay, or of which some stay.
LEMMA BytesMove ==
    ASSUME NEW s, NEW r, NEW c
    PROVE  /\ Stays(s, r, c) => BytesIn(r, c) = BytesIn(s, c)
           /\ Rests(s, r, c) => BytesIn(r, c) \subseteq BytesIn(s, c)
  BY DEF Stays, Rests, BytesIn

\* A chunk that is kept has as many bytes as it needs.
LEMMA KeptBytes ==
    ASSUME NEW s, NEW del, Good(s, del), NEW c \in KeptIn(s, del)
    PROVE  Cardinality(BytesIn(s, c)) = Size[c]
  <1>1. c \in Chunks /\ Sane(s) /\ Held(s, c) = Size[c]
    BY DEF KeptIn, Good, Whole
  <1> QED BY <1>1, BytesCount

\* The locations of BytesOf are those of the chain.
LEMMA BytesInIs ==
    ASSUME NEW s, Sane(s), NEW c \in Chunks
    PROVE  UNION {off..(off + LocationSize(s, off) - 1) : off \in ToSet(s.parts[c])} = BytesIn(s, c)
  <1>1. ToSet(s.parts[c]) = Chain(s, c)
    BY ChainIs DEF Sane
  <1> QED BY <1>1 DEF BytesIn

\* What the refinement mapping gives, in the words of the operators above.
LEMMA MappingIs ==
    ASSUME Good(swap, deleting), Good(swap', deleting')
    PROVE  /\ Kept = KeptIn(swap, deleting) /\ Kept' = KeptIn(swap', deleting')
           /\ BytesOf = [c \in Chunks |-> BytesIn(swap, c)]
           /\ BytesOf' = [c \in Chunks |-> BytesIn(swap', c)]
  <1>1. Kept = KeptIn(swap, deleting) /\ Kept' = KeptIn(swap', deleting')
    BY DEF Kept, KeptIn, Claiming
  <1>2. \A c \in Chunks :
           UNION {off..(off + LocationSize(swap, off) - 1) : off \in ToSet(swap.parts[c])} = BytesIn(swap, c)
    BY BytesInIs DEF Good
  <1>3. \A c \in Chunks :
           UNION {off..(off + LocationSize(swap', off) - 1) : off \in ToSet(swap'.parts[c])} = BytesIn(swap', c)
    BY BytesInIs DEF Good
  <1>4. BytesOf = [c \in Chunks |-> BytesIn(swap, c)]
    BY <1>2 DEF BytesOf
  <1>5. BytesOf' = [c \in Chunks |-> BytesIn(swap', c)]
    BY <1>3 DEF BytesOf
  <1> QED BY <1>1, <1>4, <1>5

\* At the start no chunk has a byte.
LEMMA InitMaps ==
    ASSUME Init
    PROVE  Space!Init
  <1>1. Good(swap, deleting)
    BY InitGood
  <1>2. \A c \in Chunks : swap.parts[c] = <<>> /\ swap.status[c] = "NONE"
    BY DEF Init
  <1>3. \A c \in Chunks : Chain(swap, c) = {}
    BY <1>2 DEF Chain
  <1>4. \A c \in Chunks : BytesIn(swap, c) = {}
    BY <1>3 DEF BytesIn
  <1>5. BytesOf = [c \in Chunks |-> {}]
    <2>1. \A c \in Chunks :
             UNION {off..(off + LocationSize(swap, off) - 1) : off \in ToSet(swap.parts[c])} = {}
      BY <1>1, <1>4, BytesInIs DEF Good
    <2> QED BY <2>1 DEF BytesOf
  <1>6. Kept = {}
    BY <1>2 DEF Kept
  <1> QED BY <1>5, <1>6 DEF Space!Init

\* Every step of the page files is one that SwapSpace allows.
LEMMA StepMaps ==
    ASSUME Inv, [Next]_vars
    PROVE  Space!Next
  <1>1. Good(swap, deleting) /\ Good(swap', deleting') /\ Moves(swap, deleting, swap', deleting')
    BY StepGood, StepMoves DEF Inv
  <1>2. PICK s, r, del, rel : s = swap /\ r = swap' /\ del = deleting /\ rel = deleting'
    OBVIOUS
  <1>3. Good(s, del) /\ Good(r, rel) /\ Moves(s, del, r, rel) /\ Sane(r)
    BY <1>1, <1>2 DEF Good
  <1>4. Kept = KeptIn(s, del) /\ \A c \in Chunks : BytesOf[c] = BytesIn(s, c)
    BY <1>1, <1>2, MappingIs
  <1>5. Kept' = KeptIn(r, rel) /\ \A c \in Chunks : BytesOf'[c] = BytesIn(r, c)
    BY <1>1, <1>2, MappingIs
  <1>6. \A c, d \in Chunks : c # d => BytesOf'[c] \cap BytesOf'[d] = {}
    BY <1>3, <1>5, BytesApart
  <1>7. \A c \in Kept' : Cardinality(BytesOf'[c]) = Size[c]
    <2>1. \A c \in KeptIn(r, rel) : c \in Chunks /\ Cardinality(BytesIn(r, c)) = Size[c]
      BY <1>3, KeptBytes DEF KeptIn
    <2> QED BY <1>5, <2>1
  <1>8. \A c \in Chunks : BytesOf'[c] \subseteq BytesOf[c] \/ Cardinality(BytesOf'[c]) = Size[c]
    <2>1. SUFFICES ASSUME NEW c \in Chunks
                   PROVE  BytesIn(r, c) \subseteq BytesIn(s, c) \/ Cardinality(BytesIn(r, c)) = Size[c]
      BY <1>4, <1>5
    <2>2. \/ Stays(s, r, c) \/ Rests(s, r, c) \/ c \in KeptIn(r, rel)
      BY <1>3 DEF Moves
    <2> QED BY <1>3, <2>2, BytesMove, KeptBytes
  <1>9. \A c \in Kept \cap Kept' : BytesOf'[c] = BytesOf[c]
    <2>1. SUFFICES ASSUME NEW c \in Chunks, c \in KeptIn(s, del), c \in KeptIn(r, rel)
                   PROVE  BytesIn(r, c) = BytesIn(s, c)
      BY <1>4, <1>5 DEF KeptIn
    <2>2. Stays(s, r, c)
      BY <1>3, <2>1 DEF Moves
    <2> QED BY <2>2, BytesMove
  <1>10. Space!Disjoint'
    BY <1>6 DEF Space!Disjoint
  <1>11. \A S : Space!Cardinality(S) = Cardinality(S)
    BY DEF Space!Cardinality, Cardinality, Space!IsFiniteSet, IsFiniteSet
  <1> QED BY <1>7, <1>8, <1>9, <1>10, <1>11 DEF Space!Next

\* pfmalloc, pffree and the deletion of page copies implement a store in which every chunk
\* that is out has bytes of its own, as many as it needs, and the same ones until it is
\* loaded or deleted.
THEOREM Implementation == Spec => SpaceImplemented
  <1>1. Init => Space!Init
    BY InitMaps
  <1>2. Inv /\ [Next]_vars => [Space!Next]_<<BytesOf, Kept>>
    BY StepMaps
  <1> QED BY <1>1, <1>2, Invariance, PTL DEF Spec, SpaceImplemented, Space!Spec
=============================================================================
