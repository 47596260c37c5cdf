------------------------------ MODULE PageFile ------------------------------
(***************************************************************************)
(* The page files of rambrain, managedFileSwap: which bytes a swapped      *)
(* chunk has.  The files are numbered through and form one range of bytes; *)
(* all_space cuts it into locations, free_space lists those that are free. *)
(* A chunk has one location, or several when no free one is large enough;  *)
(* those are linked and each is transferred on its own.                    *)
(*                                                                         *)
(* Everything here runs with stateChangeMutex held, so each operation is   *)
(* an operator from a state s of the swap to the next one.  Only pffree    *)
(* waits, for a transfer of the location it is about to give back, and     *)
(* gives the mutex away meanwhile: what it has left to do is then in       *)
(* parts, and its chunk in deleting.                                       *)
(***************************************************************************)
EXTENDS Integers, FiniteSets, FiniteSetsExt, SequencesExt, Functions

CONSTANTS Chunks,        \* identities of managedMemoryChunks
          Size,          \* bytes of a chunk
          PageFileSize,  \* pageFileSize
          PageFileNumber,\* pageFileNumber at the start
          MaxFiles,      \* bound: the files the disk has room for
          Width,         \* bits of a global_bytesize
          Layouts,       \* memoryAlignment and sizeof ( pageFileLocation )
          Policies       \* swap policies

ASSUME ConstantsAssumption ==
    /\ IsFiniteSet(Chunks) /\ Size \in [Chunks -> Nat \ {0}]
    /\ PageFileNumber \in Nat \ {0} /\ MaxFiles \in Nat /\ MaxFiles >= PageFileNumber
    /\ \A l \in Layouts : /\ DOMAIN l = {"alignment", "record"}
                          /\ l.alignment \in Nat \ {0} /\ l.record \in Nat \ {0}
                          /\ PageFileSize % l.alignment = 0
    /\ Width \in Nat /\ 2^Width > 2 * MaxFiles * PageFileSize
    /\ PageFileSize \in Nat \ {0} /\ Policies \subseteq {"fixed", "autoextendable"}

ASSUME NamesAssumption == Chunks \cap {"none", "past the end"} = {}

VARIABLES swap,       \* the members of managedFileSwap and of its chunks, a record
          deleting    \* chunks whose mfree waits in pffree

vars == <<swap, deleting>>

Statuses == {"NONE", "ALLOCATED", "SWAPOUT", "SWAPPED", "SWAPIN"}

Init ==
    /\ deleting = {}
    /\ \E l \in Layouts, p \in Policies :
          LET files == {n * PageFileSize : n \in 0..(PageFileNumber - 1)}
          IN  swap = [all_space  |-> [off \in files |-> [size |-> PageFileSize, status |-> "FREE"]],
                      free_space |-> files,
                      swapSize   |-> PageFileNumber * PageFileSize,
                      swapFree   |-> PageFileNumber * PageFileSize,
                      parts      |-> [c \in Chunks |-> <<>>],   \* swapBuf and its glob_off_next
                      pending    |-> {},                        \* locations with an aio_ptr
                      tracker    |-> [c \in Chunks |-> 0],      \* of the transfer of a chunk
                      status     |-> [c \in Chunks |-> "NONE"],
                      memChunks  |-> <<>>,                      \* in the order of their ids
                      thrown     |-> "none",
                      layout |-> l, policy |-> p]

Offsets == 0..(MaxFiles * PageFileSize)

TypeOK ==
    /\ DOMAIN swap.all_space \subseteq Offsets
    /\ \A off \in DOMAIN swap.all_space :
          swap.all_space[off] \in [size : 1..PageFileSize, status : {"FREE", "PART", "END"}]
    /\ swap.free_space \subseteq DOMAIN swap.all_space
    /\ swap.swapSize \in Offsets /\ swap.swapFree \in 0..(2^Width - 1)
    /\ \A c \in Chunks : swap.parts[c] \in Seq(DOMAIN swap.all_space)
    /\ swap.pending \subseteq DOMAIN swap.all_space
    /\ swap.tracker \in [Chunks -> Nat]
    /\ swap.status \in [Chunks -> Statuses]
    /\ ToSet(swap.memChunks) = {c \in Chunks : swap.status[c] # "NONE"}
    /\ swap.thrown \in Chunks \cup {"none", "past the end"}
    /\ deleting \subseteq Chunks

-----------------------------------------------------------------------------
(* What the swap reads off a state *)

Bytes(S) == MapThenSumSet(LAMBDA c : Size[c], S)
Put(f, k, v) == [x \in DOMAIN f \cup {k} |-> IF x = k THEN v ELSE f[x]]
Least(a, b)  == IF a < b THEN a ELSE b

\* Unsigned arithmetic.
Wrap(n) == n % 2^Width

StartOfFile_Never(off) == FALSE                                          \* mutant
StartOfFile(off) == off % PageFileSize = 0
LocationSize(s, off) == s.all_space[off].size
Free(s, off)  == off \in DOMAIN s.all_space /\ s.all_space[off].status = "FREE"

\* The key after off in all_space, or the end of the swap.
Following(s, off) == Min({o \in DOMAIN s.all_space : o > off} \cup {s.swapSize})

\* free_space in the order of its keys.
FreeList(s)  == [i \in 1..Cardinality(s.free_space) |->
                    CHOOSE off \in s.free_space : Cardinality({o \in s.free_space : o < off}) = i - 1]

FreeBytes_Claims(s) == s.swapFree                                        \* mutant
FreeBytes(s) == MapThenSumSet(LAMBDA off : LocationSize(s, off), s.free_space)

Cached_AllCopies(s) == {c \in Chunks : s.status[c] \in {"ALLOCATED", "SWAPPED"} /\ s.parts[c] # <<>>}  \* mutant

\* Chunks that are loaded and have a page copy.
Cached(s) == {c \in Chunks : s.status[c] = "ALLOCATED" /\ s.parts[c] # <<>>}

-----------------------------------------------------------------------------
(* allocInFree and pffree *)

Padded_Not(s, n) == n                                                    \* mutant
Padded(s, n) == ((n + s.layout.alignment - 1) \div s.layout.alignment) * s.layout.alignment

\* The first n bytes of a free location.  A rest too small to be recorded goes with it.
AllocInFree(s, off, n, status) ==
    LET rest == LocationSize(s, off) - Padded(s, n)
        here == Put(s.all_space, off, [size |-> n, status |-> status])
        new  == off + Padded(s, n)
    IN  IF rest < s.layout.record
        THEN [s EXCEPT !.all_space = here, !.free_space = @ \ {off},
                       !.swapFree = Wrap(@ - (Padded(s, n) - n) - rest)]
        ELSE [s EXCEPT !.all_space = Put(here, new, [size |-> rest, status |-> "FREE"]),
                       !.free_space = (@ \ {off}) \cup {new},
                       !.swapFree = Wrap(@ - (Padded(s, n) - n))]

\* One location of pffree: merged with what is free on either side in the same file, after
\* the bytes that were lost behind it have been taken back.
FreeLocation(s, off) ==
    LET before == Max({o \in DOMAIN s.all_space : o < off} \cup {-1})
        merge  == ~StartOfFile(off) /\ Free(s, before)
        start  == IF merge THEN before ELSE off
        had    == LocationSize(s, off) + (IF merge THEN LocationSize(s, before) ELSE 0)
        after  == Following(s, off)
        join   == Free(s, after) /\ ~StartOfFile(after)
        gone   == (IF merge THEN {off} ELSE {}) \cup (IF join THEN {after} ELSE {})
        size   == after - start + (IF join THEN LocationSize(s, after) ELSE 0)
    IN  [s EXCEPT !.swapFree = Wrap(@ + (after - start) - had),
                  !.free_space = (@ \ gone) \cup {start},
                  !.all_space = Put(Restrict(@, DOMAIN @ \ gone), start,
                                    [size |-> size, status |-> "FREE"])]

Pffree_FirstOnly(s, c) ==                                                \* mutant
    IF s.parts[c] = <<>> THEN s ELSE [FreeLocation(s, Head(s.parts[c])) EXCEPT !.parts[c] = Tail(@)]

\* pffree of the locations of c, as far as it gets without waiting for a transfer.
Pffree(s, c) ==
    FoldLeft(LAMBDA r, off :
                 IF off # Head(r.parts[c]) \/ off \in r.pending THEN r
                 ELSE [FreeLocation(r, off) EXCEPT !.parts[c] = Tail(@)],
             s, s.parts[c])

-----------------------------------------------------------------------------
(* cleanupCachedElements, pfmalloc *)

\* Page copies are deleted in the order of ids until minimum bytes are reached, all for 0.
CleanupCachedElements(s, minimum) ==
    LET step(a, c) ==
            IF c \in Cached(a.s) /\ (minimum = 0 \/ a.cleanedUp < minimum)
            THEN [s |-> Pffree(a.s, c), cleanedUp |-> a.cleanedUp + Size[c]] ELSE a
        r == FoldLeft(step, [s |-> s, cleanedUp |-> 0], s.memChunks)
    IN  [s |-> r.s, enough |-> r.cleanedUp > minimum]

\* c distributed over the free locations, from the first one on.
Distribute(s, c) ==
    LET step(a, off) ==
            LET avail == Least(LocationSize(a.s, off), a.left)
                here  == IF a.left > avail THEN avail - (avail % s.layout.alignment) ELSE avail
                last  == a.left = here
            IN  IF a.left = 0 THEN a
                ELSE [s |-> AllocInFree(a.s, off, here, IF last THEN "END" ELSE "PART"),
                      parts |-> Append(a.parts, off), left |-> a.left - here]
    IN  FoldLeft(step, [s |-> s, parts |-> <<>>, left |-> Size[c]], FreeList(s))

\* With the list at its end and bytes left the code goes on with a key read past the end.
Pfmalloc(s, c) ==
    LET fits    == {off \in s.free_space : LocationSize(s, off) >= Size[c]}
        total   == FreeBytes(s)
        cleaned == IF total < Size[c] THEN CleanupCachedElements(s, Size[c] - total)
                   ELSE [s |-> s, enough |-> TRUE]
        d       == Distribute(cleaned.s, c)
    IN  CASE s.free_space = {} -> [s |-> s, parts |-> <<>>]
          [] fits # {} -> [s |-> AllocInFree(s, Min(fits), Size[c], "END"), parts |-> <<Min(fits)>>]
          [] s.free_space # {} /\ fits = {} /\ ~cleaned.enough ->
                [s |-> [cleaned.s EXCEPT !.thrown = c], parts |-> <<>>]
          [] s.free_space # {} /\ fits = {} /\ cleaned.enough ->
                [s |-> IF d.left = 0 THEN d.s ELSE [d.s EXCEPT !.thrown = "past the end"],
                 parts |-> d.parts]

-----------------------------------------------------------------------------
(* Transfers *)

\* Every part is scheduled; the count copyMem itself holds is given back before any of them
\* can arrive, for arrivals need the mutex.
CopyMem(s, c) ==
    [s EXCEPT !.pending = @ \cup ToSet(s.parts[c]), !.tracker[c] = Len(s.parts[c])]

CompleteTransactionOn(s, c) ==
    IF s.status[c] = "SWAPIN"
    THEN [s EXCEPT !.status[c] = "ALLOCATED", !.swapFree = Wrap(@ + Size[c])]
    ELSE [s EXCEPT !.status[c] = "SWAPPED"]

AsyncIoArrived_AnyPart(s, c, off) ==                                     \* mutant
    CompleteTransactionOn([s EXCEPT !.pending = @ \ {off}, !.tracker[c] = @ - 1], c)

AsyncIoArrived(s, c, off) ==
    LET r == [s EXCEPT !.pending = @ \ {off}, !.tracker[c] = @ - 1]
    IN  IF s.tracker[c] = 1 THEN CompleteTransactionOn(r, c) ELSE r

-----------------------------------------------------------------------------
(* extendSwap, swapOut, swapIn, swapDelete *)

ExtendSwap(s, size) ==
    LET new == {s.swapSize + n * PageFileSize : n \in 0..(size \div PageFileSize - 1)}
    IN  [s EXCEPT !.all_space = [off \in DOMAIN @ \cup new |->
                                    IF off \in new THEN [size |-> PageFileSize, status |-> "FREE"]
                                    ELSE @[off]],
                  !.free_space = @ \cup new, !.swapSize = @ + size,
                  !.swapFree = Wrap(@ + size)]

\* The beginning of cyclicManagedMemory::swapOut: copies are deleted and the swap extended
\* when less than n bytes are unclaimed.
ExtendSwapByPolicy(s, n) ==
    LET size == ((n + PageFileSize - 1) \div PageFileSize) * PageFileSize
        fits == s.policy = "autoextendable" /\ s.swapSize + size <= MaxFiles * PageFileSize
    IN  IF fits THEN ExtendSwap(s, size) ELSE s

MakeRoom(s, n) ==
    LET cleaned == IF s.swapFree < n THEN CleanupCachedElements(s, n - s.swapFree).s ELSE s
    IN  IF cleaned.swapFree < n THEN ExtendSwapByPolicy(cleaned, n - cleaned.swapFree) ELSE cleaned

UnloadChunk(s, c) ==
    LET r == Pfmalloc(s, c)
        w == [r.s EXCEPT !.parts[c] = r.parts, !.status[c] = "SWAPOUT", !.swapFree = Wrap(@ - Size[c])]
    IN  IF Size[c] > s.swapFree THEN s
        ELSE IF s.parts[c] # <<>>
        THEN [s EXCEPT !.status[c] = "SWAPPED", !.swapFree = Wrap(@ - Size[c])]
        ELSE IF r.parts = <<>> THEN r.s ELSE CopyMem(w, c)

LoadChunk(s, c) == CopyMem([s EXCEPT !.status[c] = "SWAPIN"], c)

Erased_ClaimKept(s, c) ==                                                \* mutant
    [s EXCEPT !.status[c] = "NONE", !.memChunks = RemoveFirst(@, c)]

\* The end of mfree, once pffree has come to its end.
Erased(s, c) ==
    [s EXCEPT !.swapFree = IF s.status[c] = "SWAPPED" THEN Wrap(@ + Size[c]) ELSE @,
              !.status[c] = "NONE", !.memChunks = RemoveFirst(@, c)]

-----------------------------------------------------------------------------
(* The calls of the manager; each is possible until a memoryException has  *)
(* been thrown out of pfmalloc, which leaves stateChangeMutex locked.      *)

Live(c) == swap.status[c] # "NONE" /\ c \notin deleting

Mmalloc(c) ==
    /\ swap.status[c] = "NONE"
    /\ swap' = [swap EXCEPT !.status[c] = "ALLOCATED", !.memChunks = Append(@, c)]
    /\ UNCHANGED deleting

SwapOut(c) ==
    /\ Live(c) /\ swap.status[c] = "ALLOCATED"
    /\ swap' = UnloadChunk(MakeRoom(swap, Size[c]), c)
    /\ UNCHANGED deleting

SwapIn(c) ==
    /\ Live(c) /\ swap.status[c] = "SWAPPED"
    /\ swap' = LoadChunk(swap, c)
    /\ UNCHANGED deleting

\* setUse for writing.
InvalidateCacheFor(c) ==
    /\ Live(c) /\ c \in Cached(swap)
    /\ swap' = Pffree(swap, c)
    /\ UNCHANGED deleting

\* The last resort of ensureEnoughSpace.
CleanCache ==
    /\ Cached(swap) # {}
    /\ swap' = CleanupCachedElements(swap, 0).s
    /\ UNCHANGED deleting

SwapDelete(c) ==
    LET s == Pffree(swap, c)
    IN  IF s.parts[c] = <<>> THEN swap' = Erased(s, c) /\ deleting' = deleting \ {c}
        ELSE swap' = s /\ deleting' = deleting \cup {c}

\* Deleting a chunk while it is read in is left to ManagedMemory (FreeWhileLoading).
Mfree(c) == Live(c) /\ swap.status[c] # "SWAPIN" /\ SwapDelete(c)

\* The transfer pffree waits for has ended.
PffreeAgain(c) == c \in deleting /\ Head(swap.parts[c]) \notin swap.pending /\ SwapDelete(c)

Arrive(c) ==
    /\ \E off \in ToSet(swap.parts[c]) \cap swap.pending : swap' = AsyncIoArrived(swap, c, off)
    /\ UNCHANGED deleting

Running == swap.thrown = "none"
Stopped == ~Running /\ UNCHANGED vars

Next ==
    \/ /\ Running
       /\ \/ \E c \in Chunks : Mmalloc(c) \/ SwapOut(c) \/ SwapIn(c) \/ InvalidateCacheFor(c)
          \/ \E c \in Chunks : Mfree(c) \/ PffreeAgain(c) \/ Arrive(c)
          \/ CleanCache
    \/ Stopped

Spec == Init /\ [][Next]_vars

-----------------------------------------------------------------------------
(* Properties *)

\* No byte is lost and none is in two locations, however they are split, padded and merged:
\* a free location reaches up to the next key, a used one falls short of it by less than
\* the padding and a record, neighbours in one file are not both free, and free_space is
\* what all_space says is free.  Free sizes stay aligned, on which allocInFree depends.
SpaceTiled ==
    /\ {0} \cup {n * PageFileSize : n \in 0..(swap.swapSize \div PageFileSize - 1)}
            \subseteq DOMAIN swap.all_space
    /\ swap.free_space = {off \in DOMAIN swap.all_space : Free(swap, off)}
    /\ \A off \in DOMAIN swap.all_space :
          LET next == Following(swap, off)
              lost == next - off - LocationSize(swap, off)
          IN  /\ off % swap.layout.alignment = 0
              /\ IF Free(swap, off) THEN lost = 0 /\ (Free(swap, next) => StartOfFile(next))
                 ELSE lost \in 0..(swap.layout.alignment + swap.layout.record)

Kept == {c \in Chunks : swap.status[c] \in {"SWAPOUT", "SWAPPED", "SWAPIN"} /\ c \notin deleting}

\* Every used location belongs to one chunk, and the parts of a chunk, in the order of the
\* chain, hold all of it; what a waiting pffree has not given back yet is the end of it.
ChainsWhole ==
    LET sum(c) == FoldLeft(LAMBDA n, off : n + LocationSize(swap, off), 0, swap.parts[c])
    IN  /\ DOMAIN swap.all_space \ swap.free_space = UNION {ToSet(swap.parts[c]) : c \in Chunks}
        /\ \A c, d \in Chunks : c # d => ToSet(swap.parts[c]) \cap ToSet(swap.parts[d]) = {}
        /\ \A c \in Kept \cup Cached(swap) : sum(c) = Size[c]
        /\ \A c \in Chunks : \A i \in DOMAIN swap.parts[c] :
              swap.all_space[swap.parts[c][i]].status = IF i = Len(swap.parts[c]) THEN "END" ELSE "PART"

\* swapFree is what free_space has and what page copies could give back: a chunk that has been
\* read in returns its claim at once and keeps its pages, and pfmalloc drops copies when it needs
\* them.  A deletion that waits has not handed its claim back yet.  (sigStat compares swapFree
\* with free_space alone, so it prints "insane" whenever there is a page copy.)
SwapFreeExact ==
    LET rest(c) == FoldLeft(LAMBDA n, off : n + LocationSize(swap, off), 0, swap.parts[c])
    IN  swap.swapFree = Wrap(FreeBytes(swap) + Bytes(Cached(swap))
                             - MapThenSumSet(LAMBDA c : Size[c] - rest(c), deleting))

\* What a comment in claimUsageof checks: no more is ever claimed than there is, so swapFree
\* does not wrap round and the answers of getFreeSwap can be relied on.
NothingOverclaimed == swap.swapFree <= swap.swapSize

\* A chunk is in transition exactly as long as a part of it is on its way, also when the
\* parts arrive in any order and are given back one by one; no free location is written.
TransfersWhole ==
    /\ \A c \in Chunks :
          LET parts == ToSet(swap.parts[c]) \cap swap.pending
          IN  /\ swap.tracker[c] = Cardinality(parts)
              /\ swap.status[c] \in {"SWAPIN", "SWAPOUT"} <=> parts # {}
    /\ swap.pending \cap swap.free_space = {}

\* What pfmalloc adds up, with the page copies it has deleted, is enough to place every byte:
\* it never runs off the end of the free locations with bytes left.
PartsSuffice == swap.thrown # "past the end"

\* The bytes a chunk has.
BytesOf == [c \in Chunks |-> UNION {off..(off + LocationSize(swap, off) - 1) : off \in ToSet(swap.parts[c])}]

Space == INSTANCE SwapSpace WITH bytes <- BytesOf, kept <- Kept

\* No two chunks ever share a byte, and the bytes of a chunk that is out stay the same.
SpaceImplemented == Space!Spec
=============================================================================
