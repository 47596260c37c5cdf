--------------------- MODULE ManagedMemory_bytes_proofs ---------------------
(***************************************************************************)
(* Proofs about the byte counters of ManagedMemory, for every instance     *)
(* without the races of prefetching: they are the sums that checkCycle     *)
(* asserts, the page file is never overcommitted, RAM in use stays within  *)
(* the limit, and a limit that was lowered is kept.                        *)
(*                                                                         *)
(* Each step changes the set a counter sums by one chunk at most, the one  *)
(* whose status it changes, and the counter by that chunk's size           *)
(* (Accounting).  SwapBounded rests on what pfmalloc finds: the page       *)
(* copies dropped and the bytes nobody has taken leave room for the chunk. *)
(* For LimitKept one has to know what a swapOut called by setMemoryLimit   *)
(* has promised so far (PromiseOK).                                        *)
(***************************************************************************)
EXTENDS ManagedMemory_proofs, Sums

USE DEF vars, chunkVars, memVars, ioVars, threadVars
USE ConstantsAssumption DEF ConstantsAssumption
-----------------------------------------------------------------------------
(* Sums of sizes *)

\* Bytes is a sum of Size.
LEMMA BytesIsSum == \A S : Bytes(S) = SumOver(Size, S)
  BY DEF Bytes, SumOver, MapThenSumSet, MapThenFoldSet

\* Sets of chunks are finite, and sizes are positive numbers.
LEMMA ChunkSets ==
    /\ \A S \in SUBSET Chunks : IsFiniteSet(S)
    /\ \A c \in Chunks : Size[c] \in Nat /\ Size[c] > 0
  BY FS_Subset

\* The bytes of a set of chunks are a number.
LEMMA BytesType ==
    /\ \A S \in SUBSET Chunks : Bytes(S) \in Nat
    /\ Bytes({}) = 0
  <1>1. ASSUME NEW S \in SUBSET Chunks
        PROVE  Bytes(S) \in Nat
    <2>1. IsFiniteSet(S) /\ \A c \in S : Size[c] \in Nat
      BY ChunkSets
    <2> QED BY <2>1, SumType, BytesIsSum
  <1> QED BY <1>1, SumEmpty, BytesIsSum

\* A chunk that joins or leaves a set.
LEMMA BytesAdd ==
    ASSUME NEW S \in SUBSET Chunks, NEW c \in Chunks
    PROVE  /\ c \notin S => Bytes(S \cup {c}) = Bytes(S) + Size[c]
           /\ c \in S => Bytes(S \ {c}) = Bytes(S) - Size[c]
  <1>1. IsFiniteSet(S) /\ Size[c] \in Int /\ \A d \in S : Size[d] \in Int
    BY ChunkSets
  <1> QED BY <1>1, SumAdd, SumRemove, BytesIsSum

\* Parts of a set have no more bytes than the set.
LEMMA BytesPart ==
    ASSUME NEW S \in SUBSET Chunks, NEW T \in SUBSET S
    PROVE  Bytes(T) <= Bytes(S) /\ Bytes(S \ T) = Bytes(S) - Bytes(T)
  <1>1. IsFiniteSet(S) /\ \A d \in S : Size[d] \in Nat
    BY ChunkSets
  <1> QED BY <1>1, SumMonotone, BytesIsSum

\* Two sets that agree on all chunks but one.
LEMMA BytesMoved ==
    ASSUME NEW S \in SUBSET Chunks, NEW T \in SUBSET Chunks, NEW c \in Chunks,
           \A d \in Chunks : d # c => (d \in T <=> d \in S)
    PROVE  /\ c \in S /\ c \in T => Bytes(T) = Bytes(S)
           /\ c \notin S /\ c \notin T => Bytes(T) = Bytes(S)
           /\ c \notin S /\ c \in T => Bytes(T) = Bytes(S) + Size[c]
           /\ c \in S /\ c \notin T => Bytes(T) = Bytes(S) - Size[c]
  <1>1. ASSUME c \in S <=> c \in T
        PROVE  T = S
    BY <1>1
  <1>2. ASSUME c \notin S, c \in T
        PROVE  T = S \cup {c}
    BY <1>2
  <1>3. ASSUME c \in S, c \notin T
        PROVE  T = S \ {c}
    BY <1>3
  <1> QED BY <1>1, <1>2, <1>3, BytesAdd
-----------------------------------------------------------------------------
(* The inductive invariant *)

Leaving == {c \in Chunks : status[c] = "SWAPOUT"}
Away    == {c \in Chunks : status[c] \in {"SWAPPED", "SWAPIN", "SWAPOUT"}}
Copies  == {c \in Chunks : swapBuf[c]}

\* A thread whose setMemoryLimit looks for victims has noted in ev.real what it has
\* brought on its way out of the ev.min bytes that are too many.
Promise(t) ==
    pc[t] \in EvictPlaces /\ call[t].op = "setMemoryLimit" /\ ev.min > 0 /\ ring = memChunks
        => memory_used - memory_tobefreed + ev.real <= ev.min + ev.limit

PromiseOK == \A t \in Threads : Promise(t)

\* Nobody lowers a limit that never changes.
AskedOK == \A t \in Threads : Busy(t) /\ call[t].op = "setMemoryLimit" => Limits # {}

BInv == Accounting /\ SwapBounded /\ LimitRespected /\ AskedOK /\ PromiseOK
-----------------------------------------------------------------------------
(* The counters *)

\* What Accounting says, by sets.
LEMMA AccountingIs ==
    /\ Resident \in SUBSET Chunks /\ Leaving \in SUBSET Chunks /\ Away \in SUBSET Chunks
    /\ Accounting <=> /\ memory_used = Bytes(Resident) /\ memory_tobefreed = Bytes(Leaving)
                      /\ swapUsed = Bytes(Away)
  BY DEF Accounting, Resident, Leaving, Away

\* The counters after a step that leaves all chunks in their places.
LEMMA StillCounted ==
    ASSUME Accounting, UNCHANGED <<memory_used, memory_tobefreed, swapUsed>>,
           \A c \in Chunks : \/ status'[c] = status[c]
                             \/ status[c] \in Allocated /\ status'[c] \in Allocated
    PROVE  Accounting'
  <1>1. Resident' = Resident
    BY DEF Resident
  <1>2. Leaving' = Leaving /\ Away' = Away
    BY DEF Leaving, Away, Allocated, Unused, InUse
  <1>3. /\ Bytes(Resident') = Bytes(Resident) /\ Bytes(Leaving') = Bytes(Leaving)
        /\ Bytes(Away') = Bytes(Away)
    BY <1>1, <1>2
  <1> QED BY <1>3, AccountingIs DEF Accounting, Resident, Leaving, Away

\* The counters after a step of one chunk from one state to another.
LEMMA Recounted ==
    ASSUME SInv, Accounting, NEW c \in Chunks, NEW s \in Statuses,
           status' = [status EXCEPT ![c] = s],
           NEW a \in Allocated \cup {"SWAPIN", "SWAPOUT", "SWAPPED", "NONE"}, a = status[c],
           memory_used' = memory_used
                          + (IF s \in Allocated \cup {"SWAPIN", "SWAPOUT"} THEN Size[c] ELSE 0)
                          - (IF a \in Allocated \cup {"SWAPIN", "SWAPOUT"} THEN Size[c] ELSE 0),
           memory_tobefreed' = memory_tobefreed + (IF s = "SWAPOUT" THEN Size[c] ELSE 0)
                                                - (IF a = "SWAPOUT" THEN Size[c] ELSE 0),
           swapUsed' = swapUsed
                       + (IF s \in {"SWAPPED", "SWAPIN", "SWAPOUT"} THEN Size[c] ELSE 0)
                       - (IF a \in {"SWAPPED", "SWAPIN", "SWAPOUT"} THEN Size[c] ELSE 0)
    PROVE  Accounting'
  <1>1. status'[c] = s /\ \A d \in Chunks : d # c => status'[d] = status[d]
    BY ContentFacts
  <1>2. Size[c] \in Nat /\ Bytes(Resident) \in Nat /\ Bytes(Leaving) \in Nat /\ Bytes(Away) \in Nat
    BY ChunkSets, BytesType, AccountingIs
  <1>3. memory_used' = Bytes(Resident')
    <2>1. /\ Resident' \in SUBSET Chunks
          /\ \A d \in Chunks : d # c => (d \in Resident' <=> d \in Resident)
          /\ c \in Resident' <=> s \in Allocated \cup {"SWAPIN", "SWAPOUT"}
          /\ c \in Resident <=> a \in Allocated \cup {"SWAPIN", "SWAPOUT"}
      BY <1>1 DEF Resident
    <2>2. PICK S \in SUBSET Chunks : S = Resident'
      BY <2>1
    <2> QED BY <1>2, <2>1, <2>2, BytesMoved, AccountingIs
  <1>4. memory_tobefreed' = Bytes(Leaving')
    <2>1. /\ Leaving' \in SUBSET Chunks
          /\ \A d \in Chunks : d # c => (d \in Leaving' <=> d \in Leaving)
          /\ c \in Leaving' <=> s = "SWAPOUT"
          /\ c \in Leaving <=> a = "SWAPOUT"
      BY <1>1 DEF Leaving
    <2>2. PICK S \in SUBSET Chunks : S = Leaving'
      BY <2>1
    <2> QED BY <1>2, <2>1, <2>2, BytesMoved, AccountingIs
  <1>5. swapUsed' = Bytes(Away')
    <2>1. /\ Away' \in SUBSET Chunks
          /\ \A d \in Chunks : d # c => (d \in Away' <=> d \in Away)
          /\ c \in Away' <=> s \in {"SWAPPED", "SWAPIN", "SWAPOUT"}
          /\ c \in Away <=> a \in {"SWAPPED", "SWAPIN", "SWAPOUT"}
      BY <1>1 DEF Away
    <2>2. PICK S \in SUBSET Chunks : S = Away'
      BY <2>1
    <2> QED BY <1>2, <2>1, <2>2, BytesMoved, AccountingIs
  <1> QED BY <1>3, <1>4, <1>5 DEF Accounting, Resident, Leaving, Away

\* The counters and the limit are numbers.
LEMMA CounterTypes ==
    ASSUME SInv, Accounting
    PROVE  /\ memory_used \in Nat /\ memory_tobefreed \in Nat /\ swapUsed \in Nat
           /\ memory_max \in Nat /\ ev \in Evicts
           /\ \A c \in Chunks : Size[c] \in Nat /\ Size[c] > 0
  BY AccountingIs, BytesType, ChunkSets DEF SInv, IInv, DataTyped

\* What a step of the manager does to the bytes: the counters stay sums, the page file is
\* not overcommitted, and nothing is brought in beyond the limit, which stays.
Counts ==
    /\ Accounting' /\ Bytes(Copies') <= SwapSize
    /\ memory_max' = memory_max
    /\ \/ memory_used' <= memory_max
       \/ /\ memory_used' <= memory_used
          /\ memory_used' - memory_tobefreed' <= memory_used - memory_tobefreed

\* Dropping page copies, or none.
LEMMA CopiesDropped ==
    ASSUME SwapBounded, \A c \in Chunks : swapBuf'[c] => swapBuf[c]
    PROVE  Bytes(Copies') <= SwapSize
  <1>1. Copies' \in SUBSET Copies /\ Copies \in SUBSET Chunks
    BY DEF Copies
  <1>2. Bytes(Copies') <= Bytes(Copies)
    <2>1. PICK T \in SUBSET Copies : T = Copies'
      BY <1>1
    <2> QED BY <1>1, <2>1, BytesPart
  <1>3. Bytes(Copies) <= SwapSize
    BY DEF SwapBounded, Copies
  <1>4. Bytes(Copies') \in Nat /\ Bytes(Copies) \in Nat
    BY <1>1, BytesType
  <1> QED BY <1>2, <1>3, <1>4

\* Steps that leave the counters, and drop page copies at most.
LEMMA CountsSame ==
    ASSUME SInv, Accounting, SwapBounded, UNCHANGED memVars,
           \A c \in Chunks : \/ status'[c] = status[c]
                             \/ status[c] \in Allocated /\ status'[c] \in Allocated,
           \A c \in Chunks : swapBuf'[c] => swapBuf[c]
    PROVE  Counts
  <1>1. Accounting'
    BY StillCounted
  <1> QED BY <1>1, CopiesDropped, CounterTypes DEF Counts

\* Unloading a chunk whose page copy is valid.
LEMMA CountsUnloaded ==
    ASSUME SInv, Accounting, SwapBounded, NEW t \in Threads, NEW c \in Chunks,
           UnloadCached(t, c)
    PROVE  Counts /\ memory_used' - memory_tobefreed' = memory_used - memory_tobefreed - Size[c]
  <1>1. /\ status' = [status EXCEPT ![c] = "SWAPPED"] /\ status[c] \in Allocated
        /\ memory_used' = memory_used - Size[c] /\ swapUsed' = swapUsed + Size[c]
        /\ UNCHANGED <<swapBuf, memory_tobefreed, memory_max>>
    BY DEF UnloadCached
  <1>2. Accounting'
    <2>1. PICK a \in Allocated : a = status[c]
      BY <1>1
    <2>2. /\ "SWAPPED" \in Statuses /\ "SWAPPED" # "SWAPOUT"
          /\ "SWAPPED" \notin Allocated \cup {"SWAPIN", "SWAPOUT"}
          /\ a # "SWAPOUT" /\ a \notin {"SWAPPED", "SWAPIN", "SWAPOUT"}
      BY DEF Statuses, Allocated, Unused, InUse
    <2>3. /\ memory_used' = memory_used + 0 - Size[c]
          /\ memory_tobefreed' = memory_tobefreed + 0 - 0
          /\ swapUsed' = swapUsed + Size[c] - 0
      BY <1>1, CounterTypes
    <2> QED BY <1>1, <2>1, <2>2, <2>3, Recounted
  <1>3. Bytes(Copies') <= SwapSize
    BY <1>1 DEF SwapBounded, Copies
  <1> QED BY <1>1, <1>2, <1>3, CounterTypes DEF Counts

\* Unloading a chunk by writing it: pfmalloc has found room for it.
LEMMA CountsWritten ==
    ASSUME SInv, Accounting, SwapBounded, NEW c \in Chunks, NEW D \in SUBSET Cached,
           status[c] \in Allocated, ~swapBuf[c], ScheduleWrite(c, D),
           PagesFree + Bytes(D) >= Size[c]
    PROVE  Counts /\ memory_used' - memory_tobefreed' = memory_used - memory_tobefreed - Size[c]
  <1>1. /\ status' = [status EXCEPT ![c] = "SWAPOUT"]
        /\ swapUsed' = swapUsed + Size[c] /\ memory_tobefreed' = memory_tobefreed + Size[c]
        /\ UNCHANGED <<memory_used, memory_max>>
        /\ \A d \in Chunks : swapBuf'[d] <=> d = c \/ (swapBuf[d] /\ d \notin D)
    BY DEF ScheduleWrite
  <1>2. Accounting'
    <2>1. PICK a \in Allocated : a = status[c]
      BY <1>1
    <2>2. /\ "SWAPOUT" \in Statuses
          /\ a # "SWAPOUT" /\ a \notin {"SWAPPED", "SWAPIN", "SWAPOUT"}
      BY DEF Statuses, Allocated, Unused, InUse
    <2>3. /\ memory_used' = memory_used + Size[c] - Size[c]
          /\ memory_tobefreed' = memory_tobefreed + Size[c] - 0
          /\ swapUsed' = swapUsed + Size[c] - 0
      BY <1>1, CounterTypes
    <2> QED BY <1>1, <2>1, <2>2, <2>3, Recounted
  <1>3. Copies \in SUBSET Chunks /\ D \in SUBSET Copies /\ c \notin Copies
    BY DEF Copies, Cached
  <1>4. Copies' = (Copies \ D) \cup {c}
    BY <1>1, <1>3 DEF Copies
  <1>5. Bytes(Copies') = Bytes(Copies) - Bytes(D) + Size[c]
    <2>1. (Copies \ D) \in SUBSET Chunks /\ c \notin Copies \ D
      BY <1>3
    <2>2. Bytes((Copies \ D) \cup {c}) = Bytes(Copies \ D) + Size[c]
      BY <2>1, BytesAdd
    <2>3. Bytes(Copies \ D) = Bytes(Copies) - Bytes(D)
      BY <1>3, BytesPart
    <2> QED BY <1>4, <2>2, <2>3
  <1>6. PagesFree = SwapSize - Bytes(Copies)
    BY DEF PagesFree, Copies
  <1>7. Bytes(Copies) \in Nat /\ Bytes(D) \in Nat
    BY <1>3, BytesType
  <1> QED BY <1>1, <1>2, <1>5, <1>6, <1>7, CounterTypes DEF Counts

\* The search for victims and their unloading.
LEMMA EvictCounts ==
    ASSUME SInv, Accounting, SwapBounded, NEW t \in Threads, Evict(t)
    PROVE  /\ Counts
           /\ memory_used' <= memory_used
           /\ memory_used' - memory_tobefreed' <= memory_used - memory_tobefreed
  <1>0. \A n : Cleanups(n) \subseteq SUBSET Cached
    BY DEF Cleanups
  <1>1. CASE EvictNothing(t) \/ EvictSelect(t) \/ UnloadDone(t)
    <2>1. UNCHANGED <<chunkVars, memVars>>
      BY <1>1 DEF EvictNothing, EvictSelect, UnloadDone
    <2> QED BY <2>1, CountsSame, CounterTypes
  <1>2. CASE EvictSwapFull(t)
    <2>1. UNCHANGED <<status, memVars>> /\ \A d \in Chunks : swapBuf'[d] => swapBuf[d]
      BY <1>2 DEF EvictSwapFull, DropCopies
    <2> QED BY <2>1, CountsSame, CounterTypes
  <1>3. ASSUME NEW c \in Chunks, UnloadNot(t, c)
        PROVE  Counts /\ UNCHANGED memVars
    <2>1. UNCHANGED <<chunkVars, memVars>>
      BY <1>3 DEF UnloadNot
    <2> QED BY <2>1, CountsSame
  <1>4. ASSUME NEW c \in Chunks, UnloadCached(t, c)
        PROVE  /\ Counts /\ memory_used' <= memory_used
               /\ memory_used' - memory_tobefreed' <= memory_used - memory_tobefreed
    <2>1. memory_used' = memory_used - Size[c]
      BY <1>4 DEF UnloadCached
    <2> QED BY <1>4, <2>1, CountsUnloaded, CounterTypes
  <1>5. ASSUME NEW c \in Chunks, UnloadWrite(t, c)
        PROVE  /\ Counts /\ memory_used' <= memory_used
               /\ memory_used' - memory_tobefreed' <= memory_used - memory_tobefreed
    <2>0. Bytes(Copies) \in Nat /\ PagesFree = SwapSize - Bytes(Copies)
      BY BytesType DEF Copies, PagesFree
    <2>1. ASSUME NEW D \in SUBSET Cached, ScheduleWrite(c, D), PagesFree + Bytes(D) >= Size[c]
          PROVE  /\ Counts /\ memory_used' <= memory_used
                 /\ memory_used' - memory_tobefreed' <= memory_used - memory_tobefreed
      <3>1. status[c] \in Allocated /\ ~swapBuf[c]
        BY <1>5 DEF UnloadWrite
      <3>2. memory_used' = memory_used
        BY <2>1 DEF ScheduleWrite
      <3> QED BY <2>1, <3>1, <3>2, CountsWritten, CounterTypes
    <2>2. ASSUME NEW D \in SUBSET Cached, DropCopies(D), UNCHANGED <<status, memVars>>
          PROVE  Counts
      <3>1. \A d \in Chunks : swapBuf'[d] => swapBuf[d]
        BY <2>2 DEF DropCopies
      <3> QED BY <2>2, <3>1, CountsSame
    <2>3. CASE PagesFree >= Size[c]
      <3>1. ScheduleWrite(c, {}) /\ {} \in SUBSET Cached
        BY <1>5, <2>3 DEF UnloadWrite
      <3> QED BY <2>0, <2>1, <2>3, <3>1, BytesType
    <2>4. CASE ~(PagesFree >= Size[c])
      <3>1. PICK D \in Cleanups(Size[c] - PagesFree) :
                IF Bytes(D) > Size[c] - PagesFree
                THEN ScheduleWrite(c, D)
                ELSE DropCopies(D) /\ UNCHANGED <<status, memVars>>
        BY <1>5, <2>4 DEF UnloadWrite, Missing
      <3>2. D \in SUBSET Cached /\ Bytes(D) \in Nat
        BY <1>0, BytesType DEF Cached
      <3> QED BY <2>0, <2>1, <2>2, <3>1, <3>2, CounterTypes
    <2> QED BY <2>3, <2>4
  <1> QED BY <1>1, <1>2, <1>3, <1>4, <1>5, CounterTypes DEF Evict

\* Making room, making a chunk and reading one in.
LEMMA SpaceCounts ==
    ASSUME SInv, Accounting, SwapBounded, NEW t \in Threads, EnsureEnoughSpace(t)
    PROVE  Counts
  <1>0. ControlInv
    BY DEF SInv, IInv
  <1>1. CASE SpaceFound(t)
    <2>1. pc[t] = "space" /\ call[t].op \in SpaceOps
      BY <1>0, <1>1, At DEF SpaceFound
    <2>2. PICK c \in Chunks : c = call[t].chunk
      BY <2>1, SpaceStatus
    <2>3. memory_used + Size[c] <= memory_max
      BY <1>1, <2>2, CounterTypes DEF SpaceFound, Excess
    <2>4. CASE call[t].op = "mmalloc"
      <3>1. Allocate(t, c) /\ status[c] = "NONE"
        BY <1>1, <2>1, <2>2, <2>4, SpaceStatus DEF SpaceFound
      <3>2. /\ status' = [status EXCEPT ![c] = "ALLOCATED"]
            /\ memory_used' = memory_used + Size[c]
            /\ UNCHANGED <<swapBuf, memory_tobefreed, memory_max, swapUsed>>
        BY <3>1 DEF Allocate
      <3>3. /\ "ALLOCATED" \in Statuses /\ "ALLOCATED" \in Allocated \cup {"SWAPIN", "SWAPOUT"}
            /\ "NONE" \notin Allocated \cup {"SWAPIN", "SWAPOUT"}
            /\ "ALLOCATED" \notin {"SWAPPED", "SWAPIN", "SWAPOUT"}
        BY DEF Statuses, Allocated, Unused, InUse
      <3>4. /\ memory_used' = memory_used + Size[c] - 0
            /\ memory_tobefreed' = memory_tobefreed + 0 - 0 /\ swapUsed' = swapUsed + 0 - 0
        BY <3>2, CounterTypes
      <3>5. PICK a \in Allocated \cup {"SWAPIN", "SWAPOUT", "SWAPPED", "NONE"} :
                a = status[c] /\ a = "NONE"
        BY <3>1
      <3>6. Accounting'
        BY <3>2, <3>3, <3>4, <3>5, Recounted
      <3> QED BY <2>3, <3>2, <3>6, CopiesDropped DEF Counts
    <2>5. CASE call[t].op # "mmalloc" /\ swapBuf[c]
      <3>1. status[c] = "SWAPPED" /\ ScheduleRead(t, c)
        BY <1>1, <2>1, <2>2, <2>5, SpaceStatus DEF SpaceFound, Present
      <3>2. /\ status' = [status EXCEPT ![c] = "SWAPIN"]
            /\ memory_used' = memory_used + Size[c]
            /\ UNCHANGED <<swapBuf, memory_tobefreed, memory_max, swapUsed>>
        BY <3>1 DEF ScheduleRead
      <3>3. /\ "SWAPIN" \in Statuses /\ "SWAPPED" \notin Allocated \cup {"SWAPIN", "SWAPOUT"}
        BY DEF Statuses, Allocated, Unused, InUse
      <3>4. /\ memory_used' = memory_used + Size[c] - 0
            /\ memory_tobefreed' = memory_tobefreed + 0 - 0
            /\ swapUsed' = swapUsed + Size[c] - Size[c]
        BY <3>2, CounterTypes
      <3>5. PICK a \in Allocated \cup {"SWAPIN", "SWAPOUT", "SWAPPED", "NONE"} :
                a = status[c] /\ a = "SWAPPED"
        BY <3>1
      <3>6. Accounting'
        BY <3>2, <3>3, <3>4, <3>5, Recounted
      <3> QED BY <2>3, <3>2, <3>6, CopiesDropped DEF Counts
    <2>6. CASE call[t].op # "mmalloc" /\ ~swapBuf[c]
      <3>1. UNCHANGED <<chunkVars, memVars>>
        BY <1>1, <2>2, <2>6 DEF SpaceFound
      <3> QED BY <3>1, CountsSame
    <2> QED BY <2>4, <2>5, <2>6
  <1>2. CASE AlreadyThere(t) \/ SpaceMissing(t) \/ EvictHelped(t) \/ OutOfMemory(t)
    <2>1. UNCHANGED <<chunkVars, memVars>>
      BY <1>2 DEF AlreadyThere, SpaceMissing, EvictHelped, OutOfMemory
    <2> QED BY <2>1, CountsSame
  <1>3. CASE LastResort(t) \/ KeepTrying(t)
    <2>1. UNCHANGED <<status, memVars>> /\ \A d \in Chunks : swapBuf'[d] => swapBuf[d]
      BY <1>3 DEF LastResort, KeepTrying, DropCopies
    <2> QED BY <2>1, CountsSame
  <1> QED BY <1>1, <1>2, <1>3 DEF EnsureEnoughSpace

\* Erasing a chunk: mfree has taken it out of memory_used before if it was in memory.
LEMMA EraseCounts ==
    ASSUME SInv, Accounting, SwapBounded, NEW t \in Threads, NEW c \in Chunks, Erase(t, c),
           status[c] \in {"ALLOCATED", "SWAPPED"},
           memory_used' = memory_used - (IF status[c] = "ALLOCATED" THEN Size[c] ELSE 0),
           UNCHANGED <<memory_tobefreed, memory_max>>
    PROVE  Counts
  <1>1. /\ status' = [status EXCEPT ![c] = "NONE"] /\ swapUsed' = swapUsed - SwapClaim(c)
        /\ \A d \in Chunks : swapBuf'[d] => swapBuf[d]
    BY DEF Erase, DropCopies
  <1>2. PICK a \in Allocated \cup {"SWAPIN", "SWAPOUT", "SWAPPED", "NONE"} :
            a = status[c] /\ a \in {"ALLOCATED", "SWAPPED"}
    BY DEF Allocated, Unused
  <1>3. /\ "NONE" \in Statuses /\ "NONE" \notin Allocated \cup {"SWAPIN", "SWAPOUT"}
        /\ a \in Allocated \cup {"SWAPIN", "SWAPOUT"} <=> a = "ALLOCATED"
        /\ a \in {"SWAPPED", "SWAPIN", "SWAPOUT"} <=> a = "SWAPPED"
    BY <1>2 DEF Statuses, Allocated, Unused, InUse
  <1>4. /\ memory_used' = memory_used + 0 - (IF a = "ALLOCATED" THEN Size[c] ELSE 0)
        /\ memory_tobefreed' = memory_tobefreed + 0 - 0
        /\ swapUsed' = swapUsed + 0 - (IF a = "SWAPPED" THEN Size[c] ELSE 0)
    BY <1>1, <1>2, CounterTypes DEF SwapClaim
  <1>5. Accounting'
    BY <1>1, <1>2, <1>3, <1>4, Recounted
  <1>6. memory_used' <= memory_used
    BY <1>4, CounterTypes
  <1> QED BY <1>1, <1>5, <1>6, CopiesDropped, CounterTypes DEF Counts

\* A pointer is given out.
LEMMA GrantCounts ==
    ASSUME SInv, Accounting, SwapBounded, NEW t \in Threads, NEW c \in Chunks, NEW s \in InUse,
           Grant(t, c, s), status[c] \in Allocated
    PROVE  Counts
  <1>1. PICK u \in InUse : status' = [status EXCEPT ![c] = u]
    BY DEF Grant, InUse
  <1>2. UNCHANGED memVars /\ \A d \in Chunks : swapBuf'[d] => swapBuf[d]
    BY DEF Grant, DropCopies
  <1>3. \A d \in Chunks : \/ status'[d] = status[d]
                          \/ status[d] \in Allocated /\ status'[d] \in Allocated
    BY <1>1, ContentFacts DEF Allocated
  <1> QED BY <1>2, <1>3, CountsSame

\* The other operations, but for the limit.
LEMMA CallCounts ==
    ASSUME SInv, Accounting, SwapBounded, NEW t \in Threads,
           \/ PrepareUse(t) \/ SetUse(t) \/ WaitForSwapout(t) \/ WaitForSwapin(t)
           \/ UnsetUse(t) \/ Untouched(t) \/ Mfree(t) \/ Pffree(t)
    PROVE  Counts
  <1>0. ControlInv
    BY DEF SInv, IInv
  <1>1. CASE PrepareUse(t) \/ WaitForSwapout(t) \/ Untouched(t)
    <2>1. UNCHANGED <<chunkVars, memVars>>
      BY <1>1 DEF PrepareUse, WaitForSwapout, Untouched
    <2> QED BY <2>1, CountsSame
  <1>2. CASE SetUse(t)
    <2>1. PICK c \in Chunks : c = call[t].chunk
      BY <1>0, <1>2, At DEF SetUse, UseOps
    <2>2. CASE status[c] \in Allocated
      <3>1. PICK s \in InUse : Grant(t, c, s)
        BY <1>2, <2>1, <2>2 DEF SetUse, Allocated, Unused, InUse
      <3> QED BY <2>1, <2>2, <3>1, GrantCounts
    <2>3. CASE status[c] \notin Allocated
      <3>1. UNCHANGED <<status, swapBuf, memVars>>
        BY <1>2, <2>1, <2>3 DEF SetUse
      <3> QED BY <3>1, CountsSame
    <2> QED BY <2>2, <2>3
  <1>3. CASE WaitForSwapin(t)
    <2>1. PICK c \in Chunks : c = call[t].chunk
      BY <1>0, <1>3, At DEF WaitForSwapin, UseOps
    <2>2. CASE status[c] \in Allocated
      <3>1. Grant(t, c, "INUSE_READ")
        BY <1>3, <2>1, <2>2 DEF WaitForSwapin
      <3> QED BY <2>1, <2>2, <3>1, GrantCounts DEF InUse
    <2>3. CASE status[c] \notin Allocated
      <3>1. UNCHANGED <<chunkVars, memVars>>
        BY <1>3, <2>1, <2>3 DEF WaitForSwapin
      <3> QED BY <3>1, CountsSame
    <2> QED BY <2>2, <2>3
  <1>4. CASE UnsetUse(t)
    <2>1. PICK c \in Chunks : c = call[t].chunk
      BY <1>0, <1>4, At DEF UnsetUse, UseOps
    <2>2. UNCHANGED <<swapBuf, memVars>>
      BY <1>4 DEF UnsetUse
    <2>3. \/ status' = status
          \/ status[c] \in Allocated /\ status' = [status EXCEPT ![c] = "ALLOCATED"]
      BY <1>4, <2>1, ContentFacts DEF UnsetUse
    <2>4. \A d \in Chunks : \/ status'[d] = status[d]
                            \/ status[d] \in Allocated /\ status'[d] \in Allocated
      BY <2>3, ContentFacts DEF Allocated, Unused
    <2> QED BY <2>2, <2>4, CountsSame
  <1>5. CASE Mfree(t) \/ Pffree(t)
    <2>1. call[t].op = "mfree" /\ pc[t] \in {"mfree", "pffree"} /\ call[t].chunk \in Chunks
      BY <1>0, <1>5, At DEF Mfree, Pffree, UseOps
    <2>2. PICK c \in Chunks : c = call[t].chunk
      BY <2>1
    <2>3. /\ status[c] \in {"ALLOCATED", "SWAPPED", "SWAPOUT"} \cup InUse
          /\ pc[t] = "pffree" => status[c] \in {"SWAPOUT", "SWAPPED"}
      <3>1. Busy(t) /\ (pc[t] = "pffree" => Place(t) = "pffree")
        BY <2>1 DEF Busy, Place, AioPlaces
      <3>2. status[c] # "NONE" /\ status[c] # "SWAPIN"
        BY <2>1, <2>2, <3>1 DEF SInv, ThreadInv, AliveOK, FreeingOK
      <3>3. pc[t] = "pffree" => status[c] \in {"SWAPOUT", "SWAPPED"}
        BY <2>1, <2>2, <3>1 DEF SInv, ThreadInv, FreeingOK
      <3> QED BY <3>2, <3>3, ContentFacts DEF Statuses, Allocated, Unused
    <2>4. c \in InFlight <=> status[c] \in {"SWAPIN", "SWAPOUT"}
      BY ContentFacts DEF TransferMatchesStatus, InFlight
    <2>5. CASE Mfree(t)
      <3>1. CASE status[c] \in InUse
        <4>1. UNCHANGED <<chunkVars, memVars>>
          BY <2>2, <2>5, <3>1 DEF Mfree
        <4> QED BY <4>1, CountsSame
      <3>2. CASE c \in InFlight
        <4>1. status[c] = "SWAPOUT"
          BY <2>3, <2>4, <3>2 DEF InUse
        <4>2. UNCHANGED <<status, swapBuf, memory_tobefreed, memory_max, swapUsed>>
              /\ memory_used' = memory_used - 0
          BY <2>2, <2>5, <3>2, <4>1 DEF Mfree, InUse
        <4>3. memory_used' = memory_used
          BY <4>2, CounterTypes
        <4> QED BY <4>2, <4>3, CountsSame
      <3>3. CASE status[c] \notin InUse /\ c \notin InFlight
        <4>1. status[c] \in {"ALLOCATED", "SWAPPED"}
          BY <2>3, <2>4, <3>3
        <4>2. /\ Erase(t, c) /\ UNCHANGED <<memory_tobefreed, memory_max>>
              /\ memory_used' = memory_used - (IF status[c] = "ALLOCATED" THEN Size[c] ELSE 0)
          BY <2>2, <2>5, <3>3 DEF Mfree
        <4> QED BY <4>1, <4>2, EraseCounts
      <3> QED BY <3>1, <3>2, <3>3
    <2>6. CASE Pffree(t)
      <3>1. CASE c \in InFlight
        <4>1. UNCHANGED <<chunkVars, memVars>>
          BY <2>2, <2>6, <3>1 DEF Pffree
        <4> QED BY <4>1, CountsSame
      <3>2. CASE c \notin InFlight
        <4>1. status[c] = "SWAPPED"
          BY <2>3, <2>4, <2>6, <3>2 DEF Pffree
        <4>2. Erase(t, c) /\ UNCHANGED <<memory_used, memory_tobefreed, memory_max>>
          BY <2>2, <2>6, <3>2 DEF Pffree
        <4>3. memory_used' = memory_used - 0
          BY <4>2, CounterTypes
        <4> QED BY <4>1, <4>2, <4>3, EraseCounts
      <3> QED BY <3>1, <3>2
    <2> QED BY <1>5, <2>5, <2>6
  <1> QED BY <1>1, <1>2, <1>3, <1>4, <1>5

\* Collecting transfers.
LEMMA AioCounts ==
    ASSUME SInv, Accounting, SwapBounded, NEW p \in Procs, CheckForAIO(p)
    PROVE  Counts
  <1>1. CASE \/ AioBusy(p) \/ AioNothing(p) \/ AioPoll(p) \/ EventsDone(p) \/ Woken(p)
             \/ AioFetch(p) \/ GetEvents(p)
    <2>1. UNCHANGED <<chunkVars, memVars>>
      BY <1>1 DEF AioBusy, AioNothing, AioPoll, EventsDone, Woken, AioFetch, GetEvents
    <2> QED BY <2>1, CountsSame
  <1>2. ASSUME NEW c \in Chunks, Arrived(p, c)
        PROVE  Counts
    <2>1. status[c] \in {"SWAPIN", "SWAPOUT"}
      BY <1>2, GotInFlight DEF Arrived
    <2>2. swapBuf' = swapBuf /\ memory_max' = memory_max
      BY <1>2 DEF Arrived
    <2>3. CASE status[c] = "SWAPIN"
      <3>1. ReadArrived(p, c)
        BY <1>2, <2>3 DEF Arrived
      <3>2. PICK s \in {"ALLOCATED", "INUSE_READ"} : status' = [status EXCEPT ![c] = s]
        BY <3>1 DEF ReadArrived
      <3>3. /\ s \in Statuses /\ s \in Allocated \cup {"SWAPIN", "SWAPOUT"} /\ s # "SWAPOUT"
            /\ s \notin {"SWAPPED", "SWAPIN", "SWAPOUT"}
        BY <3>2 DEF Statuses, Allocated, Unused, InUse
      <3>4. UNCHANGED <<memory_used, memory_tobefreed>> /\ swapUsed' = swapUsed - Size[c]
        BY <3>1 DEF ReadArrived
      <3>5. /\ memory_used' = memory_used + Size[c] - Size[c]
            /\ memory_tobefreed' = memory_tobefreed + 0 - 0
            /\ swapUsed' = swapUsed + 0 - Size[c]
        BY <3>4, CounterTypes
      <3>6. PICK a \in Allocated \cup {"SWAPIN", "SWAPOUT", "SWAPPED", "NONE"} :
                a = status[c] /\ a = "SWAPIN"
        BY <2>3
      <3>7. Accounting'
        BY <3>2, <3>3, <3>5, <3>6, Recounted
      <3> QED BY <2>2, <3>4, <3>7, CopiesDropped, CounterTypes DEF Counts
    <2>4. CASE status[c] = "SWAPOUT"
      <3>1. WriteArrived(p, c)
        BY <1>2, <2>4 DEF Arrived
      <3>2. /\ status' = [status EXCEPT ![c] = "SWAPPED"] /\ swapUsed' = swapUsed
            /\ memory_used' = memory_used - Size[c]
            /\ memory_tobefreed' = memory_tobefreed - Size[c]
        BY <3>1 DEF WriteArrived
      <3>3. "SWAPPED" \in Statuses /\ "SWAPPED" \notin Allocated \cup {"SWAPIN", "SWAPOUT"}
        BY DEF Statuses, Allocated, Unused, InUse
      <3>4. /\ memory_used' = memory_used + 0 - Size[c]
            /\ memory_tobefreed' = memory_tobefreed + 0 - Size[c]
            /\ swapUsed' = swapUsed + Size[c] - Size[c]
        BY <3>2, CounterTypes
      <3>5. PICK a \in Allocated \cup {"SWAPIN", "SWAPOUT", "SWAPPED", "NONE"} :
                a = status[c] /\ a = "SWAPOUT"
        BY <2>4
      <3>6. Accounting'
        BY <3>2, <3>3, <3>4, <3>5, Recounted
      <3>7. /\ memory_used' <= memory_used
            /\ memory_used' - memory_tobefreed' <= memory_used - memory_tobefreed
        BY <3>2, CounterTypes
      <3> QED BY <2>2, <3>6, <3>7, CopiesDropped DEF Counts
    <2> QED BY <2>1, <2>3, <2>4
  <1> QED BY <1>1, <1>2 DEF CheckForAIO
-----------------------------------------------------------------------------
(* The limit *)

\* What Counts says of the limit, and of the page file.
LEMMA CountsKept ==
    ASSUME SInv, SInv', BInv, Counts
    PROVE  Accounting' /\ SwapBounded' /\ LimitRespected' /\ (Fits => Fits')
  <1>1. Accounting' /\ memory_max' = memory_max
    BY DEF Counts
  <1>2. /\ memory_used \in Nat /\ memory_tobefreed \in Nat /\ memory_max \in Nat
        /\ memory_used' \in Nat /\ memory_tobefreed' \in Nat
    <2>1. memory_used' = Bytes(Resident') /\ memory_tobefreed' = Bytes(Leaving')
      BY <1>1 DEF Accounting, Resident, Leaving
    <2>2. Resident' \in SUBSET Chunks /\ Leaving' \in SUBSET Chunks
      BY DEF Resident, Leaving
    <2> QED BY <2>1, <2>2, BytesType, CounterTypes DEF BInv
  <1>3. SwapBounded'
    <2>1. Copies' \in SUBSET Chunks /\ Away' \in SUBSET Copies'
      BY DEF Copies, Away, SInv, ContentInv, PlacedOK
    <2>2. PICK S \in SUBSET Chunks : S = Copies'
      BY <2>1
    <2>3. PICK T \in SUBSET S : T = Away'
      BY <2>1, <2>2
    <2>4. Bytes(T) <= Bytes(S) /\ Bytes(S) \in Nat /\ Bytes(T) \in Nat
      BY BytesPart, BytesType
    <2>5. swapUsed' = Bytes(Away') /\ Bytes(Copies') <= SwapSize
      BY <1>1 DEF Accounting, Away, Counts
    <2>6. swapUsed' <= SwapSize
      BY <2>2, <2>3, <2>4, <2>5
    <2> QED BY <2>5, <2>6 DEF SwapBounded, Copies
  <1>4. PICK a \in Nat, b \in Nat : a = memory_used' /\ b = memory_tobefreed'
    BY <1>2
  <1>5. \/ a <= memory_max
        \/ a <= memory_used /\ a - b <= memory_used - memory_tobefreed
    BY <1>4 DEF Counts
  <1>6. LimitRespected'
    <2>1. memory_used <= memory_max => a <= memory_max
      BY <1>2, <1>5
    <2> QED BY <1>1, <1>4, <2>1 DEF BInv, LimitRespected
  <1>7. Fits => Fits'
    <2>1. memory_used - memory_tobefreed <= memory_max => a - b <= memory_max
      BY <1>2, <1>5
    <2> QED BY <1>1, <1>4, <2>1 DEF Fits
  <1> QED BY <1>1, <1>3, <1>6, <1>7

\* Steps that concern no chunk and leave the counters.
LEMMA SumsSame ==
    ASSUME SInv, BInv, UNCHANGED <<status, swapBuf, memory_used, memory_tobefreed, swapUsed>>
    PROVE  Accounting' /\ SwapBounded'
  <1>1. Accounting'
    BY StillCounted DEF BInv
  <1>2. SwapBounded'
    BY DEF BInv, SwapBounded
  <1> QED BY <1>1, <1>2

\* Unloading keeps what setMemoryLimit counts on: each chunk brings what its call of
\* managedFileSwap::swapOut says, because none is met a second time.
LEMMA EvictPromise ==
    ASSUME SInv, BInv, NEW t \in Threads, Evict(t)
    PROVE  (Promise(t))'
  <1>0. /\ pc \in [Procs -> PCs] /\ call \in [Procs -> Calls] /\ t \in Procs /\ ev \in Evicts
        /\ memory_used \in Nat /\ memory_tobefreed \in Nat
        /\ \A c \in Chunks : Size[c] \in Nat
    BY CounterTypes DEF SInv, IInv, ControlInv, ThreadsTyped, Procs, BInv
  <1> SUFFICES ASSUME pc'[t] \in EvictPlaces, call'[t].op = "setMemoryLimit", ev'.min > 0,
                      ring' = memChunks'
               PROVE  memory_used' - memory_tobefreed' + ev'.real <= ev'.min + ev'.limit
    BY DEF Promise
  <1>1. CASE EvictNothing(t)
    <2>1. pc'[t] \in {"idle", "lock"}
      BY <1>0, <1>1 DEF EvictNothing, Throw, Goto
    <2> QED BY <2>1 DEF EvictPlaces
  <1>2. ASSUME UNCHANGED <<status, ring, memVars, call>>, pc[t] \in EvictPlaces,
               ev'.min = ev.min, ev'.limit = ev.limit, ev'.real = ev.real
        PROVE  memory_used' - memory_tobefreed' + ev'.real <= ev'.min + ev'.limit
    <2>1. memChunks' = memChunks
      BY <1>2 DEF memChunks
    <2> QED BY <1>2, <2>1 DEF BInv, PromiseOK, Promise
  <1>3. CASE EvictSwapFull(t) \/ EvictSelect(t) \/ UnloadDone(t)
    <2>1. UNCHANGED <<status, ring, memVars, call>> /\ pc[t] \in EvictPlaces
      BY <1>3 DEF EvictSwapFull, EvictSelect, UnloadDone, EvictPlaces
    <2>2. ev'.min = ev.min /\ ev'.limit = ev.limit /\ ev'.real = ev.real
      BY <1>0, <1>3 DEF EvictSwapFull, EvictSelect, UnloadDone, Evicts
    <2> QED BY <1>2, <2>1, <2>2
  <1>4. ASSUME NEW c \in Chunks, NextVictim(t, c), ring = memChunks
        PROVE  pc[t] = "unload" /\ c \in ev.todo /\ status[c] = "ALLOCATED"
    BY <1>4 DEF NextVictim, SInv, ThreadInv, VictimsOK, Chosen
  <1>5. ASSUME NEW c \in Chunks, NEW n \in Nat, pc[t] = "unload", Unloaded(c, n), ring' = ring,
               call' = call, memory_used' - memory_tobefreed' = memory_used - memory_tobefreed - n,
               ring = memChunks
        PROVE  memory_used' - memory_tobefreed' + ev'.real <= ev'.min + ev'.limit
    <2>1. ev'.min = ev.min /\ ev'.limit = ev.limit /\ ev'.real = ev.real + n
      BY <1>0, <1>5 DEF Unloaded, Evicts
    <2>2. memory_used - memory_tobefreed + ev.real <= ev.min + ev.limit
      BY <1>5, <2>1 DEF BInv, PromiseOK, Promise, EvictPlaces
    <2>3. PICK left \in Int : left = memory_used - memory_tobefreed
      BY <1>0
    <2>4. ev.real \in Int /\ ev.min \in Int /\ ev.limit \in Nat
      BY <1>0 DEF Evicts
    <2> QED BY <1>5, <2>1, <2>2, <2>3, <2>4
  <1>6. ASSUME NEW c \in Chunks, UnloadNot(t, c)
        PROVE  memory_used' - memory_tobefreed' + ev'.real <= ev'.min + ev'.limit
    <2>1. UNCHANGED <<chunkVars, memVars, call>>
      BY <1>6 DEF UnloadNot
    <2>2. ring = memChunks
      BY <2>1 DEF memChunks
    <2>3. status[c] = "ALLOCATED" /\ pc[t] = "unload"
      BY <1>4, <1>6, <2>2 DEF UnloadNot
    <2>4. Unloaded(c, 0)
      BY <1>6, <2>3 DEF UnloadNot
    <2>5. memory_used' - memory_tobefreed' = memory_used - memory_tobefreed - 0
      BY <1>0, <2>1
    <2> QED BY <1>5, <2>1, <2>2, <2>3, <2>4, <2>5
  <1>7. ASSUME NEW c \in Chunks, UnloadCached(t, c)
        PROVE  memory_used' - memory_tobefreed' + ev'.real <= ev'.min + ev'.limit
    <2>1. /\ status' = [status EXCEPT ![c] = "SWAPPED"] /\ status[c] \in Allocated
          /\ ring' = ring /\ call' = call /\ NextVictim(t, c) /\ Unloaded(c, Size[c])
          /\ memory_used' = memory_used - Size[c] /\ memory_tobefreed' = memory_tobefreed
      BY <1>7 DEF UnloadCached
    <2>2. memChunks' = memChunks
      BY <2>1, ContentFacts DEF memChunks, Allocated, Unused, InUse
    <2>3. memory_used' - memory_tobefreed' = memory_used - memory_tobefreed - Size[c]
      BY <1>0, <2>1
    <2>4. ring = memChunks /\ pc[t] = "unload"
      BY <2>1, <2>2 DEF NextVictim
    <2> QED BY <1>0, <1>5, <2>1, <2>3, <2>4
  <1>8. ASSUME NEW c \in Chunks, UnloadWrite(t, c)
        PROVE  memory_used' - memory_tobefreed' + ev'.real <= ev'.min + ev'.limit
    <2>1. pc'[t] # "stuck" /\ NextVictim(t, c) /\ status[c] \in Allocated
      BY <1>8 DEF UnloadWrite, EvictPlaces
    <2>2. PICK D : ScheduleWrite(c, D)
      BY <1>0, <1>8, <2>1 DEF UnloadWrite, Goto
    <2>3. /\ status' = [status EXCEPT ![c] = "SWAPOUT"]
          /\ ring' = ring /\ call' = call /\ Unloaded(c, Size[c])
          /\ memory_used' = memory_used /\ memory_tobefreed' = memory_tobefreed + Size[c]
      BY <2>2 DEF ScheduleWrite
    <2>4. memChunks' = memChunks
      BY <2>1, <2>3, ContentFacts DEF memChunks, Allocated, Unused, InUse
    <2>5. memory_used' - memory_tobefreed' = memory_used - memory_tobefreed - Size[c]
      BY <1>0, <2>3
    <2>6. ring = memChunks /\ pc[t] = "unload"
      BY <2>1, <2>3, <2>4 DEF NextVictim
    <2> QED BY <1>0, <1>5, <2>3, <2>5, <2>6
  <1> QED BY <1>1, <1>3, <1>6, <1>7, <1>8 DEF Evict

\* setMemoryLimit asks swapOut for the bytes that are too many, and lowers the limit once
\* it has them.
LEMMA LimitSteps ==
    ASSUME SInv, SInv', BInv, NEW t \in Threads, SetMemoryLimit(t) \/ LimitEvicted(t)
    PROVE  /\ Accounting' /\ SwapBounded' /\ LimitRespected' /\ (Promise(t))'
           /\ Fits => Fits' \/ (memory_max' < memory_max /\ ring # memChunks)
  <1>0. /\ pc \in [Procs -> PCs] /\ call \in [Procs -> Calls] /\ t \in Procs
        /\ memory_used \in Nat /\ memory_tobefreed \in Nat /\ memory_max \in Nat /\ ev \in Evicts
        /\ Limits \subseteq Nat /\ ControlInv
    BY CounterTypes DEF SInv, IInv, ControlInv, ThreadsTyped, Procs, BInv
  <1>1. UNCHANGED <<chunkVars, memory_used, memory_tobefreed, swapUsed>>
    BY DEF SetMemoryLimit, LimitEvicted
  <1>2. Accounting' /\ SwapBounded'
    BY <1>1, SumsSame
  <1>3. CASE SetMemoryLimit(t)
    <2>1. PICK m \in Limits :
            IF m <= memory_max /\ m < memory_used
            THEN /\ StartEvict(t, memory_used - m, m)
                 /\ UNCHANGED <<memory_max, mutex, call>>
            ELSE /\ memory_max' = m /\ Return(t) /\ UNCHANGED ev
      BY <1>3 DEF SetMemoryLimit
    <2>2. LimitRespected' /\ m \in Nat
      BY <1>0, <2>1 DEF LimitRespected
    <2>3. CASE m <= memory_max /\ m < memory_used
      <3>1. ev'.min = memory_used - m /\ ev'.limit = m /\ ev'.real = 0 /\ memory_max' = memory_max
        BY <2>1, <2>3 DEF StartEvict, NewEvict
      <3>2. (Promise(t))'
        BY <1>0, <1>1, <2>2, <3>1 DEF Promise
      <3>3. Fits => Fits'
        BY <1>1, <3>1 DEF Fits
      <3> QED BY <1>2, <2>2, <3>2, <3>3
    <2>4. CASE ~(m <= memory_max /\ m < memory_used)
      <3>1. memory_max' = m /\ pc'[t] = "idle"
        BY <1>0, <2>1, <2>4 DEF Return, Goto
      <3>2. (Promise(t))'
        BY <3>1 DEF Promise, EvictPlaces
      <3>3. Fits => Fits'
        BY <1>0, <1>1, <2>2, <2>4, <3>1 DEF Fits
      <3> QED BY <1>2, <2>2, <3>2, <3>3
    <2> QED BY <2>3, <2>4
  <1>4. CASE LimitEvicted(t)
    <2>1. pc[t] = "evicted" /\ call[t].op = "setMemoryLimit"
      BY <1>4 DEF LimitEvicted
    <2>2. Limits # {}
      BY <2>1 DEF BInv, AskedOK, Busy
    <2>3. LimitRespected'
      BY <2>2 DEF LimitRespected
    <2>4. CASE LimitReached
      <3>1. memory_max' = ev.limit /\ ev' = NewEvict(0, ev.limit)
        BY <1>4, <2>4 DEF LimitEvicted, StartEvict
      <3>2. (Promise(t))'
        BY <3>1 DEF Promise, NewEvict
      <3>3. ev.min \in Int /\ ev.real \in Int /\ ev.limit \in Nat /\ ev.min > 0 /\ ev.real >= ev.min
        BY <1>0, <2>4 DEF LimitReached, Evicted, Evicts
      <3>4. CASE ring = memChunks
        <4>1. memory_used - memory_tobefreed + ev.real <= ev.min + ev.limit
          BY <2>1, <3>3, <3>4 DEF BInv, PromiseOK, Promise, EvictPlaces
        <4>2. memory_used - memory_tobefreed <= ev.limit
          BY <1>0, <3>3, <4>1
        <4> QED BY <1>1, <1>2, <2>3, <3>1, <3>2, <4>2 DEF Fits
      <3>5. CASE ring # memChunks
        <4>1. Fits => Fits' \/ memory_max' < memory_max
          BY <1>0, <1>1, <3>1, <3>3 DEF Fits
        <4> QED BY <1>2, <2>3, <3>2, <3>5, <4>1
      <3> QED BY <3>4, <3>5
    <2>5. CASE ~LimitReached
      <3>1. pc'[t] = "idle" /\ memory_max' = memory_max
        BY <1>0, <1>4, <2>5 DEF LimitEvicted, Return, Goto
      <3>2. (Promise(t))'
        BY <3>1 DEF Promise, EvictPlaces
      <3>3. Fits => Fits'
        BY <1>1, <3>1 DEF Fits
      <3> QED BY <1>2, <2>3, <3>2, <3>3
    <2> QED BY <2>4, <2>5
  <1> QED BY <1>3, <1>4

\* A step inside the manager is no promise of another thread.
LEMMA OthersPromise ==
    ASSUME SInv, BInv, NEW p \in Procs, Does(p), p \in Threads => (Promise(p))'
    PROVE  AskedOK' /\ PromiseOK'
  <1>0. Moves(p) /\ Runs(p) /\ Threads \subseteq Procs
    BY DEF Does, Procs
  <1>1. ASSUME NEW t \in Threads, (Busy(t))', call'[t].op = "setMemoryLimit"
        PROVE  Limits # {}
    <2>1. Busy(t) /\ call[t].op = "setMemoryLimit"
      BY <1>0, <1>1, OthersOut, OwnCall
    <2> QED BY <2>1 DEF BInv, AskedOK
  <1>2. ASSUME NEW t \in Threads, t # p
        PROVE  (Promise(t))'
    <2>1. pc'[t] \notin EvictPlaces
      BY <1>0, <1>2, OthersOut, HoldingPlaces
    <2> QED BY <2>1 DEF Promise
  <1> QED BY <1>1, <1>2 DEF AskedOK, PromiseOK

\* Collecting transfers is not looking for victims.
LEMMA AioPromise ==
    ASSUME SInv, NEW p \in Threads, CheckForAIO(p), Does(p)
    PROVE  (Promise(p))'
  <1>1. pc[p] \in AioPlaces
    BY DEF CheckForAIO, AioBusy, AioNothing, AioPoll, EventsDone, Woken, AioFetch, GetEvents,
           Arrived, AioPlaces
  <1>2. (Place(p))' = Place(p)
    BY <1>1 DEF Does, Runs
  <1>3. pc'[p] \notin EvictPlaces
    <2>1. Place(p) \in EvictPlaces => pc[p] = Place(p)
      BY <1>1, PlaceOfCall DEF Busy, AioPlaces
    <2>2. pc'[p] \in EvictPlaces => (Place(p))' \in EvictPlaces
      BY DEF Place, AioPlaces, EvictPlaces
    <2>3. AioPlaces \cap EvictPlaces = {}
      BY DEF AioPlaces, EvictPlaces
    <2> QED BY <1>1, <1>2, <2>1, <2>2, <2>3
  <1> QED BY <1>3 DEF Promise

\* Only setMemoryLimit makes the promise.
LEMMA CallPromise ==
    ASSUME SInv, NEW t \in Threads, Does(t),
           \/ EnsureEnoughSpace(t)
           \/ PrepareUse(t) \/ SetUse(t) \/ WaitForSwapout(t) \/ WaitForSwapin(t)
           \/ UnsetUse(t) \/ Untouched(t) \/ Mfree(t) \/ Pffree(t)
    PROVE  (Promise(t))'
  <1>0. ControlInv /\ t \in Procs
    BY DEF SInv, IInv, Procs
  <1>1. call[t].op # "setMemoryLimit"
    <2>1. CASE EnsureEnoughSpace(t)
      <3>1. pc[t] = "space" \/ AfterEvict(t)
        BY <2>1 DEF EnsureEnoughSpace, SpaceFound, AlreadyThere, SpaceMissing, EvictHelped,
              LastResort, OutOfMemory, KeepTrying, EvictFailed
      <3>2. call[t].op \in SpaceOps
        BY <1>0, <3>1, At DEF AfterEvict
      <3> QED BY <3>2 DEF SpaceOps, UseOps
    <2>2. CASE \/ PrepareUse(t) \/ SetUse(t) \/ WaitForSwapout(t) \/ WaitForSwapin(t)
               \/ UnsetUse(t) \/ Mfree(t) \/ Pffree(t)
      <3>1. pc[t] \in UseOps \cup {"prepareUse", "waitOut", "waitIn", "unsetUse", "mfree", "pffree"}
        BY <2>2 DEF PrepareUse, SetUse, WaitForSwapout, WaitForSwapin, UnsetUse, Mfree, Pffree
      <3>2. Place(t) = pc[t] /\ Busy(t) /\ pc[t] \notin {"lock", "stuck"}
        BY <3>1 DEF Place, AioPlaces, UseOps, Busy
      <3>3. Place(t) \in Inside(call[t].op) \cup {call[t].op}
        BY <3>2, PlaceOfCall
      <3> QED BY <3>1, <3>2, <3>3 DEF Inside, EvictPlaces, UseOps
    <2>3. CASE Untouched(t)
      BY <2>3 DEF Untouched
    <2> QED BY <2>1, <2>2, <2>3
  <1>2. (Busy(t))' => call'[t].op # "setMemoryLimit"
    BY <1>0, <1>1, OwnCall DEF Does
  <1> QED BY <1>2 DEF Promise, Busy, EvictPlaces

\* Steps inside the manager.
LEMMA InsideBytes ==
    ASSUME SInv, SInv', BInv, NEW p \in Procs, CheckForAIO(p) \/ (p \in Threads /\ Manager(p))
    PROVE  BInv' /\ (Fits => Fits' \/ (memory_max' < memory_max /\ ring # memChunks))
  <1>0. ControlInv /\ Accounting /\ SwapBounded
    BY DEF SInv, IInv, BInv
  <1>1. CASE CheckForAIO(p)
    <2>1. Does(p)
      BY <1>0, <1>1, AioStepMoves, AioRuns DEF Does
    <2>2. Counts
      BY <1>0, <1>1, AioCounts
    <2>3. AskedOK' /\ PromiseOK'
      BY <1>1, <2>1, AioPromise, OthersPromise
    <2> QED BY <2>2, <2>3, CountsKept DEF BInv
  <1>2. CASE p \in Threads /\ Manager(p)
    <2>1. Does(p)
      <3>1. Moves(p)
        BY <1>0, <1>2, EvictMoves, SpaceMoves, CallMoves DEF Manager
      <3>2. Runs(p) /\ Flow(p) /\ Effect(p) /\ Turn(p) /\ Uses(p)
        BY <1>2, EvictRuns, SpaceRuns, CallRuns DEF Manager
      <3> QED BY <3>1, <3>2 DEF Does
    <2>2. CASE SetMemoryLimit(p) \/ LimitEvicted(p)
      BY <1>2, <2>1, <2>2, LimitSteps, OthersPromise DEF BInv
    <2>3. CASE ~(SetMemoryLimit(p) \/ LimitEvicted(p))
      <3>1. Counts
        BY <1>0, <1>2, <2>3, EvictCounts, SpaceCounts, CallCounts DEF Manager
      <3>2. (Promise(p))'
        BY <1>2, <2>1, <2>3, EvictPromise, CallPromise DEF Manager
      <3> QED BY <2>1, <3>1, <3>2, CountsKept, OthersPromise DEF BInv
    <2> QED BY <2>2, <2>3
  <1> QED BY <1>1, <1>2

\* Steps outside: no chunk, no counter and no search for victims.
LEMMA OutsideBytes ==
    ASSUME SInv, SInv', BInv,
           \/ \E t \in Threads : Client(t)
           \/ \E p \in Procs : Lock(p)
           \/ ArriverStart \/ ArriverDone \/ UNCHANGED vars
    PROVE  BInv' /\ (Fits => Fits' \/ (memory_max' < memory_max /\ ring # memChunks))
  <1>0. /\ pc \in [Procs -> PCs] /\ call \in [Procs -> Calls]
        /\ Threads \subseteq Procs /\ Arriver \in Procs /\ Arriver \notin Threads
    BY DEF SInv, IInv, ControlInv, ThreadsTyped, Procs
  <1>1. /\ UNCHANGED <<status, swapBuf, ring, memVars, ev>>
        /\ \A u \in Threads : /\ pc'[u] \in EvictPlaces => pc'[u] = pc[u] /\ call'[u] = call[u]
                              /\ \/ (Busy(u))' => Busy(u) /\ call'[u] = call[u]
                                 \/ \E op \in Ops, k \in Chunks \cup {None} :
                                       Invoke(u, op, k) /\ (op = "setMemoryLimit" => Limits # {})
    <2>1. ASSUME NEW t \in Threads, Client(t)
          PROVE  /\ UNCHANGED <<status, swapBuf, ring, memVars, ev>>
                 /\ \/ pc' = pc /\ call' = call
                    \/ \E op \in Ops, k \in Chunks \cup {None} :
                          Invoke(t, op, k) /\ (op = "setMemoryLimit" => Limits # {})
      <3>1. ASSUME NEW op \in Ops, NEW k \in Chunks \cup {None}, Invoke(t, op, k),
                   op = "setMemoryLimit" => Limits # {}
            PROVE  /\ UNCHANGED <<status, swapBuf, ring, memVars, ev>>
                   /\ \E o \in Ops, l \in Chunks \cup {None} :
                          Invoke(t, o, l) /\ (o = "setMemoryLimit" => Limits # {})
        BY <3>1 DEF Invoke
      <3>2. CASE SetLimit(t)
        BY <3>1, <3>2 DEF SetLimit, Ops
      <3>3. ASSUME NEW c \in Chunks, NEW v \in Vals, Store(t, c, v)
            PROVE  UNCHANGED <<status, swapBuf, ring, memVars, ev>> /\ pc' = pc /\ call' = call
        BY <3>3 DEF Store
      <3>4. ASSUME NEW c \in Chunks,
                   \/ New(t, c) \/ Adhere(t, c) \/ Drop(t, c) \/ Delete(t, c)
                   \/ \E m \in {"R", "W"} : Pull(t, c, m)
            PROVE  \E op \in Ops : Invoke(t, op, c) /\ op # "setMemoryLimit"
        BY <3>4 DEF New, Adhere, Drop, Delete, Pull, Ops, SpaceOps, UseOps
      <3> QED BY <2>1, <3>1, <3>2, <3>3, <3>4 DEF Client
    <2>2. ASSUME NEW t \in Threads, NEW op \in Ops, NEW k \in Chunks \cup {None},
                 Invoke(t, op, k), op = "setMemoryLimit" => Limits # {}
          PROVE  /\ \A u \in Threads : u # t => pc'[u] = pc[u] /\ call'[u] = call[u]
                 /\ pc'[t] = "lock"
      BY <1>0, <2>2 DEF Invoke, Goto
    <2>3. ASSUME NEW p \in Procs, Lock(p)
          PROVE  /\ UNCHANGED <<status, swapBuf, ring, memVars, ev>> /\ call' = call
                 /\ \A u \in Procs : u # p => pc'[u] = pc[u]
                 /\ pc[p] = "lock" /\ pc'[p] = Entry(call[p].op)
      BY <1>0, <2>3 DEF Lock, Goto
    <2>4. \A op \in Ops : Entry(op) \notin EvictPlaces
      BY DEF Entry, Ops, SpaceOps, UseOps, EvictPlaces
    <2>5. CASE ArriverStart \/ ArriverDone \/ UNCHANGED vars
      <3>1. /\ UNCHANGED <<status, swapBuf, ring, memVars, ev>>
            /\ \A u \in Threads : pc'[u] = pc[u] /\ call'[u] = call[u]
        BY <1>0, <2>5 DEF ArriverStart, ArriverDone, Return, Goto
      <3> QED BY <3>1 DEF Busy
    <2>6. CASE \E t \in Threads : Client(t)
      <3>1. PICK t \in Threads : Client(t)
        BY <2>6
      <3>2. CASE pc' = pc /\ call' = call
        BY <2>1, <3>1, <3>2 DEF Busy
      <3>3. CASE \E op \in Ops, k \in Chunks \cup {None} :
                    Invoke(t, op, k) /\ (op = "setMemoryLimit" => Limits # {})
        <4>1. PICK op \in Ops, k \in Chunks \cup {None} :
                 Invoke(t, op, k) /\ (op = "setMemoryLimit" => Limits # {})
          BY <3>3
        <4>2. /\ \A u \in Threads : u # t => pc'[u] = pc[u] /\ call'[u] = call[u]
              /\ pc'[t] = "lock"
          BY <2>2, <4>1
        <4>3. UNCHANGED <<status, swapBuf, ring, memVars, ev>>
          BY <2>1, <3>1
        <4> QED BY <4>1, <4>2, <4>3 DEF Busy, EvictPlaces
      <3> QED BY <2>1, <3>1, <3>2, <3>3
    <2>7. CASE \E p \in Procs : Lock(p)
      <3>1. PICK p \in Procs : Lock(p)
        BY <2>7
      <3>2. /\ UNCHANGED <<status, swapBuf, ring, memVars, ev>> /\ call' = call
            /\ \A u \in Procs : u # p => pc'[u] = pc[u]
            /\ pc[p] = "lock" /\ pc'[p] = Entry(call[p].op)
        BY <2>3, <3>1
      <3>3. pc'[p] \notin EvictPlaces
        BY <1>0, <2>4, <3>2 DEF Calls
      <3> QED BY <1>0, <3>2, <3>3 DEF Busy
    <2> QED BY <2>5, <2>6, <2>7
  <1>2. Accounting' /\ SwapBounded'
    BY <1>1, SumsSame
  <1>3. AskedOK'
    <2>1. ASSUME NEW u \in Threads, (Busy(u))', call'[u].op = "setMemoryLimit"
          PROVE  Limits # {}
      <3>1. CASE Busy(u) /\ call'[u] = call[u]
        BY <2>1, <3>1 DEF BInv, AskedOK
      <3>2. ASSUME NEW op \in Ops, NEW k \in Chunks \cup {None}, Invoke(u, op, k),
                   op = "setMemoryLimit" => Limits # {}
            PROVE  Limits # {}
        <4>1. call'[u].op = op
          BY <1>0, <3>2 DEF Invoke, NewCall
        <4> QED BY <2>1, <3>2, <4>1
      <3> QED BY <1>1, <2>1, <3>1, <3>2
    <2> QED BY <2>1 DEF AskedOK
  <1>4. PromiseOK' /\ LimitRespected'
    BY <1>1 DEF BInv, PromiseOK, Promise, LimitRespected, memChunks
  <1>5. Fits => Fits'
    BY <1>1 DEF Fits
  <1> QED BY <1>2, <1>3, <1>4, <1>5 DEF BInv
-----------------------------------------------------------------------------
(* The theorems *)

\* The counters of a manager without chunks.
LEMMA BytesInit == Init => BInv
  <1> SUFFICES ASSUME Init PROVE BInv
    OBVIOUS
  <1>1. Resident = {} /\ Leaving = {} /\ Away = {} /\ Copies = {}
    BY DEF Init, Resident, Leaving, Away, Copies, Allocated, Unused, InUse
  <1>2. Accounting
    BY <1>1, BytesType, AccountingIs DEF Init
  <1>3. SwapBounded
    <2>1. Bytes(Copies) <= SwapSize /\ swapUsed <= SwapSize
      BY <1>1, BytesType DEF Init
    <2> QED BY <2>1 DEF SwapBounded, Copies
  <1>4. \A t \in Threads : pc[t] = "idle"
    BY DEF Init, Procs
  <1>5. AskedOK /\ PromiseOK
    BY <1>4 DEF AskedOK, PromiseOK, Promise, Busy, EvictPlaces
  <1>6. LimitRespected
    BY DEF Init, LimitRespected
  <1> QED BY <1>2, <1>3, <1>5, <1>6 DEF BInv

\* Every step keeps the counters and the limit.
LEMMA BytesNext ==
    ASSUME SInv, SInv', BInv, [Next]_vars
    PROVE  BInv' /\ (Fits => Fits' \/ (memory_max' < memory_max /\ ring # memChunks))
  <1>1. Threads \subseteq Procs
    BY DEF Procs
  <1> QED BY <1>1, InsideBytes, OutsideBytes DEF Next

\* The inductive invariant holds of every behaviour without the races of prefetching.
THEOREM BInvHolds ==
    ASSUME NoRace
    PROVE  Spec => []BInv
  <1>1. SInv /\ SInv' /\ BInv /\ [Next]_vars => BInv'
    BY BytesNext
  <1> QED BY BytesInit, <1>1, SInvHolds, PTL DEF Spec

\* memory_used, memory_tobefreed and swapUsed are what checkCycle adds up over the chunks,
\* at every moment: no transfer, exception or deletion counts a chunk twice or forgets it.
THEOREM CountersExact ==
    ASSUME NoRace
    PROVE  Spec => []Accounting
  <1>1. BInv => Accounting
    BY DEF BInv
  <1> QED BY <1>1, BInvHolds, PTL

\* Neither the swap space counted nor the pages given out exceed the page file.
THEOREM SwapNeverOvercommitted ==
    ASSUME NoRace
    PROVE  Spec => []SwapBounded
  <1>1. BInv => SwapBounded
    BY DEF BInv
  <1> QED BY <1>1, BInvHolds, PTL

\* RAM in use never exceeds a limit that is not changed.
THEOREM LimitIsRespected ==
    ASSUME NoRace
    PROVE  Spec => []LimitRespected
  <1>1. BInv => LimitRespected
    BY DEF BInv
  <1> QED BY <1>1, BInvHolds, PTL

\* What remains in RAM once the writes under way are done keeps to a limit that changes,
\* unless the limit is lowered while a chunk is being deleted.
THEOREM LimitIsKept ==
    ASSUME NoRace
    PROVE  Spec => LimitKept
  <1>1. SInv /\ SInv' /\ BInv /\ [Next]_vars
            => [Fits => Fits' \/ (memory_max' < memory_max /\ ring # memChunks)]_vars
    BY BytesNext
  <1> QED BY <1>1, SInvHolds, BInvHolds, PTL DEF Spec, LimitKept
-----------------------------------------------------------------------------
(* Nobody gets stuck with the mutex                                        *)

\* pfmalloc throws when the page copies it drops are exactly what it misses. That cannot
\* be if all chunks have one size, or if the page file has room for all of them.
NoExactFit ==
    \/ \A c, d \in Chunks : Size[c] = Size[d]
    \/ Bytes(Chunks) <= SwapSize

\* Who waits for its chunk to be read in has it, or its read is pending.
ReadyOK ==
    \A t \in Threads : Busy(t) /\ Place(t) = "waitIn" => Present(call[t].chunk)

NInv == ReadyOK /\ NeverStuck

\* The page copies that can be dropped make up for what the counter calls free.
LEMMA RoomForAll ==
    ASSUME SInv, BInv
    PROVE  swapFree <= PagesFree + Bytes(Cached)
  <1>1. Cached \in SUBSET Copies /\ Copies \in SUBSET Chunks /\ Away \in SUBSET Chunks
    BY DEF Cached, Copies, Away
  <1>2. (Copies \ Cached) \in SUBSET Away
    BY ContentFacts DEF Copies, Cached, Away, PlacedOK, Statuses, Allocated, Unused, InUse
  <1>3. Bytes(Copies \ Cached) <= Bytes(Away) /\ Bytes(Copies \ Cached) = Bytes(Copies) - Bytes(Cached)
    BY <1>1, <1>2, BytesPart
  <1>4. swapUsed = Bytes(Away)
    BY AccountingIs DEF BInv
  <1>5. Bytes(Copies) \in Nat /\ Bytes(Cached) \in Nat /\ Bytes(Away) \in Nat
    BY <1>1, BytesType
  <1> QED BY <1>3, <1>4, <1>5 DEF swapFree, PagesFree, Copies

\* Unloading a chunk finds its pages.
LEMMA WriteFits ==
    ASSUME NoExactFit, SInv, BInv, NEW c \in Chunks, Size[c] <= swapFree, ~swapBuf[c],
           PagesFree > 0, ~(PagesFree >= Size[c]), NEW D \in Cleanups(Size[c] - PagesFree)
    PROVE  Bytes(D) > Size[c] - PagesFree
  <1>0. /\ Size[c] \in Nat /\ Size[c] > 0 /\ Copies \in SUBSET Chunks /\ Bytes(Copies) \in Nat
        /\ PagesFree = SwapSize - Bytes(Copies)
        /\ D \in SUBSET Chunks /\ Bytes(D) \in Nat /\ Cached \in SUBSET Chunks
        /\ Bytes(Cached) \in Nat /\ swapFree \in Int
    BY ChunkSets, BytesType, CounterTypes DEF Copies, PagesFree, Cleanups, Cached, swapFree, BInv
  <1>1. CASE Bytes(Chunks) <= SwapSize
    <2>1. c \notin Copies /\ (Copies \cup {c}) \in SUBSET Chunks
      BY <1>0 DEF Copies
    <2>2. Bytes(Copies \cup {c}) = Bytes(Copies) + Size[c]
      BY <1>0, <2>1, BytesAdd
    <2>3. Bytes(Copies \cup {c}) <= Bytes(Chunks) /\ Bytes(Chunks) \in Nat
      BY <2>1, BytesPart, BytesType
    <2> QED BY <1>0, <1>1, <2>2, <2>3
  <1>2. CASE \A d, e \in Chunks : Size[d] = Size[e]
    <2>1. Bytes(D) >= Size[c] - PagesFree
      <3>1. D = Cached \/ Bytes(D) >= Size[c] - PagesFree
        BY DEF Cleanups
      <3>2. Bytes(Cached) >= Size[c] - PagesFree
        BY <1>0, RoomForAll
      <3> QED BY <3>1, <3>2
    <2>2. D # {}
      BY <1>0, <2>1, BytesType
    <2>3. PICK d \in D : TRUE
      BY <2>2
    <2>4. d \in Chunks /\ Bytes(D \ {d}) = Bytes(D) - Size[d] /\ Bytes(D \ {d}) \in Nat
      BY <1>0, <2>3, BytesAdd, BytesType
    <2>5. Size[d] = Size[c]
      BY <1>2, <2>4
    <2> QED BY <1>0, <2>4, <2>5
  <1> QED BY <1>1, <1>2 DEF NoExactFit

\* The search for victims ends, or ends the call.
LEMMA EvictGoes ==
    ASSUME NoExactFit, SInv, BInv, NEW t \in Threads, Evict(t)
    PROVE  pc'[t] \in EvictPlaces \cup {"idle", "lock"}
  <1>0. pc \in [Procs -> PCs] /\ t \in Procs
    BY DEF SInv, IInv, ControlInv, ThreadsTyped, Procs
  <1>1. CASE EvictNothing(t)
    BY <1>0, <1>1 DEF EvictNothing, Throw, Goto
  <1>2. CASE EvictSwapFull(t) \/ EvictSelect(t) \/ UnloadDone(t)
    BY <1>0, <1>2 DEF EvictSwapFull, EvictSelect, UnloadDone, Goto, EvictPlaces
  <1>3. ASSUME NEW c \in Chunks, UnloadNot(t, c) \/ UnloadCached(t, c)
        PROVE  pc'[t] = "unload"
    BY <1>0, <1>3 DEF UnloadNot, UnloadCached, NextVictim, SignalAndGoto
  <1>4. ASSUME NEW c \in Chunks, UnloadWrite(t, c)
        PROVE  pc'[t] = "unload"
    <2>1. pc[t] = "unload" /\ \E D : ScheduleWrite(c, D)
      BY <1>4, WriteFits DEF UnloadWrite, NextVictim, Missing
    <2> QED BY <2>1 DEF ScheduleWrite
  <1> QED BY <1>1, <1>2, <1>3, <1>4 DEF Evict, EvictPlaces

\* Making room leads to waiting, to the search for victims, or out.
LEMMA SpaceGoes ==
    ASSUME SInv, NEW t \in Threads, EnsureEnoughSpace(t)
    PROVE  /\ pc'[t] # "stuck"
           /\ (Place(t))' = "waitIn" => (Present(call[t].chunk))'
  <1>0. /\ pc \in [Procs -> PCs] /\ call \in [Procs -> Calls] /\ t \in Procs /\ ControlInv
    BY DEF SInv, IInv, ControlInv, ThreadsTyped, Procs
  <1>1. ASSUME NEW l \in {"space", "evict"}, Wait(t, l) \/ (Goto(t, l) /\ UNCHANGED call)
        PROVE  pc'[t] # "stuck" /\ (Place(t))' # "waitIn"
    <2>1. (pc'[t] = "aio" /\ call'[t].ret = l) \/ pc'[t] = l
      BY <1>1, WaitPlaces, GotoPlaces
    <2> QED BY <2>1 DEF Place, AioPlaces
  <1>2. ASSUME Throw(t) \/ Return(t)
        PROVE  pc'[t] # "stuck" /\ (Place(t))' # "waitIn"
    BY <1>0, <1>2 DEF Throw, Return, Goto, Place, AioPlaces
  <1>3. ASSUME Goto(t, "waitIn") /\ UNCHANGED call
        PROVE  pc'[t] = "waitIn" /\ call' = call
    BY <1>0, <1>3 DEF Goto
  <1>4. CASE SpaceFound(t)
    <2>1. PICK c \in Chunks : c = call[t].chunk
      BY <1>0, <1>4, SpaceStatus, At DEF SpaceFound
    <2>2. CASE call[t].op = "mmalloc"
      BY <1>2, <1>4, <2>2 DEF SpaceFound, Allocate
    <2>3. CASE call[t].op # "mmalloc" /\ swapBuf[c]
      <3>1. ScheduleRead(t, c)
        BY <1>4, <2>1, <2>3 DEF SpaceFound
      <3>2. status'[c] = "SWAPIN"
        BY <3>1, ContentFacts DEF ScheduleRead
      <3> QED BY <1>2, <1>3, <2>1, <3>1, <3>2 DEF ScheduleRead, Present
    <2>4. CASE call[t].op # "mmalloc" /\ ~swapBuf[c]
      BY <1>2, <1>4, <2>1, <2>4 DEF SpaceFound
    <2> QED BY <2>2, <2>3, <2>4
  <1>5. CASE AlreadyThere(t)
    <2>1. /\ Present(call[t].chunk) /\ status' = status
          /\ (Goto(t, "waitIn") /\ UNCHANGED call) \/ Return(t)
      BY <1>5 DEF AlreadyThere
    <2> QED BY <1>2, <1>3, <2>1 DEF Present
  <1>6. CASE SpaceMissing(t) \/ EvictHelped(t) \/ LastResort(t) \/ OutOfMemory(t) \/ KeepTrying(t)
    <2>1. CASE LastResort(t)
      BY <1>0, <2>1 DEF LastResort, Goto, Place, AioPlaces
    <2>2. CASE OutOfMemory(t)
      BY <1>2, <2>2 DEF OutOfMemory
    <2>3. CASE SpaceMissing(t) \/ EvictHelped(t) \/ KeepTrying(t)
      BY <1>1, <2>3 DEF SpaceMissing, EvictHelped, KeepTrying, StartEvict
    <2> QED BY <1>6, <2>1, <2>2, <2>3
  <1> QED BY <1>4, <1>5, <1>6 DEF EnsureEnoughSpace

\* The other operations; a setUse waits for its chunk once the read is asked for.
LEMMA CallGoes ==
    ASSUME SInv, NInv, NEW t \in Threads,
           \/ PrepareUse(t) \/ SetUse(t) \/ WaitForSwapout(t) \/ WaitForSwapin(t)
           \/ UnsetUse(t) \/ Untouched(t) \/ Mfree(t) \/ Pffree(t)
           \/ SetMemoryLimit(t) \/ LimitEvicted(t)
    PROVE  /\ pc'[t] # "stuck"
           /\ (Place(t))' = "waitIn" => (Present(call[t].chunk))'
  <1>0. /\ pc \in [Procs -> PCs] /\ call \in [Procs -> Calls] /\ t \in Procs /\ ControlInv
    BY DEF SInv, IInv, ControlInv, ThreadsTyped, Procs
  <1>1. ASSUME NEW l \in {"space", "evict", "waitOut", "pffree"},
               Wait(t, l) \/ (Goto(t, l) /\ UNCHANGED call)
        PROVE  pc'[t] # "stuck" /\ (Place(t))' # "waitIn"
    <2>1. (pc'[t] = "aio" /\ call'[t].ret = l) \/ pc'[t] = l
      BY <1>1, WaitPlaces, GotoPlaces
    <2> QED BY <2>1 DEF Place, AioPlaces
  <1>2. ASSUME Throw(t) \/ Return(t) \/ SignalAndReturn(t)
        PROVE  pc'[t] # "stuck" /\ (Place(t))' # "waitIn"
    BY <1>0, <1>2 DEF Throw, Return, SignalAndReturn, SignalAndGoto, Goto, Place, AioPlaces
  <1>3. ASSUME (Goto(t, "waitIn") /\ UNCHANGED call) \/ Wait(t, "waitIn")
        PROVE  pc'[t] # "stuck"
    BY <1>0, <1>3 DEF Goto, Wait
  <1>4. CASE PrepareUse(t)
    BY <1>1, <1>2, <1>4 DEF PrepareUse, Await
  <1>5. CASE SetUse(t)
    <2>1. call[t].chunk \in Chunks /\ Busy(t) /\ call[t].op \in UseOps
      BY <1>0, <1>5, At DEF SetUse, UseOps, Busy
    <2>2. status[call[t].chunk] \in Statuses \ {"NONE"}
      BY <2>1, ContentFacts DEF SInv, ThreadInv, AliveOK, BringIn
    <2>3. CASE status[call[t].chunk] \in Allocated
      BY <1>2, <1>5, <2>3 DEF SetUse, Grant
    <2>4. CASE status[call[t].chunk] \notin Allocated
      <3>1. Goto(t, Await(status[call[t].chunk])) /\ UNCHANGED <<call, status>>
        BY <1>5, <2>4 DEF SetUse
      <3>2. CASE status[call[t].chunk] = "SWAPIN"
        BY <1>3, <3>1, <3>2 DEF Await, Present
      <3>3. CASE status[call[t].chunk] \in {"SWAPOUT", "SWAPPED"}
        BY <1>1, <3>1, <3>3 DEF Await
      <3> QED BY <2>2, <2>4, <3>2, <3>3 DEF Statuses, Allocated, Unused, InUse
    <2> QED BY <2>3, <2>4
  <1>6. CASE WaitForSwapout(t)
    <2>1. call[t].chunk \in Chunks /\ Busy(t) /\ call[t].op \in BringIn
      BY <1>0, <1>6, At DEF WaitForSwapout, Busy, BringIn, UseOps
    <2>2. status[call[t].chunk] \in Statuses \ {"NONE"} /\ status' = status
      BY <1>6, <2>1, ContentFacts DEF SInv, ThreadInv, AliveOK, WaitForSwapout
    <2>3. CASE status[call[t].chunk] \in {"SWAPOUT", "SWAPPED"}
      BY <1>1, <1>6, <2>3 DEF WaitForSwapout
    <2>4. CASE status[call[t].chunk] \notin {"SWAPOUT", "SWAPPED"}
      <3>1. Present(call[t].chunk)
        BY <2>2, <2>4 DEF Present, Statuses
      <3>2. (Goto(t, "waitIn") /\ UNCHANGED call) \/ Return(t)
        BY <1>6, <2>4 DEF WaitForSwapout
      <3>3. pc'[t] # "idle" => call' = call
        BY <1>0, <3>2 DEF Return, Goto
      <3>4. (Place(t))' = "waitIn" => pc'[t] # "idle"
        BY DEF Place, AioPlaces
      <3> QED BY <1>2, <1>3, <2>2, <3>1, <3>2, <3>3, <3>4 DEF Present
    <2> QED BY <2>3, <2>4
  <1>7. CASE WaitForSwapin(t)
    <2>1. Busy(t) /\ Place(t) = "waitIn"
      BY <1>7 DEF WaitForSwapin, Busy, Place, AioPlaces
    <2>2. Present(call[t].chunk)
      BY <2>1 DEF NInv, ReadyOK
    <2>3. CASE status[call[t].chunk] \in Allocated
      BY <1>2, <1>7, <2>3 DEF WaitForSwapin, Grant
    <2>4. CASE status[call[t].chunk] \notin Allocated
      <3>1. Wait(t, "waitIn") /\ status' = status
        BY <1>7, <2>2, <2>4 DEF WaitForSwapin, Present
      <3>2. call'[t].chunk = call[t].chunk
        BY <1>0, <3>1 DEF Wait, Calls
      <3> QED BY <1>3, <2>2, <3>1, <3>2 DEF Present
    <2> QED BY <2>3, <2>4
  <1>8. CASE UnsetUse(t) \/ Untouched(t) \/ SetMemoryLimit(t) \/ LimitEvicted(t)
    BY <1>1, <1>2, <1>8 DEF UnsetUse, Untouched, SetMemoryLimit, LimitEvicted, StartEvict
  <1>9. CASE Mfree(t) \/ Pffree(t)
    BY <1>1, <1>2, <1>9 DEF Mfree, Pffree, Erase
  <1> QED BY <1>4, <1>5, <1>6, <1>7, <1>8, <1>9

\* Collecting transfers ends where the thread waited: nothing arrives unexpected.
LEMMA AioGoes ==
    ASSUME SInv, NEW p \in Procs, CheckForAIO(p)
    PROVE  pc'[p] # "stuck"
  <1>0. pc \in [Procs -> PCs] /\ call[p].ret \in Waits
    BY DEF SInv, IInv, ControlInv, ThreadsTyped, Calls
  <1>1. CASE \/ AioBusy(p) \/ AioNothing(p) \/ AioPoll(p) \/ EventsDone(p) \/ Woken(p)
             \/ AioFetch(p) \/ GetEvents(p)
    BY <1>0, <1>1 DEF AioBusy, AioNothing, AioPoll, EventsDone, Woken, AioFetch, GetEvents, Goto,
          Waits
  <1>2. ASSUME NEW c \in Chunks, Arrived(p, c)
        PROVE  pc'[p] = "events"
    <2>1. status[c] \in {"SWAPIN", "SWAPOUT"}
      BY <1>2, GotInFlight DEF Arrived
    <2> QED BY <1>0, <1>2, <2>1 DEF Arrived, ReadArrived, WriteArrived, SignalAndGoto
  <1> QED BY <1>1, <1>2 DEF CheckForAIO

\* Nobody takes a chunk away from a thread that waits for it.
LEMMA ReadyStays ==
    ASSUME SInv, NEW p \in Procs, Does(p), NEW t \in Threads, Busy(t), Place(t) = "waitIn",
           Present(call[t].chunk)
    PROVE  status'[call[t].chunk] \in Allocated \cup {"SWAPIN"}
  <1>1. Flow(p) /\ Moves(p)
    BY DEF Does
  <1>2. call[t].op \in UseOps /\ call[t].chunk \in Chunks /\ pc[t] \notin {"lock", "stuck"}
    <2>1. pc[t] \notin {"lock", "stuck"}
      BY DEF Place, AioPlaces
    <2>2. Place(t) \in Inside(call[t].op) \cup {call[t].op} /\ call[t].op \in Ops
          /\ (call[t].op # "setMemoryLimit" => call[t].chunk \in Chunks)
      BY <2>1, PlaceOfCall
    <2> QED BY <2>1, <2>2 DEF Inside, EvictPlaces, Ops, SpaceOps, UseOps
  <1>3. PICK c \in Chunks : c = call[t].chunk
    BY <1>2
  <1>4. status[c] \in Allocated \cup {"SWAPIN"} /\ useCnt[c] > 0
    BY <1>2, <1>3, WaitersCounted DEF Present
  <1>5. CASE p \in Threads /\ Unloading(p, c)
    <2>1. useCnt[c] = 0
      BY <1>5, UnloadedUnused
    <2> QED BY <1>4, <2>1
  <1>6. CASE p \in Threads /\ Freeing(p, c)
    <2>1. Busy(p) /\ call[p].op = "mfree" /\ call[p].chunk = call[t].chunk
      BY <1>3, <1>6 DEF Freeing, Busy
    <2>2. t = p
      BY <1>6, <2>1, Alone
    <2> QED BY <1>2, <2>1, <2>2 DEF UseOps
  <1>7. CASE \/ status'[c] = status[c]
             \/ p \in Threads /\ (Making(p, c) \/ Granting(p, c) \/ Releasing(p, c) \/ Reading(p, c))
             \/ Arriving(p, c)
    BY <1>3, <1>4, <1>7 DEF Making, Granting, Releasing, Reading, Arriving, Allocated, Unused,
          InUse
  <1> QED BY <1>1, <1>3, <1>5, <1>6, <1>7 DEF Flow

\* Steps inside the manager.
LEMMA InsideFree ==
    ASSUME NoExactFit, SInv, BInv, NInv, NEW p \in Procs,
           CheckForAIO(p) \/ (p \in Threads /\ Manager(p))
    PROVE  NInv'
  <1>0. ControlInv /\ Threads \subseteq Procs
    BY DEF SInv, IInv, Procs
  <1>1. Does(p)
    <2>1. CASE CheckForAIO(p)
      BY <1>0, <2>1, AioStepMoves, AioRuns DEF Does
    <2>2. CASE p \in Threads /\ Manager(p)
      <3>1. Moves(p)
        BY <1>0, <2>2, EvictMoves, SpaceMoves, CallMoves DEF Manager
      <3>2. Runs(p) /\ Flow(p) /\ Effect(p) /\ Turn(p) /\ Uses(p)
        BY <2>2, EvictRuns, SpaceRuns, CallRuns DEF Manager
      <3> QED BY <3>1, <3>2 DEF Does
    <2> QED BY <2>1, <2>2
  <1>2. Moves(p) /\ Runs(p)
    BY <1>1 DEF Does
  <1>3. NeverStuck'
    <2>1. pc'[p] # "stuck"
      BY EvictGoes, SpaceGoes, CallGoes, AioGoes DEF Manager, EvictPlaces
    <2>2. \A q \in Procs : q # p => pc'[q] # "stuck"
      BY <1>2 DEF Moves, NInv, NeverStuck
    <2> QED BY <2>1, <2>2 DEF NeverStuck
  <1>4. ASSUME NEW t \in Threads, (Busy(t))', (Place(t))' = "waitIn"
        PROVE  (Present(call[t].chunk))'
    <2>1. Busy(t) /\ call'[t].chunk = call[t].chunk /\ (t # p => Place(t) = (Place(t))')
      BY <1>0, <1>2, <1>4, StaysInside
    <2>2. CASE Place(t) = "waitIn"
      <3>1. Present(call[t].chunk)
        BY <2>1, <2>2 DEF NInv, ReadyOK
      <3>2. status'[call[t].chunk] \in Allocated \cup {"SWAPIN"}
        BY <1>1, <2>1, <2>2, <3>1, ReadyStays
      <3> QED BY <2>1, <3>2 DEF Present
    <2>3. CASE Place(t) # "waitIn"
      <3>1. t = p
        BY <1>4, <2>1, <2>3
      <3>2. CASE CheckForAIO(p)
        <4>1. pc[p] \in AioPlaces
          BY <3>2 DEF CheckForAIO, AioBusy, AioNothing, AioPoll, EventsDone, Woken, AioFetch,
                GetEvents, Arrived, AioPlaces
        <4>2. (Place(p))' = Place(p)
          BY <1>2, <4>1 DEF Runs
        <4> QED BY <1>4, <2>3, <3>1, <4>2
      <3>3. CASE Evict(p)
        <4>1. pc'[p] \in EvictPlaces \cup {"idle", "lock"}
          BY <3>1, <3>3, EvictGoes
        <4> QED BY <1>4, <3>1, <4>1 DEF Place, EvictPlaces, AioPlaces
      <3>4. CASE ~CheckForAIO(p) /\ ~Evict(p)
        BY <1>4, <3>1, <3>4, SpaceGoes, CallGoes DEF Manager
      <3> QED BY <3>2, <3>3, <3>4
    <2> QED BY <2>2, <2>3
  <1> QED BY <1>3, <1>4 DEF NInv, ReadyOK

\* Steps outside.
LEMMA OutsideFree ==
    ASSUME SInv, NInv,
           \/ \E t \in Threads : Client(t)
           \/ \E p \in Procs : Lock(p)
           \/ ArriverStart \/ ArriverDone \/ UNCHANGED vars
    PROVE  NInv'
  <1>0. /\ pc \in [Procs -> PCs] /\ call \in [Procs -> Calls]
        /\ Threads \subseteq Procs /\ Arriver \in Procs
    BY DEF SInv, IInv, ControlInv, ThreadsTyped, Procs
  <1>1. ASSUME status' = status,
               \A u \in Threads : \/ pc'[u] = pc[u] /\ call'[u] = call[u]
                                  \/ pc'[u] \notin AioPlaces \cup {"waitIn"},
               \A q \in Procs : pc'[q] = pc[q] \/ pc'[q] # "stuck"
        PROVE  NInv'
    <2>1. NeverStuck'
      BY <1>1 DEF NInv, NeverStuck
    <2>2. ASSUME NEW u \in Threads, (Busy(u))', (Place(u))' = "waitIn"
          PROVE  (Present(call[u].chunk))'
      <3>1. pc'[u] = pc[u] /\ call'[u] = call[u]
        BY <1>1, <2>2 DEF Place
      <3>2. Busy(u) /\ Place(u) = "waitIn"
        BY <2>2, <3>1 DEF Busy, Place
      <3> QED BY <1>1, <3>1, <3>2 DEF NInv, ReadyOK, Present
    <2> QED BY <2>1, <2>2 DEF NInv, ReadyOK
  <1>2. ASSUME NEW t \in Threads, Client(t)
        PROVE  NInv'
    <2>1. \/ pc' = pc /\ call' = call /\ status' = status
          \/ \E op \in Ops, k \in Chunks \cup {None} : Invoke(t, op, k)
      <3>1. ASSUME NEW c \in Chunks, NEW v \in Vals, Store(t, c, v)
            PROVE  pc' = pc /\ call' = call /\ status' = status
        BY <3>1 DEF Store
      <3>2. CASE SetLimit(t)
        BY <3>2 DEF SetLimit, Ops
      <3>3. ASSUME NEW c \in Chunks,
                   \/ New(t, c) \/ Adhere(t, c) \/ Drop(t, c) \/ Delete(t, c)
                   \/ \E m \in {"R", "W"} : Pull(t, c, m)
            PROVE  \E op \in Ops : Invoke(t, op, c)
        BY <3>3 DEF New, Adhere, Drop, Delete, Pull, Ops, SpaceOps, UseOps
      <3> QED BY <1>2, <3>1, <3>2, <3>3 DEF Client
    <2>2. ASSUME NEW op \in Ops, NEW k \in Chunks \cup {None}, Invoke(t, op, k)
          PROVE  /\ status' = status /\ pc'[t] = "lock"
                 /\ \A u \in Procs : u # t => pc'[u] = pc[u] /\ call'[u] = call[u]
      BY <1>0, <2>2 DEF Invoke, Goto
    <2> QED BY <1>0, <1>1, <2>1, <2>2 DEF AioPlaces
  <1>3. ASSUME NEW p \in Procs, Lock(p)
        PROVE  NInv'
    <2>1. /\ status' = status /\ call' = call /\ pc'[p] = Entry(call[p].op) /\ pc[p] = "lock"
          /\ \A u \in Procs : u # p => pc'[u] = pc[u]
          /\ call[p].op \in Ops
      BY <1>0, <1>3 DEF Lock, Goto, Calls
    <2>2. p \in Threads => call[p].op # "arrive"
      BY <2>1 DEF SInv, IInv, ControlInv, PlaceOK
    <2>3. \A op \in Ops : /\ Entry(op) # "stuck"
                          /\ op # "arrive" => Entry(op) \notin AioPlaces \cup {"waitIn"}
      BY DEF Entry, Ops, SpaceOps, UseOps, AioPlaces
    <2> QED BY <1>0, <1>1, <2>1, <2>2, <2>3
  <1>4. CASE ArriverStart \/ ArriverDone \/ UNCHANGED vars
    <2>1. /\ status' = status /\ \A u \in Threads : pc'[u] = pc[u] /\ call'[u] = call[u]
          /\ \A q \in Procs : pc'[q] = pc[q] \/ pc'[q] # "stuck"
      BY <1>0, <1>4 DEF ArriverStart, ArriverDone, Return, Goto, Procs
    <2> QED BY <1>1, <2>1
  <1> QED BY <1>2, <1>3, <1>4

\* Nobody waits when the manager is constructed.
LEMMA FreeInit == Init => NInv
  <1> SUFFICES ASSUME Init PROVE NInv
    OBVIOUS
  <1>1. \A p \in Procs : pc[p] = "idle"
    BY DEF Init
  <1>2. \A t \in Threads : ~Busy(t)
    BY <1>1 DEF Busy, Procs
  <1> QED BY <1>1, <1>2 DEF NInv, ReadyOK, NeverStuck

\* Every step keeps everybody free.
LEMMA FreeNext ==
    ASSUME NoExactFit, SInv, BInv, NInv, [Next]_vars
    PROVE  NInv'
  <1>1. Threads \subseteq Procs
    BY DEF Procs
  <1> QED BY <1>1, InsideFree, OutsideFree DEF Next

\* No call leaves stateChangeMutex locked behind: asyncIoArrived never meets a chunk in a
\* state it does not expect, setUse never gives up on a chunk that does not come, and
\* pfmalloc finds its pages, if the page file has room for all chunks or they have one size.
THEOREM NobodyStuck ==
    ASSUME NoRace, NoExactFit
    PROVE  Spec => []NeverStuck
  <1>1. SInv /\ BInv /\ NInv /\ [Next]_vars => NInv'
    BY FreeNext
  <1>2. NInv => NeverStuck
    BY DEF NInv
  <1> QED BY FreeInit, <1>1, <1>2, SInvHolds, BInvHolds, PTL DEF Spec
=============================================================================
