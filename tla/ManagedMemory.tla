--------------------------- MODULE ManagedMemory ---------------------------
(***************************************************************************)
(* The memory manager of rambrain: managedMemory (use counts, waiting for  *)
(* space and for transfers), the victim selection it asks of the cyclic    *)
(* scheduler, and the chunk-level part of managedFileSwap, together with   *)
(* the client threads that reach them through managedPtr and adhereTo and  *)
(* the thread that collects finished transfers.                            *)
(*                                                                         *)
(* stateChangeMutex is explicit.  A call of the manager is cut into steps  *)
(* where the code branches, loops or gives the mutex away; other threads   *)
(* get in between only at the points where the code releases the mutex:    *)
(* pthread_cond_wait in waitForAIO and the timed io_getevents in           *)
(* checkForAIO.                                                            *)
(*                                                                         *)
(* Abstractions.  The position of a chunk in the scheduler's ring is left  *)
(* open: a victim selection takes any set the backward walk over some ring *)
(* order can take.  A page location is its size: the page file is the      *)
(* number of bytes that are not taken.  A chunk's content is one value.    *)
(* Preemptive swap-in is switched off (setPreemptiveLoading(false)) and    *)
(* the swap policy is fixed, as a managedSwap has it until it is told      *)
(* otherwise.                                                              *)
(***************************************************************************)
EXTENDS Integers, FiniteSets, FiniteSetsExt

CONSTANTS Threads,             \* client threads
          Arriver,             \* the thread of io_arrrive_worker
          Chunks,              \* identities of managedMemoryChunks
          Vals,                \* contents of a chunk
          None,                \* no thread, no chunk, no content
          Size,                \* bytes of a chunk, padding included
          MemMax,              \* initial memory_max
          Limits,              \* arguments of setMemoryLimit
          SwapSize,            \* bytes in the page file
          OutOfSwapIsFatal,    \* setOutOfSwapIsFatal
          PreemptiveUnloading, \* setPreemptiveUnloading
          Prefetch,            \* adhereTo is made with loadImmediately
          FreeWhileLoading     \* a chunk may be deleted while it is read in

Procs == Threads \cup {Arriver}

ASSUME ConstantsAssumption ==
    /\ IsFiniteSet(Threads) /\ IsFiniteSet(Chunks)
    /\ Arriver \notin Threads
    /\ None \notin Procs /\ None \notin Chunks /\ None \notin Vals
    /\ Size \in [Chunks -> Nat \ {0}]
    /\ MemMax \in Nat /\ SwapSize \in Nat /\ Limits \subseteq Nat
    /\ OutOfSwapIsFatal \in BOOLEAN /\ PreemptiveUnloading \in BOOLEAN
    /\ Prefetch \in BOOLEAN /\ FreeWhileLoading \in BOOLEAN

VARIABLES
    status,           \* chunk.status, "NONE" for a chunk that does not exist
    useCnt,           \* chunk.useCnt
    swapBuf,          \* whether chunk.swapBuf # NULL
    ram,              \* what chunk.locPtr points to
    disk,             \* what the page location holds
    ring,             \* chunks registered with the scheduler
    memory_used,
    memory_tobefreed,
    memory_max,
    swapUsed,         \* managedSwap::swapUsed, also memory_swapped
    reading,          \* chunks with a read in pendingAios
    writing,          \* chunks with a write in pendingAios
    mutex,            \* holder of stateChangeMutex
    aioWaiter,        \* holder of aioWaiterLock
    pc,               \* where a thread is
    call,             \* the call a thread is in
    loaded,           \* the flags of a thread's adhereTo on a chunk
    ev,               \* locals of swapOut, under stateChangeMutex
    got               \* events of io_getevents that are being processed

chunkVars  == <<status, useCnt, swapBuf, ram, disk, ring>>
memVars    == <<memory_used, memory_tobefreed, memory_max, swapUsed>>
ioVars     == <<reading, writing, aioWaiter, got>>
threadVars == <<mutex, pc, call, loaded>>
vars       == <<chunkVars, memVars, ioVars, threadVars, ev>>

Unused    == {"ALLOCATED"}
InUse     == {"INUSE_READ", "INUSE_WRITE"}
Allocated == Unused \cup InUse               \* status & MEM_ALLOCATED
Statuses  == Allocated \cup {"NONE", "SWAPPED", "SWAPIN", "SWAPOUT"}

UseOps   == {"readUse", "writeUse"}
SpaceOps == UseOps \cup {"mmalloc", "prepareUse"}
Ops      == SpaceOps \cup {"unsetUse", "mfree", "setMemoryLimit", "arrive"}

Waits    == {"space", "waitOut", "waitIn", "pffree", "return"}
Entry(op) == IF op = "mmalloc" THEN "space" ELSE IF op = "arrive" THEN "aio" ELSE op

Holding  == Waits \cup {Entry(op) : op \in Ops}
                  \cup {"evict", "unload", "evicted", "events", "stuck"}
PCs      == Holding \cup {"idle", "lock", "cond", "woken", "getevents"}

Calls    == [op: Ops, chunk: Chunks \cup {None}, ret: Waits, cleaned: BOOLEAN]
Evicts   == [min: Int, limit: Nat, real: Int, todo: SUBSET Chunks, again: SUBSET Chunks]

NewCall(op, c)   == [op |-> op, chunk |-> c, ret |-> "return", cleaned |-> FALSE]
NewEvict(n, lim) == [min |-> n, limit |-> lim, real |-> 0, todo |-> {}, again |-> {}]
NoCall           == NewCall("arrive", None)
NoEvict          == NewEvict(0, 0)

TypeOK ==
    /\ status \in [Chunks -> Statuses]
    /\ useCnt \in [Chunks -> Nat]
    /\ swapBuf \in [Chunks -> BOOLEAN]
    /\ ram \in [Chunks -> Vals \cup {None}]
    /\ disk \in [Chunks -> Vals \cup {None}]
    /\ ring \subseteq Chunks
    /\ memory_used \in Int /\ memory_tobefreed \in Int
    /\ memory_max \in Nat /\ swapUsed \in Int
    /\ reading \subseteq Chunks /\ writing \subseteq Chunks
    /\ mutex \in Procs \cup {None} /\ aioWaiter \in Procs \cup {None}
    /\ pc \in [Procs -> PCs]
    /\ call \in [Procs -> Calls]
    /\ loaded \in [Threads -> [Chunks -> SUBSET {"R", "W"}]]
    /\ ev \in Evicts
    /\ got \subseteq Chunks

Init ==
    /\ status = [c \in Chunks |-> "NONE"]
    /\ useCnt = [c \in Chunks |-> 0]
    /\ swapBuf = [c \in Chunks |-> FALSE]
    /\ ram = [c \in Chunks |-> None]
    /\ disk = [c \in Chunks |-> None]
    /\ ring = {}
    /\ memory_used = 0 /\ memory_tobefreed = 0
    /\ memory_max = MemMax /\ swapUsed = 0
    /\ reading = {} /\ writing = {}
    /\ mutex = None /\ aioWaiter = None
    /\ pc = [p \in Procs |-> "idle"]
    /\ call = [p \in Procs |-> NoCall]
    /\ loaded = [t \in Threads |-> [c \in Chunks |-> {}]]
    /\ ev = NoEvict
    /\ got = {}
-----------------------------------------------------------------------------
(* Derived quantities *)

Bytes(S)   == MapThenSumSet(LAMBDA c : Size[c], S)
memChunks  == {c \in Chunks : status[c] # "NONE"}
swapFree   == SwapSize - swapUsed

\* Mutation: the allocator trusts the counter, which calls cached copies free.
PagesFree_Counter == SwapSize - swapUsed

PagesFree  == SwapSize - Bytes({c \in Chunks : swapBuf[c]})

\* Mutation: cleanupCachedElements forgets to look at the status.
Cached_All == {c \in Chunks : swapBuf[c]}

Cached     == {c \in Chunks : status[c] \in Allocated /\ swapBuf[c]}
Resident   == {c \in Chunks : status[c] \in Allocated \cup {"SWAPIN", "SWAPOUT"}}
InFlight   == reading \cup writing

\* Mutation: what is being written counts as gone already.
Excess_Early(n) == memory_used - memory_tobefreed + n - memory_max

Excess(n)  == memory_used + n - memory_max      \* bytes missing to add n
Present(c) == status[c] \in Allocated \cup {"SWAPIN"}

AllocMax(m) == (m * 8) \div 10                  \* memory_max * swapOutFrac
KeepFree(m) == m \div 10                        \* (1. - swapInFrac) * memory_max

-----------------------------------------------------------------------------
(* Moving a thread.  The flags say which threads in cond_wait wake up.     *)

Goto(p, l) == pc' = [pc EXCEPT ![p] = l]

\* Mutation: the broadcast is forgotten.
SignalAndGoto_Lost(p, l) == Goto(p, l)

SignalAndGoto(p, l) ==      \* signalSwappingCond, then l
    pc' = [q \in Procs |-> IF q = p THEN l
                           ELSE IF pc[q] = "cond" THEN "woken" ELSE pc[q]]

Unlock == mutex' = None

Return(p) ==                \* unlock stateChangeMutex and return to the client
    /\ Goto(p, "idle") /\ Unlock
    /\ call' = [call EXCEPT ![p] = NoCall]

SignalAndReturn(p) ==
    /\ SignalAndGoto(p, "idle") /\ Unlock
    /\ call' = [call EXCEPT ![p] = NoCall]

Wait(p, l) ==               \* call waitForAIO and come back to l
    /\ Goto(p, "aio")
    /\ call' = [call EXCEPT ![p].ret = l]
    /\ UNCHANGED <<mutex, loaded>>

StartEvict(p, n, lim) ==    \* call cyclicManagedMemory::swapOut(n)
    /\ Goto(p, "evict")
    /\ ev' = NewEvict(n, lim)

-----------------------------------------------------------------------------
(* Clients: managedPtr and adhereTo *)

Invoke(t, op, c) ==
    /\ pc[t] = "idle"
    /\ Goto(t, "lock")
    /\ call' = [call EXCEPT ![t] = NewCall(op, c)]
    /\ UNCHANGED <<chunkVars, memVars, ioVars, mutex, ev>>

BusyWith(c, ops) == \E u \in Threads : pc[u] # "idle" /\ call[u].chunk = c /\ call[u].op \in ops

New(t, c) ==                \* managedPtr constructor: mmalloc
    /\ status[c] = "NONE" /\ ~BusyWith(c, {"mmalloc"})
    /\ Invoke(t, "mmalloc", c)
    /\ UNCHANGED loaded

Usable(c) == status[c] # "NONE" /\ ~BusyWith(c, {"mfree", "mmalloc"})

Adhere(t, c) ==             \* adhereTo constructor with loadImmediately
    /\ Prefetch /\ Usable(c)
    /\ Invoke(t, "prepareUse", c)
    /\ UNCHANGED loaded

Pull(t, c, m) ==            \* operator const T* ("R") and operator T* ("W")
    /\ Usable(c) /\ m \notin loaded[t][c]
    /\ Invoke(t, IF m = "W" THEN "writeUse" ELSE "readUse", c)
    /\ loaded' = [loaded EXCEPT ![t][c] = @ \cup {m}]

Drop(t, c) ==               \* adhereTo destructor
    /\ loaded[t][c] # {}
    /\ Invoke(t, "unsetUse", c)
    /\ UNCHANGED loaded

Delete(t, c) ==             \* last managedPtr destroyed; nobody uses the chunk
    /\ Usable(c)
    /\ \A u \in Threads : loaded[u][c] = {}
    /\ ~BusyWith(c, Ops)
    /\ FreeWhileLoading \/ status[c] # "SWAPIN"
    /\ Invoke(t, "mfree", c)
    /\ UNCHANGED loaded

SetLimit(t) ==
    /\ Limits # {}
    /\ Invoke(t, "setMemoryLimit", None)
    /\ UNCHANGED loaded

Store(t, c, v) ==           \* the client writes through the pointer it pulled
    /\ pc[t] = "idle" /\ "W" \in loaded[t][c] /\ ram[c] # v
    /\ ram' = [ram EXCEPT ![c] = v]
    /\ UNCHANGED <<status, useCnt, swapBuf, disk, ring, memVars, ioVars, threadVars, ev>>

Client(t) ==
    \/ SetLimit(t)
    \/ \E c \in Chunks :
          \/ New(t, c) \/ Adhere(t, c) \/ Drop(t, c) \/ Delete(t, c)
          \/ \E m \in {"R", "W"} : Pull(t, c, m)
          \/ \E v \in Vals : Store(t, c, v)

Lock(p) ==                  \* pthread_mutex_lock(&stateChangeMutex)
    /\ pc[p] = "lock" /\ mutex = None
    /\ mutex' = p
    /\ Goto(p, Entry(call[p].op))
    /\ UNCHANGED <<chunkVars, memVars, ioVars, call, loaded, ev>>
-----------------------------------------------------------------------------
(* managedFileSwap: dropping the page copies of chunks that are in memory  *)

DropCopies(D) ==
    /\ swapBuf' = [c \in Chunks |-> swapBuf[c] /\ c \notin D]
    /\ disk' = [c \in Chunks |-> IF c \in D THEN None ELSE disk[c]]

\* What cleanupCachedElements(n) may drop: memChunks is walked until n bytes are gone.
Cleanups(n) ==
    {D \in SUBSET Cached :
        \/ D = Cached /\ (n = 0 \/ Bytes(D) < n)
        \/ Bytes(D) >= n /\ \E c \in D : Bytes(D \ {c}) < n}

-----------------------------------------------------------------------------
(* cyclicManagedMemory::swapOut, called with stateChangeMutex held         *)

\* Mutation: status & MEM_ALLOCATED in place of status == MEM_ALLOCATED.
Candidates_Mask == {c \in ring : status[c] \in Allocated}

Candidates == {c \in ring : status[c] = "ALLOCATED" /\ useCnt[c] = 0}

Target(n) ==                \* mem_swap
    LET over == memory_used - AllocMax(memory_max)
        most == IF over > n THEN over ELSE n
    IN  IF most > swapFree THEN n ELSE most

\* What one backward walk over the ring may choose to unload.
Selections(n) ==
    {U \in SUBSET Candidates :
        /\ n > 0 /\ U # {} /\ Bytes(U) <= swapFree
        /\ IF Bytes(U) >= n
           THEN \E c \in U : Bytes(U \ {c}) < n
           ELSE \A c \in Candidates \ U : Bytes(U) + Size[c] > swapFree}

\* The walk takes memChunks.size() steps: when chunks that are being deleted have
\* left the ring already, it comes by some of its choice a second time.
Revisits(U, n) ==
    {A \in SUBSET U :
        /\ Cardinality(A) <= Cardinality(memChunks) - Cardinality(ring)
        /\ A # {} => Bytes(U) < n /\ Bytes(U) + Bytes(A) <= swapFree}

\* Mutation: the exception leaves stateChangeMutex locked.
Throw_Locked(t) ==
    /\ Goto(t, "idle") /\ UNCHANGED mutex
    /\ call' = [call EXCEPT ![t] = NoCall]

\* An exception leaves the manager; unwinding destroys the adhereTo that pulled.
Throw(t) ==
    /\ Unlock
    /\ IF call[t].op \in UseOps
       THEN /\ Goto(t, "lock")
            /\ call' = [call EXCEPT ![t] = NewCall("unsetUse", call[t].chunk)]
       ELSE /\ Goto(t, "idle")
            /\ call' = [call EXCEPT ![t] = NoCall]

EvictNothing(t) ==          \* counterActive == 0
    /\ pc[t] = "evict" /\ ring = {}
    /\ Throw(t)
    /\ ev' = NoEvict
    /\ UNCHANGED <<chunkVars, memVars, ioVars, loaded>>

EvictSwapFull(t) ==         \* ERR_SWAPFULL, the policy does not extend the swap
    /\ pc[t] = "evict" /\ ring # {}
    /\ ev.min <= memory_max /\ swapFree < ev.min
    /\ \E D \in Cleanups(ev.min - swapFree) : DropCopies(D)
    /\ Goto(t, "evicted")
    /\ UNCHANGED <<status, useCnt, ram, ring, memVars, ioVars, mutex, call, loaded, ev>>

EvictSelect(t) ==           \* includes ERR_MORETHANTOTALRAM and ERR_NOTENOUGHCANDIDATES
    /\ pc[t] = "evict" /\ ring # {}
    /\ ev.min > memory_max \/ swapFree >= ev.min
    /\ LET n == Target(ev.min)
           S == IF ev.min > memory_max THEN {} ELSE Selections(n)
       IN  IF S = {}
           THEN Goto(t, "evicted") /\ UNCHANGED ev
           ELSE \E U \in S : \E A \in Revisits(U, n) :
                    /\ Goto(t, "unload")
                    /\ ev' = [ev EXCEPT !.todo = U, !.again = A]
    /\ UNCHANGED <<chunkVars, memVars, ioVars, mutex, call, loaded>>

(* managedFileSwap::swapOut of one chunk of the list *)

NextVictim(t, c) ==
    /\ pc[t] = "unload"
    /\ c \in ev.todo \/ (ev.todo = {} /\ c \in ev.again)

Unloaded(c, n) ==
    ev' = [ev EXCEPT !.todo = @ \ {c}, !.real = @ + n,
                     !.again = IF c \in ev.todo THEN @ ELSE @ \ {c}]

UnloadNot(t, c) ==          \* no swap space, no page space, or on its way already
    /\ NextVictim(t, c)
    /\ LET gone == status[c] \in {"SWAPPED", "SWAPOUT"}
       IN  /\ Size[c] > swapFree \/ gone \/ (~swapBuf[c] /\ PagesFree = 0)
           /\ Unloaded(c, IF Size[c] <= swapFree /\ gone THEN Size[c] ELSE 0)
    /\ UNCHANGED <<chunkVars, memVars, ioVars, threadVars>>

UnloadCached(t, c) ==       \* the page copy is still valid
    /\ NextVictim(t, c)
    /\ status[c] \in Allocated /\ Size[c] <= swapFree /\ swapBuf[c]
    /\ status' = [status EXCEPT ![c] = "SWAPPED"]
    /\ ram' = [ram EXCEPT ![c] = None]
    /\ memory_used' = memory_used - Size[c]
    /\ swapUsed' = swapUsed + Size[c]
    /\ Unloaded(c, Size[c])
    /\ SignalAndGoto(t, "unload")
    /\ UNCHANGED <<useCnt, swapBuf, disk, ring, memory_tobefreed, memory_max, ioVars,
                   mutex, call, loaded>>

ScheduleWrite(c, D) ==
    /\ status' = [status EXCEPT ![c] = "SWAPOUT"]
    /\ swapBuf' = [d \in Chunks |-> d = c \/ (swapBuf[d] /\ d \notin D)]
    /\ disk' = [d \in Chunks |-> IF d \in D THEN None ELSE disk[d]]
    /\ swapUsed' = swapUsed + Size[c]
    /\ memory_tobefreed' = memory_tobefreed + Size[c]
    /\ writing' = writing \cup {c}
    /\ Unloaded(c, Size[c])
    /\ UNCHANGED <<useCnt, ram, ring, memory_used, memory_max, reading, aioWaiter, got,
                   threadVars>>

Missing_All(c) == Size[c]
Missing(c)     == Size[c] - PagesFree       \* what pfmalloc asks cleanupCachedElements for

UnloadWrite(t, c) ==        \* pfmalloc finds room, dropping page copies if it must
    /\ NextVictim(t, c)
    /\ status[c] \in Allocated /\ Size[c] <= swapFree /\ ~swapBuf[c] /\ PagesFree > 0
    /\ IF PagesFree >= Size[c]
       THEN ScheduleWrite(c, {})
       ELSE \E D \in Cleanups(Missing(c)) :
                IF Bytes(D) > Missing(c)
                THEN ScheduleWrite(c, D)
                ELSE \* throw "Out of swap space": nobody unlocks stateChangeMutex
                     /\ DropCopies(D)
                     /\ Goto(t, "stuck")
                     /\ UNCHANGED <<status, useCnt, ram, ring, memVars, ioVars,
                                    mutex, call, loaded, ev>>

UnloadDone(t) ==
    /\ pc[t] = "unload" /\ ev.todo = {} /\ ev.again = {}
    /\ Goto(t, "evicted")
    /\ UNCHANGED <<chunkVars, memVars, ioVars, mutex, call, loaded, ev>>

Evict(t) ==
    \/ EvictNothing(t) \/ EvictSwapFull(t) \/ EvictSelect(t) \/ UnloadDone(t)
    \/ \E c \in Chunks : UnloadNot(t, c) \/ UnloadCached(t, c) \/ UnloadWrite(t, c)

Evicted == ev.real > 0 /\ ev.real >= ev.min       \* ERR_SUCCESS
-----------------------------------------------------------------------------
(* ensureEnoughSpace, and what mmalloc and swapIn do once it returns       *)

Allocate(t, c) ==           \* the rest of mmalloc
    /\ \E v \in Vals : ram' = [ram EXCEPT ![c] = v]
    /\ status' = [status EXCEPT ![c] = "ALLOCATED"]
    /\ memory_used' = memory_used + Size[c]
    /\ ring' = ring \cup {c}
    /\ Return(t)
    /\ UNCHANGED <<useCnt, swapBuf, disk, memory_tobefreed, memory_max, swapUsed, ioVars,
                   loaded, ev>>

ScheduleRead(t, c) ==       \* managedFileSwap::swapIn
    /\ status' = [status EXCEPT ![c] = "SWAPIN"]
    /\ ram' = [ram EXCEPT ![c] = None]
    /\ memory_used' = memory_used + Size[c]
    /\ reading' = reading \cup {c}
    /\ IF call[t].op \in UseOps
       THEN Goto(t, "waitIn") /\ UNCHANGED <<mutex, call>>
       ELSE Return(t)
    /\ UNCHANGED <<useCnt, swapBuf, disk, ring, memory_tobefreed, memory_max, swapUsed,
                   writing, aioWaiter, got, loaded, ev>>

SpaceFound(t) ==
    LET c == call[t].chunk
    IN  /\ pc[t] = "space" /\ Excess(Size[c]) <= 0
        /\ call[t].op # "mmalloc" => ~Present(c)
        /\ IF call[t].op = "mmalloc" THEN Allocate(t, c)
           ELSE IF swapBuf[c] THEN ScheduleRead(t, c)
           ELSE /\ Throw(t)
                /\ UNCHANGED <<chunkVars, memVars, ioVars, loaded, ev>>

AlreadyThere(t) ==          \* somebody else has brought the chunk in meanwhile
    /\ pc[t] = "space" /\ call[t].op # "mmalloc" /\ Present(call[t].chunk)
    /\ IF call[t].op \in UseOps
       THEN Goto(t, "waitIn") /\ UNCHANGED <<mutex, call>>
       ELSE Return(t)
    /\ UNCHANGED <<chunkVars, memVars, ioVars, loaded, ev>>

SpaceMissing(t) ==
    LET c == call[t].chunk
        missing == Excess(Size[c]) - memory_tobefreed
    IN  /\ pc[t] = "space" /\ Excess(Size[c]) > 0
        /\ call[t].op # "mmalloc" => ~Present(c)
        /\ IF missing > 0
           THEN StartEvict(t, missing, 0) /\ UNCHANGED <<mutex, call, loaded>>
           ELSE Wait(t, "space") /\ UNCHANGED ev
        /\ UNCHANGED <<chunkVars, memVars, ioVars>>

AfterEvict(t) == pc[t] = "evicted" /\ call[t].op \in SpaceOps /\ ev' = NoEvict

\* Wait for a transfer unless the chunk fits now.
EvictHelped(t) ==
    /\ AfterEvict(t)
    /\ Evicted \/ memory_tobefreed # 0
    /\ IF Excess(Size[call[t].chunk]) > 0
       THEN Wait(t, "space")
       ELSE Goto(t, "space") /\ UNCHANGED <<mutex, call, loaded>>
    /\ UNCHANGED <<chunkVars, memVars, ioVars>>

EvictFailed(t) == AfterEvict(t) /\ ~Evicted /\ memory_tobefreed = 0

LastResort(t) ==            \* clean the cache and try again
    /\ EvictFailed(t) /\ ~call[t].cleaned
    /\ DropCopies(Cached)
    /\ Goto(t, "space")
    /\ call' = [call EXCEPT ![t].cleaned = TRUE]
    /\ UNCHANGED <<status, useCnt, ram, ring, memVars, ioVars, mutex, loaded>>

OutOfMemory(t) ==
    /\ EvictFailed(t) /\ call[t].cleaned /\ OutOfSwapIsFatal
    /\ Throw(t)
    /\ UNCHANGED <<chunkVars, memVars, ioVars, loaded>>

KeepTrying(t) ==
    /\ EvictFailed(t) /\ call[t].cleaned /\ ~OutOfSwapIsFatal
    /\ DropCopies(Cached)
    /\ Wait(t, "space")
    /\ UNCHANGED <<status, useCnt, ram, ring, memVars, ioVars>>

EnsureEnoughSpace(t) ==
    \/ SpaceFound(t) \/ AlreadyThere(t) \/ SpaceMissing(t)
    \/ EvictHelped(t) \/ LastResort(t) \/ OutOfMemory(t) \/ KeepTrying(t)

-----------------------------------------------------------------------------
(* prepareUse, setUse and unsetUse *)

\* Mutation: a chunk on its way out is read in again without waiting.
Await_NoWaitOut(s) == IF s = "SWAPIN" THEN "waitIn" ELSE "space"

Await(s) == IF s = "SWAPOUT" THEN "waitOut" ELSE IF s = "SWAPPED" THEN "space" ELSE "waitIn"

PrepareUse(t) ==
    LET c == call[t].chunk
    IN  /\ pc[t] = "prepareUse"
        /\ IF status[c] \in {"SWAPOUT", "SWAPPED"}
           THEN Goto(t, Await(status[c])) /\ UNCHANGED <<mutex, call>>
           ELSE Return(t)
        /\ UNCHANGED <<chunkVars, memVars, ioVars, loaded, ev>>

\* Mutation: write access without invalidateCacheFor.
Invalidated_Never(t, c) == {}

\* A writer invalidates the page copy, if there is one.
Invalidated(t, c) == IF call[t].op = "writeUse" THEN {c} ELSE {}

\* The fall-through of setUse from the label s on.
Grant(t, c, s) ==
    LET new == IF call[t].op = "writeUse" THEN "INUSE_WRITE" ELSE s
    IN  /\ status' = [status EXCEPT ![c] = new]
        /\ DropCopies(IF s = "INUSE_WRITE" THEN {} ELSE Invalidated(t, c))
        /\ Return(t)
        /\ UNCHANGED <<ram, ring, memVars, ioVars, loaded, ev>>

SetUse(t) ==
    LET c == call[t].chunk
    IN  /\ pc[t] \in UseOps
        /\ useCnt' = [useCnt EXCEPT ![c] = @ + 1]
        /\ IF status[c] \in Allocated
           THEN Grant(t, c, IF status[c] = "ALLOCATED" THEN "INUSE_READ" ELSE status[c])
           ELSE /\ Goto(t, Await(status[c]))
                /\ UNCHANGED <<status, swapBuf, ram, disk, ring, memVars, ioVars, mutex,
                               call, loaded, ev>>

WaitForSwapout(t) ==        \* called by prepareUse
    LET c == call[t].chunk
    IN  /\ pc[t] = "waitOut"
        /\ IF status[c] = "SWAPOUT" THEN Wait(t, "waitOut")
           ELSE /\ IF status[c] = "SWAPPED" THEN Goto(t, "space") /\ UNCHANGED <<mutex, call>>
                   ELSE IF call[t].op \in UseOps THEN Goto(t, "waitIn") /\ UNCHANGED <<mutex, call>>
                   ELSE Return(t)
                /\ UNCHANGED loaded
        /\ UNCHANGED <<chunkVars, memVars, ioVars, ev>>

\* A setUse that fails lets getLocPtr call waitForSwapin for ever, mutex in hand.
WaitForSwapin(t) ==         \* called by setUse
    LET c == call[t].chunk
    IN  /\ pc[t] = "waitIn"
        /\ IF status[c] \in Allocated THEN Grant(t, c, "INUSE_READ") /\ UNCHANGED useCnt
           ELSE /\ IF status[c] = "SWAPIN" THEN Wait(t, "waitIn")
                   ELSE Goto(t, "stuck") /\ UNCHANGED <<mutex, call, loaded>>
                /\ UNCHANGED <<chunkVars, memVars, ioVars, ev>>

\* Mutations: adhereTo gives back one use, or two, whatever it has taken.
Unsets_One(t, c) == 1
Unsets_Two(t, c) == 2

Unsets(t, c) == Cardinality(loaded[t][c])

UnsetUse(t) ==
    LET c == call[t].chunk
        left == useCnt[c] - Unsets(t, c)
        free == memory_max - memory_used + memory_tobefreed
        lack == KeepFree(memory_max) - free     \* free is unsigned
    IN  /\ pc[t] = "unsetUse"
        /\ useCnt' = [useCnt EXCEPT ![c] = left]
        /\ status' = [status EXCEPT ![c] = IF @ \in Allocated /\ left = 0 THEN "ALLOCATED" ELSE @]
        /\ loaded' = [loaded EXCEPT ![t][c] = {}]
        /\ IF PreemptiveUnloading /\ free >= 0 /\ lack > 0      \* untouch
           THEN StartEvict(t, lack, 0) /\ UNCHANGED <<mutex, call>>
           ELSE SignalAndReturn(t) /\ UNCHANGED ev
        /\ UNCHANGED <<swapBuf, ram, disk, ring, memVars, ioVars>>

Untouched(t) ==
    /\ pc[t] = "evicted" /\ call[t].op = "unsetUse"
    /\ SignalAndReturn(t)
    /\ ev' = NoEvict
    /\ UNCHANGED <<chunkVars, memVars, ioVars, loaded>>

-----------------------------------------------------------------------------
(* mfree and setMemoryLimit *)

\* Mutation: swapDelete gives back swap space for cached copies too.
SwapClaim_Always(c) == IF swapBuf[c] THEN Size[c] ELSE 0

SwapClaim(c) == IF status[c] = "SWAPPED" THEN Size[c] ELSE 0

Erase(t, c) ==
    /\ status' = [status EXCEPT ![c] = "NONE"]
    /\ useCnt' = [useCnt EXCEPT ![c] = 0]
    /\ ram' = [ram EXCEPT ![c] = None]
    /\ DropCopies({c})
    /\ swapUsed' = swapUsed - SwapClaim(c)
    /\ Return(t)

Mfree(t) ==                 \* schedulerDelete first, then RAM, then swapDelete
    LET c == call[t].chunk
    IN  /\ pc[t] = "mfree"
        /\ IF status[c] \in InUse
           THEN Throw(t) /\ UNCHANGED <<chunkVars, memVars>>
           ELSE /\ ring' = ring \ {c}
                /\ memory_used' = memory_used - (IF status[c] = "ALLOCATED" THEN Size[c] ELSE 0)
                /\ IF c \in InFlight
                   THEN /\ Goto(t, "pffree")
                        /\ UNCHANGED <<status, useCnt, swapBuf, ram, disk, swapUsed, mutex, call>>
                   ELSE Erase(t, c)
                /\ UNCHANGED <<memory_tobefreed, memory_max>>
        /\ UNCHANGED <<ioVars, loaded, ev>>

Pffree(t) ==                \* pages with a pending transfer are waited for
    LET c == call[t].chunk
    IN  /\ pc[t] = "pffree"
        /\ IF c \in InFlight
           THEN Wait(t, "pffree") /\ UNCHANGED <<chunkVars, memVars>>
           ELSE /\ Erase(t, c)
                /\ UNCHANGED <<ring, memory_used, memory_tobefreed, memory_max, loaded>>
        /\ UNCHANGED <<ioVars, ev>>

SetMemoryLimit(t) ==
    /\ pc[t] = "setMemoryLimit"
    /\ \E m \in Limits :
          IF m <= memory_max /\ m < memory_used
          THEN /\ StartEvict(t, memory_used - m, m)
               /\ UNCHANGED <<memory_max, mutex, call>>
          ELSE /\ memory_max' = m
               /\ Return(t) /\ UNCHANGED ev
    /\ UNCHANGED <<chunkVars, memory_used, memory_tobefreed, swapUsed, ioVars, loaded>>

\* Mutation: the result of swapOut is not looked at.
LimitReached_Ignored == ev.min > 0

LimitReached == ev.min > 0 /\ Evicted

\* The second swapOut(0) is asked for once the limit is in force; its result is ignored.
LimitEvicted(t) ==
    /\ pc[t] = "evicted" /\ call[t].op = "setMemoryLimit"
    /\ IF LimitReached
       THEN /\ memory_max' = ev.limit
            /\ StartEvict(t, 0, ev.limit)
            /\ UNCHANGED <<mutex, call>>
       ELSE Return(t) /\ ev' = NoEvict /\ UNCHANGED memory_max
    /\ UNCHANGED <<chunkVars, memory_used, memory_tobefreed, swapUsed, ioVars, loaded>>

-----------------------------------------------------------------------------
(* waitForAIO and checkForAIO *)

AioBusy(p) ==               \* another thread collects: linger around, or just go
    /\ pc[p] = "aio" /\ aioWaiter # None
    /\ IF p = Arriver
       THEN Goto(p, call[p].ret) /\ UNCHANGED mutex
       ELSE Goto(p, "cond") /\ Unlock
    /\ UNCHANGED <<chunkVars, memVars, ioVars, call, loaded, ev>>

AioNothing(p) ==            \* nothing is queued: back at once, the mutex is kept
    /\ pc[p] = "aio" /\ aioWaiter = None /\ InFlight = {}
    /\ Goto(p, call[p].ret)
    /\ UNCHANGED <<chunkVars, memVars, ioVars, mutex, call, loaded, ev>>

AioFetch(p) ==              \* io_getevents returns events at once
    /\ pc[p] = "aio" /\ aioWaiter = None
    /\ \E S \in SUBSET InFlight \ {{}} : got' = S
    /\ aioWaiter' = p
    /\ Goto(p, "events")
    /\ UNCHANGED <<chunkVars, memVars, reading, writing, mutex, call, loaded, ev>>

AioPoll(p) ==               \* nothing has arrived: wait for it without the mutex
    /\ pc[p] = "aio" /\ aioWaiter = None /\ InFlight # {}
    /\ aioWaiter' = p
    /\ Goto(p, "getevents") /\ Unlock
    /\ UNCHANGED <<chunkVars, memVars, reading, writing, got, call, loaded, ev>>

GetEvents(p) ==             \* the timed io_getevents is over, with or without events
    /\ pc[p] = "getevents" /\ mutex = None
    /\ got' \in SUBSET InFlight
    /\ mutex' = p
    /\ Goto(p, "events")
    /\ UNCHANGED <<chunkVars, memVars, reading, writing, aioWaiter, call, loaded, ev>>

ReadArrived(p, c) ==        \* completeTransactionOn, MEM_SWAPIN
    /\ status' = [status EXCEPT ![c] = IF useCnt[c] = 0 THEN "ALLOCATED" ELSE "INUSE_READ"]
    /\ ram' = [ram EXCEPT ![c] = disk[c]]
    /\ swapUsed' = swapUsed - Size[c]
    /\ reading' = reading \ {c}
    /\ SignalAndGoto(p, "events")
    /\ UNCHANGED <<disk, memory_used, memory_tobefreed, writing>>

WriteArrived(p, c) ==       \* completeTransactionOn, MEM_SWAPOUT
    /\ status' = [status EXCEPT ![c] = "SWAPPED"]
    /\ disk' = [disk EXCEPT ![c] = ram[c]]
    /\ ram' = [ram EXCEPT ![c] = None]
    /\ memory_used' = memory_used - Size[c]
    /\ memory_tobefreed' = memory_tobefreed - Size[c]
    /\ writing' = writing \ {c}
    /\ SignalAndGoto(p, "events")
    /\ UNCHANGED <<swapUsed, reading>>

Arrived(p, c) ==            \* asyncIoArrived; "AIO Synchronization broken!" otherwise
    /\ pc[p] = "events" /\ c \in got
    /\ got' = got \ {c}
    /\ IF status[c] = "SWAPIN" THEN ReadArrived(p, c)
       ELSE IF status[c] = "SWAPOUT" THEN WriteArrived(p, c)
       ELSE /\ Goto(p, "stuck")
            /\ UNCHANGED <<status, ram, disk, memory_used, memory_tobefreed, swapUsed,
                           reading, writing>>
    /\ UNCHANGED <<useCnt, swapBuf, ring, memory_max, aioWaiter, mutex, call, loaded, ev>>

\* Mutation: aioWaiterLock is not given back.
EventsDone_KeepsWaiter(p) ==
    /\ pc[p] = "events" /\ got = {}
    /\ Goto(p, call[p].ret)
    /\ UNCHANGED <<chunkVars, memVars, ioVars, mutex, call, loaded, ev>>

EventsDone(p) ==
    /\ pc[p] = "events" /\ got = {}
    /\ aioWaiter' = None
    /\ Goto(p, call[p].ret)
    /\ UNCHANGED <<chunkVars, memVars, reading, writing, got, mutex, call, loaded, ev>>

Woken(p) ==                 \* pthread_cond_wait takes the mutex again
    /\ pc[p] = "woken" /\ mutex = None
    /\ mutex' = p
    /\ Goto(p, call[p].ret)
    /\ UNCHANGED <<chunkVars, memVars, ioVars, call, loaded, ev>>

ArriverStart ==             \* io_arrrive_worker sees totalSwapActionsQueued > 0
    /\ pc[Arriver] = "idle" /\ InFlight # {}
    /\ Goto(Arriver, "lock")
    /\ UNCHANGED <<chunkVars, memVars, ioVars, mutex, call, loaded, ev>>

ArriverDone ==
    /\ pc[Arriver] = "return"
    /\ Return(Arriver)
    /\ UNCHANGED <<chunkVars, memVars, ioVars, loaded, ev>>

CheckForAIO(p) ==
    \/ AioBusy(p) \/ AioNothing(p) \/ AioFetch(p) \/ AioPoll(p) \/ GetEvents(p)
    \/ EventsDone(p) \/ Woken(p)
    \/ \E c \in Chunks : Arrived(p, c)

-----------------------------------------------------------------------------
Manager(t) ==               \* the steps a client thread takes inside the manager
    \/ Evict(t) \/ EnsureEnoughSpace(t)
    \/ PrepareUse(t) \/ SetUse(t) \/ WaitForSwapout(t) \/ WaitForSwapin(t)
    \/ UnsetUse(t) \/ Untouched(t) \/ Mfree(t) \/ Pffree(t)
    \/ SetMemoryLimit(t) \/ LimitEvicted(t)

Next ==
    \/ \E t \in Threads : Client(t) \/ Manager(t)
    \/ \E p \in Procs : Lock(p) \/ CheckForAIO(p)
    \/ ArriverStart \/ ArriverDone

Spec == Init /\ [][Next]_vars
-----------------------------------------------------------------------------
(* Properties *)

\* The modes whose pointer the client may use: pulled, not being pulled, not being dropped.
Granted(t, c) ==
    IF pc[t] = "idle" \/ call[t].chunk # c THEN loaded[t][c]
    ELSE CASE call[t].op = "readUse"  -> loaded[t][c] \ {"R"}
           [] call[t].op = "writeUse" -> loaded[t][c] \ {"W"}
           [] call[t].op = "unsetUse" -> {}
           [] OTHER                   -> loaded[t][c]

\* Uses that setUse has counted and unsetUse has not taken back.
Entering(t, c, m) ==
    /\ pc[t] \in UseOps \cup {"lock"} /\ call[t].chunk = c
    /\ call[t].op = IF m = "R" THEN "readUse" ELSE "writeUse"

Holders(c) ==
    {h \in Threads \X {"R", "W"} : h[2] \in loaded[h[1]][c] /\ ~Entering(h[1], c, h[2])}

\* The three sums checkCycle asserts: the counters of the manager agree with the states
\* of the chunks whenever nobody is between two updates.
Accounting ==
    /\ memory_used = Bytes(Resident)
    /\ memory_tobefreed = Bytes({c \in Chunks : status[c] = "SWAPOUT"})
    /\ swapUsed = Bytes({c \in Chunks : status[c] \in {"SWAPPED", "SWAPIN", "SWAPOUT"}})

\* Unless the limit is lowered, RAM in use never exceeds it.
LimitRespected == Limits = {} => memory_used <= memory_max

Fits == memory_used - memory_tobefreed <= memory_max

\* What remains once the writes under way are done fits into the limit, also into one that
\* was lowered; the one step that may break this lowers the limit while a chunk that is
\* being deleted has left the ring, because the walk may then count a victim twice.
LimitKept == [][Fits => Fits' \/ (memory_max' < memory_max /\ ring # memChunks)]_vars

\* The page file is never overcommitted, neither by its counter nor by the locations
\* given out, although cached copies occupy pages the counter calls free.
SwapBounded ==
    /\ Bytes({c \in Chunks : swapBuf[c]}) <= SwapSize
    /\ swapUsed <= SwapSize

\* A chunk waits for a transfer exactly while the transfer is pending, and never for two
\* at once on the same pages; every waiting loop rests on that.
TransferMatchesStatus ==
    /\ reading = {c \in Chunks : status[c] = "SWAPIN"}
    /\ writing = {c \in Chunks : status[c] = "SWAPOUT"}

\* A page copy kept for a chunk in memory has the chunk's content, so that unloading the
\* chunk without writing it loses nothing.
CopyCoherent == \A c \in Cached : disk[c] = ram[c] /\ ram[c] # None

\* Whoever holds a pointer holds it into loaded memory; whoever may write through it
\* writes a chunk that has no page copy.
UseProtects ==
    \A t \in Threads, c \in Chunks :
        /\ Granted(t, c) # {} => status[c] \in InUse
        /\ "W" \in Granted(t, c) => ~swapBuf[c]

\* useCnt counts the uses of all threads, also of those whose setUse is under way or has
\* ended in an exception that unwinding still has to undo.
UseCntExact == \A c \in Chunks : useCnt[c] = Cardinality(Holders(c))

\* No call leaves stateChangeMutex locked behind.
NeverStuck == \A p \in Procs : pc[p] # "stuck"

\* The content of a chunk wherever it is at the moment, and the chunks being written.
Content == [c \in Chunks |->
              IF status[c] = "NONE" THEN {}
              ELSE IF status[c] \in {"SWAPPED", "SWAPIN"} THEN {disk[c]} ELSE {ram[c]}]

Writable == {c \in Chunks : \E t \in Threads : "W" \in Granted(t, c)}

Store0 == INSTANCE ObjectStore WITH Objects <- Chunks, value <- Content, open <- Writable

\* No sequence of transfers, cache hits, invalidations and deletions changes a content:
\* between two uses for writing it is the same wherever it has been.
StoreImplemented == Store0!Spec

-----------------------------------------------------------------------------
(* Fairness: the threads run, the mutex is given to every thread that asks *)
(* for it again and again, and every transfer is reported eventually.      *)

Reported(c) == \E p \in Procs : (AioFetch(p) \/ GetEvents(p)) /\ c \in got'

Step(p) == Lock(p) \/ CheckForAIO(p) \/ (p \in Threads /\ Manager(p))

Fairness ==
    /\ \A p \in Procs : SF_vars(Step(p))
    /\ \A c \in Chunks : SF_vars(Reported(c))
    /\ WF_vars(ArriverStart) /\ WF_vars(ArriverDone)

FairSpec == Spec /\ Fairness

\* Every transfer ends, and whoever waits for one gets on.
TransfersEnd == \A c \in Chunks : (status[c] \in {"SWAPIN", "SWAPOUT"}) ~> (status[c] \notin {"SWAPIN", "SWAPOUT"})
WaitsEnd == \A t \in Threads : (pc[t] = "cond") ~> (pc[t] # "cond")

\* A call gets stateChangeMutex.
LockGranted == \A t \in Threads : (pc[t] = "lock") ~> (mutex = t)

\* Every call of a client comes back.
CallsReturn == \A t \in Threads : (pc[t] # "idle") ~> (pc[t] = "idle")
=============================================================================
