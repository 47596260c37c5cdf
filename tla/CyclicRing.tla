----------------------------- MODULE CyclicRing -----------------------------
(***************************************************************************)
(* The scheduler of rambrain, cyclicManagedMemory: all chunks are linked   *)
(* in a ring.  Read along next, the ring begins at active with the chunks  *)
(* in memory, the one touched last first, up to counterActive; then come   *)
(* chunks that are swapped out; then, from preemptiveStart until active is *)
(* reached again, chunks that were swapped in on a guess and have not been *)
(* used yet.                                                               *)
(*                                                                         *)
(* The links are modelled one by one, as the code writes them, and so are  *)
(* touch, swapOut, decay and swapIn.  They all run with stateChangeMutex   *)
(* held, so each is an operator from a state s of the manager to the next  *)
(* one; a step of the model is what a thread does until it waits for a     *)
(* transfer or returns.                                                    *)
(*                                                                         *)
(* The page file has room for everything (ConstantsAssumption); what full  *)
(* page files do is modelled in ManagedMemory and PageFile.                *)
(***************************************************************************)
EXTENDS Integers, FiniteSets, FiniteSetsExt, SequencesExt

CONSTANTS Threads,      \* client threads
          Chunks,       \* identities of managedMemoryChunks
          NULL,         \* no element
          Size,         \* bytes of a chunk
          MemMax,       \* memory_max
          SwapSize,     \* bytes in the page file
          MaxUses,      \* bound: chunks a thread has in use at once
          Modes         \* the choices of asynchronous and preemptiveSwapIn, with the bound
                        \* most: with so many chunks no other is allocated

Bytes(S) == MapThenSumSet(LAMBDA c : Size[c], S)

ASSUME ConstantsAssumption ==
    /\ IsFiniteSet(Threads) /\ IsFiniteSet(Chunks) /\ NULL \notin Chunks
    /\ MemMax \in Nat
    /\ Size \in [Chunks -> 1..MemMax]
    /\ SwapSize \in Nat /\ SwapSize >= MemMax + Bytes(Chunks)
    /\ Modes \subseteq [asynchronous : BOOLEAN, preemptiveSwapIn : BOOLEAN, most : Nat]
    /\ MaxUses \in Nat
    /\ MemMax % 5 # 0      \* the shares of memory_max, computed in floats, are not whole

VARIABLES
    sched,     \* the members of the manager and of its chunks, a record
    call,      \* the call a thread is in, with the locals of swapIn
    corners    \* history: which of CornerCases have happened

vars == <<sched, call, corners>>

(* Two steps after which the ring is no longer in the order that swapOut and swapIn count on: *)
(* "deleteSole": from a ring with others, the chunk is deleted that is both active and         *)
(*               counterActive; the two pointers move apart.                                   *)
(* "unloadAll" : with preemptiveSwapIn, swapOut unloads every chunk in memory that is no       *)
(*               guess; active is left on a guess or on a chunk that is swapped out.           *)
CornerCases == {"deleteSole", "unloadAll"}

Elements == Chunks \cup {NULL}
Statuses == {"NONE", "ALLOCATED", "INUSE", "SWAPPED", "SWAPIN", "SWAPOUT"}

Places == {"idle", "malloc", "room", "waitIn", "waitOut", "unuse", "free", "stuck"}
Idle   == [at |-> "idle", chunk |-> NULL, write |-> FALSE, need |-> 0, oldBorder |-> NULL]

TypeOK ==
    /\ sched.next \in [Chunks -> Elements] /\ sched.prev \in [Chunks -> Elements]
    /\ sched.active \in Elements /\ sched.counterActive \in Elements
    /\ sched.preemptiveStart \in Elements
    /\ sched.preemptiveBytes \in Nat
    /\ sched.consecutive \in 0..2 /\ sched.sinceLast \in 0..2
    /\ sched.status \in [Chunks -> Statuses]
    /\ sched.users \in [Chunks -> SUBSET Threads]
    /\ sched.preloaded \subseteq Chunks /\ sched.copies \subseteq Chunks
    /\ sched.unloadedAll \in BOOLEAN
    /\ [asynchronous |-> sched.asynchronous, preemptiveSwapIn |-> sched.preemptiveSwapIn,
        most |-> sched.most] \in Modes
    /\ call \in [Threads -> [at : Places, chunk : Elements, write : BOOLEAN,
                            need : Nat, oldBorder : Elements]]
    /\ corners \subseteq CornerCases

Init ==
    /\ \E m \in Modes : sched =
          [next |-> [c \in Chunks |-> NULL], prev |-> [c \in Chunks |-> NULL],
           active |-> NULL, counterActive |-> NULL, preemptiveStart |-> NULL,
           preemptiveBytes |-> 0, consecutive |-> 0, sinceLast |-> 0,
           status |-> [c \in Chunks |-> "NONE"], users |-> [c \in Chunks |-> {}],
           preloaded |-> {}, copies |-> {},
           unloadedAll |-> FALSE,                    \* history: "unloadAll" has happened
           asynchronous |-> m.asynchronous,          \* the swap: managedFileSwap or managedDummySwap
           preemptiveSwapIn |-> m.preemptiveSwapIn,  \* chunks are swapped in on a guess
           most |-> m.most]
    /\ call = [t \in Threads |-> Idle]
    /\ corners = {}
-----------------------------------------------------------------------------
(* What the manager reads off a state *)

In(s, S)     == {c \in Chunks : s.status[c] \in S}
memChunks(s) == Chunks \ In(s, {"NONE"})
Ring(s)      == {c \in Chunks : s.next[c] # NULL}
Used(s)      == Bytes(In(s, {"ALLOCATED", "INUSE", "SWAPIN", "SWAPOUT"}))
ToBeFreed(s) == Bytes(In(s, {"SWAPOUT"}))
SwapFree(s)  == SwapSize - Bytes(In(s, {"SWAPPED", "SWAPIN", "SWAPOUT"}))
Present(s, c)   == s.status[c] \in {"ALLOCATED", "INUSE", "SWAPIN"}
Candidate(s, c) == s.status[c] = "ALLOCATED" /\ s.users[c] = {}

AllocMax    == (MemMax * 8) \div 10     \* memory_max * swapOutFrac
PreloadMax  == MemMax \div 10           \* ( swapInFrac - swapOutFrac ) * memory_max
UnloadExtra == (MemMax * 2) \div 10     \* ( 1. - swapOutFrac ) * memory_max
KeepFree    == MemMax \div 10           \* ( 1. - swapInFrac ) * memory_max

Least(a, b) == IF a < b THEN a ELSE b
Cap(n)      == Least(n, 2)    \* consecutive and sinceLast: 2 and more are alike

-----------------------------------------------------------------------------
(* Links *)

\* The k elements met from e on, following f.
Walk(f, e, k) == LET w[i \in 1..k] == IF i = 1 THEN e ELSE f[w[i - 1]] IN w

Connect_OneWay(s, a, b) == [s EXCEPT !.next[a] = b]                      \* mutant

Connect(s, a, b) == [s EXCEPT !.next[a] = b, !.prev[b] = a]     \* MUTUAL_CONNECT

LinkUp(s, q) ==
    FoldLeft(LAMBDA r, i : Connect(r, q[i], q[i + 1]), s, [i \in 1..(Len(q) - 1) |-> i])

InsertBefore(s, pos, q) ==
    IF q = <<>> THEN s
    ELSE Connect(Connect(s, s.prev[pos], Head(q)), Last(q), pos)

\* How many elements are met from from on, until to is met.
Reach(f, from, to) == SelectInSeq(Walk(f, from, Cardinality(Chunks)), LAMBDA c : c = to)

Chain(s, from, to) == Walk(s.next, from, Reach(s.next, from, to))

\* Those of q with a status in S.
Those(s, q, S) == FoldLeft(LAMBDA k, c : IF s.status[c] \in S THEN Append(k, c) ELSE k, <<>>, q)

\* Takes the chunks with a status in S out of the chain q and closes the gap.
FilterChain(s, q, S) ==
    LET before    == s.prev[Head(q)]
        after     == s.next[Last(q)]
        cyclic    == after = Head(q)
        separated == Those(s, q, S)
        kept      == Those(s, q, Statuses \ S)
        linked    == LinkUp(LinkUp(s, separated), kept)
    IN  [kept |-> kept, separated |-> separated,
         s |-> IF kept # <<>> /\ cyclic THEN Connect(linked, Last(kept), Head(kept))
               ELSE IF kept # <<>> THEN Connect(Connect(linked, before, Head(kept)), Last(kept), after)
               ELSE IF ~cyclic THEN Connect(linked, before, after)
               ELSE linked]

Away == {"SWAPOUT", "SWAPPED"}
Here == {"SWAPIN", "ALLOCATED", "INUSE"}
-----------------------------------------------------------------------------
(* schedulerRegister, schedulerDelete and touch *)

SchedulerRegister(s, c) ==
    LET first  == s.active = NULL
        linked == IF first THEN Connect(s, c, c)
                  ELSE Connect(Connect(s, s.prev[s.active], c), c, s.active)
        border == IF first \/ (s.counterActive = s.active /\ s.status[s.counterActive] \in Away)
                  THEN c ELSE s.counterActive
    IN  [linked EXCEPT !.active = c, !.counterActive = border]

LeavePreemptive_Stays(s, c) == s.preemptiveStart                         \* mutant

\* The head of the preemptive section leaves it.
LeavePreemptive(s, c) ==
    IF s.preemptiveStart # c THEN s.preemptiveStart
    ELSE IF s.next[c] = s.active THEN NULL ELSE s.next[c]

SchedulerDelete(s, c) ==
    LET forget == s.status[c] \notin Away /\ c \in s.preloaded
        alone  == s.next[c] = c
        cut    == IF alone THEN s ELSE Connect(s, s.prev[c], s.next[c])
    IN  [cut EXCEPT
            !.preemptiveBytes = IF forget THEN @ - Size[c] ELSE @,
            !.preloaded = IF forget THEN @ \ {c} ELSE @,
            !.preemptiveStart = LeavePreemptive(s, c),
            !.active = IF alone THEN NULL ELSE IF @ = c THEN s.next[c] ELSE @,
            !.counterActive = IF alone THEN NULL ELSE IF @ = c THEN s.prev[c] ELSE @,
            !.next[c] = NULL, !.prev[c] = NULL]

Counted_Always(s, c) ==                                                  \* mutant
    [s EXCEPT !.preemptiveBytes = @ - Size[c], !.preloaded = @ \ {c},
              !.preemptiveStart = LeavePreemptive(s, c)]
Counted_Never(s, c) ==                                                   \* mutant
    [s EXCEPT !.preloaded = @ \ {c}, !.preemptiveStart = LeavePreemptive(s, c)]

\* A guess that was right is no guess any more.
Counted(s, c) ==
    LET guessed == c \in s.preloaded
    IN  [s EXCEPT !.consecutive = IF guessed THEN Cap(@ + 1) ELSE 0,
                  !.preemptiveBytes = IF guessed THEN @ - Size[c] ELSE @,
                  !.preloaded = @ \ {c},
                  !.preemptiveStart = LeavePreemptive(s, c)]

Touch(s, c) ==
    LET counted == Counted(s, c)
        front   == [counted EXCEPT !.active = c,
                                   !.counterActive = IF @ = c THEN s.prev[c] ELSE @]
    IN  IF s.active = c THEN counted
        ELSE IF s.prev[s.active] = c THEN front
        ELSE Connect(Connect(Connect(front, s.prev[c], s.next[c]), s.prev[s.active], c), c, s.active)

-----------------------------------------------------------------------------
(* swapOut *)

\* managedSwap::swapOut of a list: chunks with a page copy go at once.
Unload(s, V) ==
    [s EXCEPT !.status = [c \in Chunks |->
                  IF c \notin V THEN @[c]
                  ELSE IF c \in s.copies \/ ~s.asynchronous THEN "SWAPPED" ELSE "SWAPOUT"],
              !.copies = @ \cup V]

\* managedSwap::swapIn of a list: managedFileSwap keeps the page copies.
Load(s, V) ==
    [s EXCEPT !.status = [c \in Chunks |->
                  IF c \notin V THEN @[c] ELSE IF s.asynchronous THEN "SWAPIN" ELSE "ALLOCATED"],
              !.copies = IF s.asynchronous THEN @ ELSE @ \ V]

Backward_AsManyAsIdle(s) ==                                              \* mutant
    Walk(s.prev, s.counterActive, Cardinality(In(s, {"ALLOCATED"})))

\* The elements the loop of swapOut may look at.
Backward(s) == Walk(s.prev, s.counterActive, Cardinality(memChunks(s)))

\* How many bytes swapOut is after when n are asked for.
Goal(s, n) ==
    LET over == Used(s) - AllocMax
        most == IF over < n THEN n ELSE over
    IN  IF most > SwapFree(s) THEN n ELSE most

\* The backward walk from counterActive: what it takes, and how far it gets.
Victims(s, n) ==
    LET want == Goal(s, n)
        step(a, c) ==
            IF a.bytes >= want THEN a
            ELSE IF Candidate(s, c) /\ a.bytes + Size[c] <= SwapFree(s)
                 THEN [bytes |-> a.bytes + Size[c], list |-> Append(a.list, c),
                       passed |-> a.passed + 1, last |-> a.passed + 1]
                 ELSE [a EXCEPT !.passed = @ + 1]
    IN  FoldLeft(step, [bytes |-> 0, list |-> <<>>, passed |-> 0, last |-> 0], Backward(s))

\* The chunks taken that had been loaded on a guess are no guesses any more, and active
\* steps back from each that it points to.
Selected(s, list) ==
    LET lost == ToSet(list) \cap s.preloaded
    IN  [s EXCEPT !.preloaded = @ \ lost,
                  !.preemptiveBytes = @ - Bytes(lost),
                  !.unloadedAll = @ \/ (s.preemptiveSwapIn /\ In(s, Here) \ s.preloaded \subseteq ToSet(list)),
                  !.active = FoldLeft(LAMBDA a, c : IF a = c THEN s.prev[a] ELSE a, @, list)]

\* f.separated goes between f.kept and after.
Gathered(s, from, after, f) ==
    IF f.kept = <<>>
    THEN IF after # from
         THEN [InsertBefore(f.s, after, f.separated) EXCEPT !.counterActive = s.prev[from]]
         ELSE [Connect(f.s, Last(f.separated), Head(f.separated)) EXCEPT !.counterActive = s.active]
    ELSE LET r == InsertBefore(f.s, IF after # from THEN after ELSE f.s.next[Last(f.kept)], f.separated)
         IN  [r EXCEPT !.counterActive = r.prev[Head(f.separated)]]

\* The chunks that went are gathered behind counterActive.
GatherAway(s, from) ==
    Gathered(s, from, s.next[s.counterActive], FilterChain(s, Chain(s, from, s.counterActive), Away))

MoveActive_Stays(s) == s                                                 \* mutant

MoveActive(s) ==
    IF s.active \in s.preloaded THEN [s EXCEPT !.active = s.next[@]]
    ELSE IF ~Present(s, s.active) THEN [s EXCEPT !.active = s.counterActive]
    ELSE s

\* Where the chunks loaded on a guess begin, looking back from active.
FindPreemptive(s) ==
    LET w == Walk(s.prev, s.active, Cardinality(Chunks) + 1)
        k == SelectInSeq(Tail(w), LAMBDA c : c \notin s.preloaded)
    IN  IF k = 1 THEN NULL ELSE w[k]

MovePreemptive(s, gone) ==
    IF s.preemptiveStart \in gone THEN [s EXCEPT !.preemptiveStart = FindPreemptive(s)] ELSE s

SwapOutList(s, n, v) ==
    IF v.list = <<>> THEN [s |-> s, ok |-> FALSE]
    ELSE LET gone == ToSet(v.list)
             away == GatherAway(Unload(Selected(s, v.list), gone), Backward(s)[v.last])
         IN  [s |-> MovePreemptive(MoveActive(away), gone), ok |-> v.bytes >= n]

SwapOut(s, n) ==            \* cyclicManagedMemory::swapOut
    IF n > MemMax THEN [s |-> s, ok |-> FALSE] ELSE SwapOutList(s, n, Victims(s, n))

Untouch(s) ==
    LET wanted == IF s.preemptiveSwapIn THEN PreloadMax - s.preemptiveBytes ELSE 0
        lack   == wanted + KeepFree - (MemMax - Used(s) + ToBeFreed(s))
    IN  IF lack > 0 THEN SwapOut(s, lack).s ELSE s

-----------------------------------------------------------------------------
(* decay: some of the chunks loaded on a guess are given up again *)

\* The guesses it takes, from preemptiveStart on, and how far it gets.
DecayTaken(s, area, n) ==
    LET bytes == Least(SwapFree(s), Least(s.preemptiveBytes, n))
        limit == Least(s.preemptiveBytes, SwapFree(s))
        step(a, c) ==
            IF a.bytes >= bytes THEN a
            ELSE IF Size[c] + a.bytes < limit /\ Candidate(s, c)
                 THEN [a EXCEPT !.bytes = @ + Size[c], !.list = Append(@, c), !.passed = @ + 1]
                 ELSE [a EXCEPT !.passed = @ + 1, !.consecutive = FALSE]
    IN  FoldLeft(step, [bytes |-> 0, list |-> <<>>, passed |-> 0, consecutive |-> TRUE], Front(area))

StartPreemptive(s, e) == [s EXCEPT !.preemptiveStart = IF e = s.active THEN NULL ELSE e]

\* What went is put behind what is left of the guesses walked over.
DecayGathered(f, start) == StartPreemptive(InsertBefore(f.s, start, f.separated), start)

DecayFiltered(s, f) == DecayGathered(f, f.s.next[s.prev[s.preemptiveStart]])

DecayList(s, area, d) ==
    LET gone == [Unload(s, ToSet(d.list)) EXCEPT !.preloaded = @ \ ToSet(d.list),
                                                 !.preemptiveBytes = @ - d.bytes]
    IN  IF d.consecutive THEN StartPreemptive(gone, area[d.passed + 1])
        ELSE DecayFiltered(s, FilterChain(gone, SubSeq(area, 1, d.passed + 1), Away))

DecayArea(s, area, n) == DecayList(s, area, DecayTaken(s, area, n))

Decay(s, n) ==
    IF s.preemptiveStart = NULL \/ 0 \in {SwapFree(s), s.preemptiveBytes, n} THEN s
    ELSE DecayArea(s, Chain(s, s.preemptiveStart, s.active), n)

\* Guesses that were right twice in a row, or few guesses last time: decay first.
BeforeSwapIn(s) ==
    LET r == IF s.consecutive >= 2 \/ s.sinceLast <= 1
             THEN Decay(s, 2 * (PreloadMax - s.preemptiveBytes) + 1) ELSE s
    IN  [r EXCEPT !.consecutive = 0]
-----------------------------------------------------------------------------
(* ensureEnoughSpace, up to where it waits *)

Cleaned(s) == [s EXCEPT !.copies = @ \cap In(s, {"SWAPPED", "SWAPIN", "SWAPOUT"})]

\* c is the chunk to be swapped in, NULL for a new one.  A second call of swapOut finds no
\* candidate left, so failing with nothing on its way out ends in the exception.
Fits(s, n) == n + Used(s) <= MemMax

RoomAfter(n, o) ==
    IF ~o.ok /\ ToBeFreed(o.s) = 0 THEN [s |-> Cleaned(o.s), out |-> "throw"]
    ELSE [s |-> o.s, out |-> IF Fits(o.s, n) THEN "fits" ELSE "wait"]

EnsureEnoughSpace(s, n, c) ==
    LET missing == n + Used(s) - MemMax - ToBeFreed(s)
    IN  IF c # NULL /\ Present(s, c) THEN [s |-> s, out |-> "there"]
        ELSE IF Fits(s, n) THEN [s |-> s, out |-> "fits"]
        ELSE RoomAfter(n, IF missing > 0 THEN SwapOut(s, missing) ELSE [s |-> s, ok |-> TRUE])

-----------------------------------------------------------------------------
(* swapIn *)

\* The walk back from chunk c: what is read in, how far it gets, and whether it would end.
Guesses(s, c, target, oldBorder) ==
    LET way     == Walk(s.prev, c, Cardinality(Chunks) + 1)
        border  == SelectInSeq(Tail(way), LAMBDA e : e = oldBorder)
        room    == PreloadMax - s.preemptiveBytes
        step(a, e) ==
            IF a.enough THEN a
            ELSE IF s.status[e] = "SWAPPED" /\ a.bytes + Size[e] + Used(s) <= MemMax
                    /\ (a.list = <<>> \/ a.guessed + Size[e] <= room)
            THEN LET g == IF a.list = <<>> THEN 0 ELSE a.guessed + Size[e]
                     b == a.bytes + Size[e]
                 IN  [bytes |-> b, guessed |-> g, list |-> Append(a.list, e),
                      passed |-> a.passed + 1, enough |-> b >= target \/ g = room]
            ELSE [a EXCEPT !.passed = @ + 1]
        walked(q) == FoldLeft(step, [bytes |-> 0, guessed |-> 0, list |-> <<>>,
                                     passed |-> 0, enough |-> FALSE], q)
        g == walked(IF border = 0 THEN way ELSE SubSeq(way, 1, border))
    IN  [list |-> g.list, bytes |-> g.bytes, ends |-> g.enough \/ border # 0,
         way |-> Reverse(IF g.passed = 1 /\ c = oldBorder
                         THEN Walk(s.prev, c, Cardinality(Ring(s)))   \* the whole ring
                         ELSE SubSeq(way, 1, g.passed))]

\* What was read in is moved in front of active, where guesses are kept.
Reinserted(way, cyclic, f) ==
    LET first  == Head(f.separated)
        marked == [f.s EXCEPT !.preemptiveStart =
                      IF @ # NULL THEN @ ELSE IF first \in f.s.preloaded THEN first ELSE NULL]
    IN  IF ~cyclic THEN InsertBefore(marked, marked.active, f.separated)
        ELSE [IF f.kept # <<>> THEN InsertBefore(marked, Head(f.kept), f.separated)
              ELSE Connect(marked, Last(f.separated), first) EXCEPT !.counterActive = Head(way)]

Reinsert(s, c, way) ==
    LET moved == [s EXCEPT !.active = IF @ = c THEN s.next[c] ELSE @]
    IN  Reinserted(way, s.next[c] = Head(way), FilterChain(moved, way, Here))

Bordered(s) ==
    IF s.status[s.counterActive] = "SWAPPED" THEN [s EXCEPT !.counterActive = s.active] ELSE s

SwapInSingle(s, c) == Bordered(Touch(Load(s, {c}), c))

SwapInGuessing(s, c, g) ==
    LET read == [Load(s, ToSet(g.list)) EXCEPT !.preloaded = (@ \cup ToSet(g.list)) \ {c},
                                               !.preemptiveBytes = @ + g.bytes - Size[c],
                                               !.sinceLast = Cap(Len(g.list) - 1)]
    IN  Bordered(Touch(Reinsert(read, c, g.way), c))

\* s and o: the manager and the call when a place to wait at, or an exception, is reached.
At(place, s, o) == [s |-> s, o |-> [o EXCEPT !.at = place]]

SwapInList(s, o, g) ==
    IF g.ends THEN At("waitIn", SwapInGuessing(s, o.chunk, g), o) ELSE At("stuck", s, o)

SwapInFits(s, o) ==
    IF s.preemptiveSwapIn THEN SwapInList(s, o, Guesses(s, o.chunk, o.need, o.oldBorder))
    ELSE At("waitIn", SwapInSingle(s, o.chunk), o)

SwapInRoom(r, o) ==
    CASE r.out = "there" -> At("waitIn", r.s, o)
      [] r.out = "wait"  -> At("room", r.s, o)
      [] r.out = "throw" -> At("unuse", r.s, o)
      [] r.out = "fits"  -> SwapInFits(r.s, o)

\* From ensureEnoughSpace on.  o is what the call in state s has come to.
SwapInWith(s, o) == SwapInRoom(EnsureEnoughSpace(s, o.need, o.chunk), o)

\* More than the chunk alone is asked for only if swapOut makes room for it.
Freed(r, size, more) == [s |-> r.s, need |-> IF r.ok THEN more ELSE size]

Wanted(s, size) ==
    LET target == size + PreloadMax - s.preemptiveBytes
        more   == size + UnloadExtra - s.preemptiveBytes
    IN  IF ~s.preemptiveSwapIn    THEN [s |-> s, need |-> size]
        ELSE IF Fits(s, target)   THEN [s |-> s, need |-> target]
        ELSE Freed(SwapOut(s, more), size, more)

SwapInWanted(w, border, o) == SwapInWith(w.s, [o EXCEPT !.need = w.need, !.oldBorder = border])

SwapInFrom(s, o) == SwapInWanted(Wanted(s, Size[o.chunk]), s.counterActive, o)

SwapIn(s, o) == SwapInFrom(BeforeSwapIn(s), o)      \* cyclicManagedMemory::swapIn

-----------------------------------------------------------------------------
(* The calls of the manager, each up to where it waits or returns *)

\* The mutex is free: no thread goes round the ring for ever.
Running == \A t \in Threads : call[t].at # "stuck"

Becomes(t, r) == sched' = r.s /\ call' = [call EXCEPT ![t] = r.o]
Returns(t, s) == Becomes(t, [s |-> s, o |-> Idle])
Begins(at, c) == [Idle EXCEPT !.at = at, !.chunk = c]

AllocateRoom(t, c, r) ==
    CASE r.out = "fits"  -> Returns(t, Touch(SchedulerRegister([r.s EXCEPT !.status[c] = "ALLOCATED"], c), c))
      [] r.out = "wait"  -> Becomes(t, [s |-> r.s, o |-> Begins("malloc", c)])
      [] r.out = "throw" -> Returns(t, r.s)

Allocate(t, c) == AllocateRoom(t, c, EnsureEnoughSpace(sched, Size[c], NULL))

Mmalloc(t, c) ==
    /\ call[t].at = "idle" /\ sched.status[c] = "NONE" /\ Cardinality(memChunks(sched)) < sched.most
    /\ \A u \in Threads : call[u].chunk # c
    /\ Allocate(t, c)

MmallocAgain(t) == call[t].at = "malloc" /\ Allocate(t, call[t].chunk)

Grant(t, s, o) ==
    Returns(t, Touch([s EXCEPT !.status[o.chunk] = "INUSE",
                               !.copies = IF o.write THEN @ \ {o.chunk} ELSE @], o.chunk))

SetUse(t, c, write) ==
    LET s == [sched EXCEPT !.users[c] = @ \cup {t}]
        o == [Begins("waitIn", c) EXCEPT !.write = write]
    IN  /\ call[t].at = "idle" /\ c \in Ring(sched) /\ t \notin sched.users[c]
        /\ Cardinality({d \in Chunks : t \in sched.users[d]}) < MaxUses
        /\ CASE s.status[c] \in {"ALLOCATED", "INUSE"} -> Grant(t, s, o)
             [] s.status[c] = "SWAPIN"  -> Becomes(t, [s |-> s, o |-> o])
             [] s.status[c] = "SWAPOUT" -> Becomes(t, [s |-> s, o |-> [o EXCEPT !.at = "waitOut"]])
             [] s.status[c] = "SWAPPED" -> Becomes(t, SwapIn(s, o))

SwappedIn(t) ==
    /\ call[t].at = "waitIn" /\ sched.status[call[t].chunk] # "SWAPIN"
    /\ Grant(t, sched, call[t])

SwappedOut(t) ==
    /\ call[t].at = "waitOut"
    /\ IF sched.status[call[t].chunk] = "SWAPPED" THEN Becomes(t, SwapIn(sched, call[t]))
       ELSE /\ sched.status[call[t].chunk] # "SWAPOUT"
            /\ Becomes(t, [s |-> sched, o |-> [call[t] EXCEPT !.at = "waitIn"]])

RoomAgain(t) == call[t].at = "room" /\ Becomes(t, SwapInWith(sched, call[t]))

\* adhereTo gives its use back, or unwinding does.
UnsetUse(t, c) ==
    LET left == sched.users[c] \ {t}
        s    == [sched EXCEPT !.users[c] = left,
                              !.status[c] = IF @ = "INUSE" /\ left = {} THEN "ALLOCATED" ELSE @]
    IN  /\ t \in sched.users[c]
        /\ call[t].at = "idle" \/ (call[t].at = "unuse" /\ call[t].chunk = c)
        /\ Returns(t, Untouch(s))

Mfree(t, c) ==
    LET s == SchedulerDelete(sched, c)
    IN  /\ call[t].at = "idle" /\ c \in Ring(sched) /\ sched.users[c] = {}
        /\ sched.status[c] # "SWAPIN"    \* see FreeWhileLoading in ManagedMemory
        /\ IF sched.status[c] = "SWAPOUT"
           THEN Becomes(t, [s |-> s, o |-> Begins("free", c)])
           ELSE Returns(t, [s EXCEPT !.status[c] = "NONE", !.copies = @ \ {c}])

MfreeDone(t) ==
    LET c == call[t].chunk
    IN  /\ call[t].at = "free" /\ sched.status[c] = "SWAPPED"
        /\ Returns(t, [sched EXCEPT !.status[c] = "NONE", !.copies = @ \ {c}])

\* A transfer has been collected, by whichever thread.
Arrive(c) ==
    /\ \/ sched.status[c] = "SWAPIN"  /\ sched' = [sched EXCEPT !.status[c] = "ALLOCATED"]
       \/ sched.status[c] = "SWAPOUT" /\ sched' = [sched EXCEPT !.status[c] = "SWAPPED"]
    /\ UNCHANGED call

SoleDeleted ==
    /\ sched.active # NULL /\ sched.active = sched.counterActive
    /\ sched.active \notin Ring(sched') /\ Ring(sched') # {}

CornersMet ==
    {x \in CornerCases : \/ x = "deleteSole" /\ SoleDeleted
                         \/ x = "unloadAll" /\ sched'.unloadedAll}

Next ==
    /\ Running
    /\ \/ \E t \in Threads : MmallocAgain(t) \/ SwappedIn(t) \/ SwappedOut(t) \/ RoomAgain(t) \/ MfreeDone(t)
       \/ \E t \in Threads, c \in Chunks : Mmalloc(t, c) \/ UnsetUse(t, c) \/ Mfree(t, c)
       \/ \E t \in Threads, c \in Chunks, write \in BOOLEAN : SetUse(t, c, write)
       \/ \E c \in Chunks : Arrive(c)
    /\ corners' = corners \cup CornersMet

Spec == Init /\ [][Next]_vars

-----------------------------------------------------------------------------
(* Properties: what checkCycle checks, and what swapOut promises *)

\* The chunks met from active on, in the order of the ring.
InRing == IF sched.active = NULL THEN <<>>
          ELSE Walk(sched.next, sched.active, Cardinality(Ring(sched)))

\* The order of the ring can be relied on: with guesses until a corner case happens; without
\* guesses for ever.
Orderly == sched.preemptiveSwapIn => corners = {}

\* However touch, swapOut, decay and swapIn cut and rejoin the ring: links are mutual and one
\* round meets every registered chunk, the three pointers are into the ring, and a chunk
\* outside is one whose deletion still waits for its transfer.  After a corner case with guesses,
\* swapIn may leave chunks out when it rejoins the ring (see AllElementsAccessed).
RingIntact ==
    Orderly =>
    /\ ToSet(InRing) = Ring(sched)
    /\ \A c \in Ring(sched) : sched.prev[sched.next[c]] = c
    /\ sched.active = NULL <=> sched.counterActive = NULL
    /\ {sched.counterActive, sched.preemptiveStart} \subseteq Ring(sched) \cup {NULL}
    /\ \A c \in Chunks \ Ring(sched) :
          sched.status[c] # "NONE" => \E t \in Threads : call[t].at = "free" /\ call[t].chunk = c

\* What checkCycle reports as "Not all elements accessed" never is the case: a chunk that is
\* registered is met on the way round the ring.
AllElementsAccessed == ToSet(InRing) = Ring(sched)

\* counterActive is the border, as checkCycle has it ("Swapped elements in active section!"):
\* from active to it nothing is swapped out; behind it comes one stretch of swapped chunks and
\* no other.  swapIn relies on it when it walks back from a swapped chunk to the border.
\* It is promised for managedDummySwap, which transfers at once, and until a corner case
\* happens.  With a swap that writes in the background, counterActive is left on a chunk that
\* is on its way out while another one is read in.  When schedulerDelete has taken the only
\* chunk in memory, active and counterActive are the two ends of the swapped stretch; the chunk
\* allocated next comes before it, and the whole stretch is then before the border.
BorderTracked ==
    ~sched.asynchronous /\ corners = {} =>
    LET q == InRing
        b == SelectInSeq(q, LAMBDA c : c = sched.counterActive)
        is(i, S) == sched.status[q[i]] \in S
    IN  q # <<>> =>
        /\ is(1, Away) \/ \A i \in 1..b : ~is(i, Away)
        /\ \A i \in DOMAIN q, j \in DOMAIN q :
              (i > b /\ j > i /\ ~is(i, Away)) => sched.status[q[j]] # "SWAPPED"

\* The chunks loaded on a guess and not used yet are exactly those from preemptiveStart up to
\* active, so decay finds them there and nothing else: wherever they are taken out of, by use,
\* deletion, decay or swapOut, until a corner case happens.  After "deleteSole" swapIn can walk
\* round the whole ring, and guesses are left without preemptiveStart.
GuessesTogether ==
    corners = {} =>
    LET q == InRing
        p == SelectInSeq(q, LAMBDA c : c = sched.preemptiveStart)
    IN  sched.preloaded = IF p = 0 THEN {} ELSE ToSet(SubSeq(q, p, Len(q)))

\* preemptiveBytes counts them through loading, use, unloading and deletion, and they never
\* take more than their share of the memory, until a corner case happens: after it the walk of
\* swapIn can come round to chunks that are in memory.
GuessesBounded ==
    corners = {} =>
    sched.preemptiveBytes = Bytes(sched.preloaded) /\ sched.preemptiveBytes <= PreloadMax

\* An allocation fails only if unloading every chunk that nobody uses could not make room:
\* the walk of swapOut misses no candidate, wherever the ring has it.
EvictsAllItCan ==
    Orderly =>
    \A c \in In(sched, {"NONE"}) :
        EnsureEnoughSpace(sched, Size[c], NULL).out = "throw" =>
            Used(sched) - Bytes({d \in Ring(sched) : Candidate(sched, d)}) + Size[c] > MemMax
=============================================================================
