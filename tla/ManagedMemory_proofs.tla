----------------------- MODULE ManagedMemory_proofs -----------------------
(***************************************************************************)
(* Proofs about ManagedMemory, for every number of threads and chunks and  *)
(* every size.  First type correctness, and that use counts are exact;     *)
(* then its safety: a transfer is pending exactly while its chunk waits    *)
(* for it, page copies are right, and whoever holds a pointer holds it     *)
(* into loaded memory.                                                     *)
(*                                                                         *)
(* The first two hold only together.  useCnt[c] stays a natural number     *)
(* because unsetUse takes back what was counted, which is UseCntExact; it  *)
(* is exact because a call is where its operation can be and its adhereTo  *)
(* has the flag it asks for (PlaceOK, FlagOK) and because nobody has       *)
(* loaded a chunk that is being freed (FreeOK).  IInv is that conjunction. *)
(*                                                                         *)
(* The proof separates three concerns: where threads are (ControlInv), who *)
(* uses what (UsesInv), and the types of the other variables (DataTyped).  *)
(* Most steps concern the first only in one way: one thread moves within   *)
(* its call or leaves it, the others at most wake up (Moves).              *)
(*                                                                         *)
(* The safety theorems hold without loadImmediately.  With it they hold    *)
(* for one thread that does not delete what is being read in: the runs     *)
(* V_prefetch_race and V_free_while_loading show what happens otherwise.   *)
(* NoRace is that hypothesis.  The argument: who holds stateChangeMutex is *)
(* alone in the manager (MutexOK), and what a thread has seen before it    *)
(* gave the mutex away still holds of its chunk when it has the mutex      *)
(* again: because others respect its use count (WantedOK, VictimsOK), or   *)
(* because nobody else may work on a chunk that is being made or freed     *)
(* (AloneOK, FreeingOK).                                                   *)
(***************************************************************************)
EXTENDS ManagedMemory, FiniteSetTheorems, TLAPS

USE DEF vars, chunkVars, memVars, ioVars, threadVars
USE ConstantsAssumption DEF ConstantsAssumption
-----------------------------------------------------------------------------
(* The inductive invariant *)

AioPlaces   == {"aio", "cond", "woken", "getevents", "events"}
EvictPlaces == {"evict", "unload", "evicted"}

\* Where a thread is in its call, waiting for transfers left out.
Place(p) == IF pc[p] \in AioPlaces THEN call[p].ret ELSE pc[p]

\* The places a call gets to after its first.
Inside(op) ==
    CASE op = "mmalloc"        -> {"space"} \cup EvictPlaces
      [] op = "prepareUse"     -> {"waitOut", "space"} \cup EvictPlaces
      [] op \in UseOps         -> {"waitOut", "waitIn", "space"} \cup EvictPlaces
      [] op = "unsetUse"       -> EvictPlaces
      [] op = "mfree"          -> {"pffree"}
      [] op = "setMemoryLimit" -> EvictPlaces
      [] OTHER                 -> {"return"}

ThreadsTyped ==
    /\ mutex \in Procs \cup {None}
    /\ pc \in [Procs -> PCs]
    /\ call \in [Procs -> Calls]

\* A thread is where its operation can be, and works on a chunk if the operation has one.
PlaceOK ==
    /\ \A p \in Procs :
          Place(p) \in Inside(call[p].op) \cup {"idle", "lock", "stuck", call[p].op}
    /\ \A p \in Procs : call[p].op = "arrive" => call[p].ret = "return"
    /\ call[Arriver].op = "arrive"
    /\ \A t \in Threads : pc[t] # "idle" =>
          /\ call[t].op # "arrive"
          /\ call[t].op # "setMemoryLimit" => call[t].chunk \in Chunks

ControlInv == ThreadsTyped /\ PlaceOK

DataTyped ==
    /\ status \in [Chunks -> Statuses]
    /\ swapBuf \in [Chunks -> BOOLEAN]
    /\ ram \in [Chunks -> Vals \cup {None}]
    /\ disk \in [Chunks -> Vals \cup {None}]
    /\ ring \subseteq Chunks
    /\ memory_used \in Int /\ memory_tobefreed \in Int
    /\ memory_max \in Nat /\ swapUsed \in Int
    /\ reading \subseteq Chunks /\ writing \subseteq Chunks
    /\ aioWaiter \in Procs \cup {None}
    /\ ev \in Evicts
    /\ got \subseteq Chunks

UsesTyped ==
    /\ useCnt \in [Chunks -> Nat]
    /\ loaded \in [Threads -> [Chunks -> SUBSET {"R", "W"}]]

\* A use that is being made has its flag set in the adhereTo.
FlagOK ==
    \A t \in Threads : pc[t] # "idle" =>
        /\ call[t].op = "readUse" => "R" \in loaded[t][call[t].chunk]
        /\ call[t].op = "writeUse" => "W" \in loaded[t][call[t].chunk]

\* Nobody uses a chunk that is being freed.
FreeOK ==
    \A t, u \in Threads :
        pc[t] # "idle" /\ call[t].op = "mfree" => loaded[u][call[t].chunk] = {}

UsesInv == UsesTyped /\ FlagOK /\ FreeOK /\ UseCntExact

IInv == ControlInv /\ DataTyped /\ UsesInv
-----------------------------------------------------------------------------
(* Kinds of steps *)

\* p runs inside its call, returns, or leaves it by an exception; the others at most
\* wake up.
Moves(p) ==
    /\ ThreadsTyped'
    /\ \A q \in Procs : q # p =>
          /\ call'[q] = call[q]
          /\ pc'[q] = pc[q] \/ (pc[q] = "cond" /\ pc'[q] = "woken")
    /\ pc[p] # "idle"
    /\ \/ /\ (Place(p))' \in Inside(call[p].op) \cup {"stuck"}
          /\ call'[p].op = call[p].op /\ call'[p].chunk = call[p].chunk
          /\ call'[p].ret \in Inside(call[p].op) \cup {call[p].ret}
       \/ pc'[p] = "idle" /\ call'[p] = NoCall
       \/ /\ p \in Threads /\ pc'[p] = "lock" /\ call[p].op \in UseOps
          /\ call'[p] = NewCall("unsetUse", call[p].chunk)

\* What p does to the uses: nothing, or its unsetUse.
Uses(p) ==
    \/ loaded' = loaded
    \/ /\ p \in Threads /\ pc[p] = "unsetUse"
       /\ loaded' = [loaded EXCEPT ![p][call[p].chunk] = {}]

-----------------------------------------------------------------------------
(* Where threads are: every step of the manager is a move *)

\* The places of a call are places.
LEMMA InsideArePCs == \A op \in Ops : Inside(op) \subseteq PCs
  BY DEF Inside, EvictPlaces, PCs, Holding, Waits, Ops, SpaceOps, UseOps, Entry

\* The groups of places do not overlap where it matters.
LEMMA WaitsArePCs ==
    /\ Waits \cup {"idle", "lock", "stuck"} \cup EvictPlaces \cup AioPlaces \subseteq PCs
    /\ Waits \cap (AioPlaces \cup Ops \cup {"idle", "lock", "stuck"}) = {}
    /\ \A op \in Ops : Inside(op) \cap (AioPlaces \cup {"idle", "lock"} \cup UseOps) = {}
  BY DEF Inside, EvictPlaces, AioPlaces, PCs, Holding, Waits, Ops, SpaceOps, UseOps, Entry

\* A call that begins has the type of a call.
LEMMA NoCallTyped ==
    /\ \A op \in Ops, c \in Chunks \cup {None} : NewCall(op, c) \in Calls
    /\ NoCall \in Calls /\ NoCall.op = "arrive" /\ NoCall.ret = "return"
  BY DEF NoCall, NewCall, Calls, Ops, SpaceOps, UseOps, Waits

\* Going on inside the call is a move.
LEMMA GotoMoves ==
    ASSUME ControlInv, NEW p \in Procs, NEW l \in Inside(call[p].op) \cup {"stuck"},
           pc[p] # "idle", Goto(p, l), call' = call, mutex' \in Procs \cup {None}
    PROVE  Moves(p)
  BY InsideArePCs, WaitsArePCs DEF ControlInv, ThreadsTyped, Moves, Goto, Place, Calls, AioPlaces

\* Going on inside waitForAIO or checkForAIO is a move.
LEMMA AioMoves ==
    ASSUME ControlInv, NEW p \in Procs, NEW l \in AioPlaces,
           pc[p] \in AioPlaces, Goto(p, l) \/ SignalAndGoto(p, l), call' = call,
           mutex' \in Procs \cup {None}
    PROVE  Moves(p)
  BY WaitsArePCs DEF ControlInv, ThreadsTyped, PlaceOK, Moves, Goto, SignalAndGoto, Place,
        Calls, AioPlaces

\* Coming back from waitForAIO or checkForAIO is a move.
LEMMA BackMoves ==
    ASSUME ControlInv, NEW p \in Procs, 
           pc[p] \in AioPlaces, Goto(p, call[p].ret), call' = call, mutex' \in Procs \cup {None}
    PROVE  Moves(p)
  BY WaitsArePCs DEF ControlInv, ThreadsTyped, PlaceOK, Moves, Goto, Place, Calls, AioPlaces

\* Going on after signalSwappingCond is a move.
LEMMA SignalMoves ==
    ASSUME ControlInv, NEW p \in Procs, NEW l \in Inside(call[p].op) \cup {"stuck"},
           pc[p] # "idle", SignalAndGoto(p, l), call' = call, mutex' \in Procs \cup {None}
    PROVE  Moves(p)
  BY InsideArePCs, WaitsArePCs DEF ControlInv, ThreadsTyped, Moves, SignalAndGoto, Place, Calls,
        AioPlaces

\* Returning to the client is a move.
LEMMA ReturnMoves ==
    ASSUME ControlInv, NEW p \in Procs, pc[p] # "idle", Return(p) \/ SignalAndReturn(p)
    PROVE  Moves(p)
  BY WaitsArePCs, NoCallTyped DEF ControlInv, ThreadsTyped, Moves, SignalAndGoto, Return,
        SignalAndReturn, Goto, Unlock, AioPlaces

\* Calling waitForAIO is a move.
LEMMA WaitMoves ==
    ASSUME ControlInv, NEW p \in Procs, pc[p] # "idle",
           NEW l \in Waits, l \in Inside(call[p].op), Wait(p, l)
    PROVE  Moves(p)
  BY WaitsArePCs DEF ControlInv, ThreadsTyped, Moves, Wait, Goto, Place, Calls, AioPlaces

\* Leaving the manager by an exception is a move.
LEMMA ThrowMoves ==
    ASSUME ControlInv, NEW t \in Threads, pc[t] # "idle",
           call[t].op \in UseOps => call[t].chunk \in Chunks, Throw(t)
    PROVE  Moves(t)
  <1>1. t \in Procs
    BY DEF Procs
  <1>2. CASE call[t].op \in UseOps
    <2>1. NewCall("unsetUse", call[t].chunk) \in Calls
      BY <1>2, NoCallTyped DEF Ops
    <2> QED BY <1>1, <1>2, <2>1, WaitsArePCs
         DEF ControlInv, ThreadsTyped, Moves, Throw, Goto, Unlock
  <1>3. CASE call[t].op \notin UseOps
    BY <1>1, <1>3, WaitsArePCs, NoCallTyped
       DEF ControlInv, ThreadsTyped, Moves, Throw, Goto, Unlock
  <1> QED BY <1>2, <1>3

\* What a place says of the call.
LEMMA At ==
    ASSUME ControlInv, NEW t \in Threads, pc[t] \notin {"idle", "lock", "stuck"}
    PROVE  /\ t \in Procs /\ call[t].op \in Ops /\ call[t].chunk \in Chunks \cup {None}
           /\ mutex \in Procs \cup {None}
           /\ call[t].op # "setMemoryLimit" => call[t].chunk \in Chunks
           /\ pc[t] \notin AioPlaces => pc[t] \in Inside(call[t].op) \cup {call[t].op}
           /\ pc[t] \in EvictPlaces => call[t].op \in SpaceOps \cup {"unsetUse", "setMemoryLimit"}
           /\ pc[t] = "space" => call[t].op \in SpaceOps
           /\ pc[t] = "waitOut" => call[t].op \in UseOps \cup {"prepareUse"}
           /\ pc[t] = "waitIn" => call[t].op \in UseOps
           /\ pc[t] \in UseOps \cup {"prepareUse", "unsetUse", "mfree", "setMemoryLimit"}
                => call[t].op = pc[t]
           /\ pc[t] = "pffree" => call[t].op = "mfree"
  <1>1. t \in Procs /\ call[t] \in Calls
    BY DEF ControlInv, ThreadsTyped, Procs
  <1>2. Place(t) \in Inside(call[t].op) \cup {call[t].op}
    BY <1>1 DEF ControlInv, PlaceOK, Place, AioPlaces, Calls, Waits
  <1>3. pc[t] \notin AioPlaces => pc[t] \in Inside(call[t].op) \cup {call[t].op}
    BY <1>2 DEF Place
  <1>4. /\ pc[t] \in EvictPlaces => call[t].op \in SpaceOps \cup {"unsetUse", "setMemoryLimit"}
        /\ pc[t] = "space" => call[t].op \in SpaceOps
        /\ pc[t] = "waitOut" => call[t].op \in UseOps \cup {"prepareUse"}
        /\ pc[t] = "waitIn" => call[t].op \in UseOps
        /\ pc[t] = "pffree" => call[t].op = "mfree"
    BY <1>1, <1>3 DEF Inside, EvictPlaces, AioPlaces, Calls, Ops, SpaceOps, UseOps
  <1>5. pc[t] \in UseOps \cup {"prepareUse", "unsetUse", "mfree", "setMemoryLimit"}
          => call[t].op = pc[t]
    BY <1>1, <1>3 DEF Inside, EvictPlaces, AioPlaces, Calls, Ops, SpaceOps, UseOps
  <1> QED
    BY <1>1, <1>3, <1>4, <1>5 DEF ControlInv, ThreadsTyped, PlaceOK, Calls

\* Where calls can go.
LEMMA Reach ==
    /\ \A op \in SpaceOps : {"space"} \cup EvictPlaces \subseteq Inside(op)
    /\ \A op \in UseOps : {"waitOut", "waitIn"} \subseteq Inside(op)
    /\ "waitOut" \in Inside("prepareUse")
    /\ EvictPlaces \subseteq Inside("unsetUse")
    /\ EvictPlaces \subseteq Inside("setMemoryLimit")
    /\ "pffree" \in Inside("mfree")
  BY DEF Inside, EvictPlaces, SpaceOps, UseOps

\* The steps of cyclicManagedMemory::swapOut are moves.
LEMMA EvictMoves ==
    ASSUME ControlInv, NEW t \in Threads, Evict(t)
    PROVE  Moves(t)
  <1>1. CASE EvictNothing(t)
    BY <1>1, At, ThrowMoves DEF EvictNothing, UseOps, EvictPlaces
  <1>2. CASE EvictSwapFull(t)
    BY <1>2, At, Reach, GotoMoves DEF EvictSwapFull, EvictPlaces
  <1>3. CASE EvictSelect(t)
    <2>1. /\ pc[t] = "evict" /\ mutex' = mutex /\ call' = call 
          /\ Goto(t, "evicted") \/ Goto(t, "unload")
      BY <1>3 DEF EvictSelect
    <2> QED BY <2>1, At, Reach, GotoMoves DEF EvictPlaces
  <1>4. CASE UnloadDone(t)
    BY <1>4, At, Reach, GotoMoves DEF UnloadDone, EvictPlaces
  <1>5. ASSUME NEW c \in Chunks, UnloadNot(t, c)
        PROVE  Moves(t)
    <2>1. pc[t] = "unload" /\ Goto(t, "unload") /\ mutex' = mutex /\ call' = call
      BY <1>5 DEF UnloadNot, NextVictim, ControlInv, ThreadsTyped, Goto
    <2> QED BY <2>1, At, Reach, GotoMoves DEF EvictPlaces
  <1>6. ASSUME NEW c \in Chunks, UnloadCached(t, c)
        PROVE  Moves(t)
    BY <1>6, At, Reach, SignalMoves DEF UnloadCached, NextVictim, EvictPlaces
  <1>7. ASSUME NEW c \in Chunks, UnloadWrite(t, c)
        PROVE  Moves(t)
    <2>1. /\ pc[t] = "unload" /\ mutex' = mutex /\ call' = call
          /\ Goto(t, "unload") \/ Goto(t, "stuck")
      BY <1>7 DEF UnloadWrite, ScheduleWrite, NextVictim, ControlInv, ThreadsTyped, Goto
    <2> QED BY <2>1, At, Reach, GotoMoves DEF EvictPlaces
  <1> QED
    BY <1>1, <1>2, <1>3, <1>4, <1>5, <1>6, <1>7 DEF Evict

\* The steps of ensureEnoughSpace and of its callers are moves.
LEMMA SpaceMoves ==
    ASSUME ControlInv, NEW t \in Threads, EnsureEnoughSpace(t)
    PROVE  Moves(t)
  <1>1. CASE SpaceFound(t)
    <2>1. /\ pc[t] = "space"
          /\ \/ Return(t)
             \/ Throw(t)
             \/ call[t].op \in UseOps /\ Goto(t, "waitIn") /\ mutex' = mutex /\ call' = call
      BY <1>1 DEF SpaceFound, Allocate, ScheduleRead
    <2> QED BY <2>1, At, Reach, GotoMoves, ReturnMoves, ThrowMoves DEF UseOps
  <1>2. CASE AlreadyThere(t)
    BY <1>2, At, Reach, GotoMoves, ReturnMoves DEF AlreadyThere
  <1>3. CASE SpaceMissing(t)
    <2>1. /\ pc[t] = "space"
          /\ \/ Goto(t, "evict") /\ mutex' = mutex /\ call' = call
             \/ Wait(t, "space")
      BY <1>3 DEF SpaceMissing, StartEvict
    <2> QED BY <2>1, At, Reach, GotoMoves, WaitMoves DEF EvictPlaces, Waits
  <1>4. ASSUME AfterEvict(t)
        PROVE  pc[t] = "evicted" /\ call[t].op \in SpaceOps /\ call[t].chunk \in Chunks
    BY <1>4, At DEF AfterEvict, SpaceOps, UseOps, EvictPlaces
  <1>5. CASE EvictHelped(t)
    BY <1>4, <1>5, At, Reach, GotoMoves, WaitMoves DEF EvictHelped, Waits
  <1>6. CASE LastResort(t)
    <2>1. /\ pc[t] = "evicted" /\ "space" \in Inside(call[t].op) /\ t \in Procs
          /\ Goto(t, "space") /\ mutex' = mutex
      BY <1>4, <1>6, At, Reach DEF LastResort, EvictFailed
    <2>2. /\ call' \in [Procs -> Calls]
          /\ call'[t].op = call[t].op /\ call'[t].chunk = call[t].chunk
          /\ call'[t].ret = call[t].ret
          /\ \A q \in Procs : q # t => call'[q] = call[q]
      BY <1>6, <2>1 DEF LastResort, ControlInv, ThreadsTyped, Calls
    <2> QED
      BY <2>1, <2>2, WaitsArePCs DEF Goto, Moves, ControlInv, ThreadsTyped, Place, AioPlaces,
            Waits
  <1>7. CASE OutOfMemory(t)
    BY <1>4, <1>7, ThrowMoves DEF OutOfMemory, EvictFailed
  <1>8. CASE KeepTrying(t)
    BY <1>4, <1>8, At, Reach, WaitMoves DEF KeepTrying, EvictFailed, Waits
  <1> QED
    BY <1>1, <1>2, <1>3, <1>5, <1>6, <1>7, <1>8 DEF EnsureEnoughSpace

\* The steps of the other operations are moves.
LEMMA CallMoves ==
    ASSUME ControlInv, NEW t \in Threads,
           \/ PrepareUse(t) \/ SetUse(t) \/ WaitForSwapout(t) \/ WaitForSwapin(t)
           \/ UnsetUse(t) \/ Untouched(t) \/ Mfree(t) \/ Pffree(t)
           \/ SetMemoryLimit(t) \/ LimitEvicted(t)
    PROVE  Moves(t)
  <1>1. CASE PrepareUse(t)
    <2>1. /\ pc[t] = "prepareUse"
          /\ \/ Return(t)
             \/ /\ Goto(t, "waitOut") \/ Goto(t, "space")
                /\ mutex' = mutex /\ call' = call
      BY <1>1 DEF PrepareUse, Await
    <2> QED BY <2>1, At, Reach, GotoMoves, ReturnMoves DEF SpaceOps
  <1>2. CASE SetUse(t)
    <2>1. /\ pc[t] \in UseOps
          /\ \/ Return(t)
             \/ /\ Goto(t, "waitOut") \/ Goto(t, "space") \/ Goto(t, "waitIn")
                /\ mutex' = mutex /\ call' = call
      BY <1>2 DEF SetUse, Grant, Await
    <2> QED BY <2>1, At, Reach, GotoMoves, ReturnMoves DEF SpaceOps, UseOps
  <1>3. CASE WaitForSwapout(t)
    <2>1. /\ pc[t] = "waitOut"
          /\ \/ Return(t)
             \/ Wait(t, "waitOut")
             \/ Goto(t, "space") /\ mutex' = mutex /\ call' = call
             \/ call[t].op \in UseOps /\ Goto(t, "waitIn") /\ mutex' = mutex /\ call' = call
      BY <1>3 DEF WaitForSwapout
    <2> QED BY <2>1, At, Reach, GotoMoves, ReturnMoves, WaitMoves DEF SpaceOps, Waits
  <1>4. CASE WaitForSwapin(t)
    <2>1. /\ pc[t] = "waitIn"
          /\ \/ Return(t)
             \/ Wait(t, "waitIn")
             \/ Goto(t, "stuck") /\ mutex' = mutex /\ call' = call
      BY <1>4 DEF WaitForSwapin, Grant
    <2> QED BY <2>1, At, Reach, GotoMoves, ReturnMoves, WaitMoves DEF Waits
  <1>5. CASE UnsetUse(t)
    <2>1. /\ pc[t] = "unsetUse"
          /\ \/ SignalAndReturn(t)
             \/ Goto(t, "evict") /\ mutex' = mutex /\ call' = call
      BY <1>5 DEF UnsetUse, StartEvict
    <2> QED BY <2>1, At, Reach, GotoMoves, ReturnMoves DEF EvictPlaces
  <1>6. CASE Untouched(t)
    BY <1>6, At, ReturnMoves DEF Untouched
  <1>7. CASE Mfree(t)
    <2>1. /\ pc[t] = "mfree"
          /\ \/ Return(t)
             \/ Throw(t)
             \/ Goto(t, "pffree") /\ mutex' = mutex /\ call' = call
      BY <1>7 DEF Mfree, Erase
    <2> QED BY <2>1, At, Reach, GotoMoves, ReturnMoves, ThrowMoves DEF UseOps
  <1>8. CASE Pffree(t)
    <2>1. /\ pc[t] = "pffree"
          /\ Return(t) \/ Wait(t, "pffree")
      BY <1>8 DEF Pffree, Erase
    <2> QED BY <2>1, At, Reach, ReturnMoves, WaitMoves DEF Waits
  <1>9. CASE SetMemoryLimit(t)
    <2>1. /\ pc[t] = "setMemoryLimit"
          /\ \/ Return(t)
             \/ Goto(t, "evict") /\ mutex' = mutex /\ call' = call
      BY <1>9 DEF SetMemoryLimit, StartEvict
    <2> QED BY <2>1, At, Reach, GotoMoves, ReturnMoves DEF EvictPlaces
  <1>10. CASE LimitEvicted(t)
    <2>1. /\ pc[t] = "evicted" /\ call[t].op = "setMemoryLimit"
          /\ \/ Return(t)
             \/ Goto(t, "evict") /\ mutex' = mutex /\ call' = call
      BY <1>10 DEF LimitEvicted, StartEvict
    <2> QED BY <2>1, At, Reach, GotoMoves, ReturnMoves DEF EvictPlaces
  <1> QED
    BY <1>1, <1>2, <1>3, <1>4, <1>5, <1>6, <1>7, <1>8, <1>9, <1>10

\* The steps of waitForAIO and checkForAIO are moves.
LEMMA AioStepMoves ==
    ASSUME ControlInv, NEW p \in Procs, CheckForAIO(p)
    PROVE  Moves(p)
  <1> USE DEF AioPlaces
  <1>0. mutex \in Procs \cup {None}
    BY DEF ControlInv, ThreadsTyped
  <1>1. CASE AioBusy(p)
    BY <1>0, <1>1, AioMoves, BackMoves DEF AioBusy, Unlock
  <1>2. CASE AioNothing(p)
    BY <1>0, <1>2, BackMoves DEF AioNothing
  <1>3. CASE AioFetch(p)
    BY <1>0, <1>3, AioMoves DEF AioFetch
  <1>4. CASE AioPoll(p)
    BY <1>0, <1>4, AioMoves DEF AioPoll, Unlock
  <1>5. CASE GetEvents(p)
    BY <1>5, AioMoves DEF GetEvents
  <1>6. CASE EventsDone(p)
    BY <1>0, <1>6, BackMoves DEF EventsDone
  <1>7. CASE Woken(p)
    BY <1>7, BackMoves DEF Woken
  <1>8. ASSUME NEW c \in Chunks, Arrived(p, c)
        PROVE  Moves(p)
    <2>1. /\ pc[p] = "events" /\ mutex' = mutex /\ call' = call
          /\ SignalAndGoto(p, "events") \/ Goto(p, "stuck")
      BY <1>8 DEF Arrived, ReadArrived, WriteArrived
    <2> QED BY <1>0, <2>1, AioMoves, GotoMoves
  <1> QED
    BY <1>1, <1>2, <1>3, <1>4, <1>5, <1>6, <1>7, <1>8 DEF CheckForAIO
-----------------------------------------------------------------------------
(* Who uses what: flags and counts *)

\* A move keeps every thread where its operation can be.
LEMMA MovesPlace ==
    ASSUME ControlInv, NEW p \in Procs, Moves(p)
    PROVE  ControlInv'
  <1>1. ThreadsTyped'
    BY DEF Moves
  <1>2. ASSUME NEW q \in Procs
        PROVE  (Place(q))' \in Inside(call'[q].op) \cup {"idle", "lock", "stuck", call'[q].op}
    <2>1. CASE q # p
      BY <2>1 DEF Moves, ControlInv, PlaceOK, Place, AioPlaces
    <2>2. CASE q = p
      BY <2>2 DEF Moves, Place, AioPlaces
    <2> QED BY <2>1, <2>2
  <1>3. call'[Arriver].op = "arrive"
    BY NoCallTyped DEF Moves, Procs, ControlInv, PlaceOK
  <1>4. ASSUME NEW t \in Threads, pc'[t] # "idle"
        PROVE  /\ call'[t].op # "arrive"
               /\ call'[t].op # "setMemoryLimit" => call'[t].chunk \in Chunks
    <2>1. t \in Procs
      BY DEF Procs
    <2>2. CASE t # p
      BY <1>4, <2>1, <2>2 DEF Moves, ControlInv, PlaceOK
    <2>3. CASE t = p
      BY <1>4, <2>1, <2>3 DEF Moves, ControlInv, PlaceOK, NewCall, UseOps
    <2> QED BY <2>2, <2>3
  <1>5. ASSUME NEW q \in Procs, call'[q].op = "arrive"
        PROVE  call'[q].ret = "return"
    BY <1>5, NoCallTyped DEF Moves, ControlInv, PlaceOK, NewCall, Inside, UseOps
  <1> QED
    BY <1>1, <1>2, <1>3, <1>4, <1>5 DEF ControlInv, PlaceOK

\* A move that adds no use keeps the flags right.
LEMMA MovesFlags ==
    ASSUME ControlInv, UsesTyped, FlagOK, FreeOK, NEW p \in Procs, Moves(p), Uses(p)
    PROVE  FlagOK' /\ FreeOK'
  <1>1. ASSUME NEW t \in Threads, pc'[t] # "idle"
        PROVE  /\ pc[t] # "idle"
               /\ \/ call'[t].op = call[t].op /\ call'[t].chunk = call[t].chunk
                  \/ call'[t].op = "unsetUse"
    BY <1>1 DEF Moves, Procs, NewCall
  <1>2. \A u \in Threads, c \in Chunks : loaded'[u][c] \subseteq loaded[u][c]
    BY DEF Uses, UsesTyped
  <1>3. ASSUME NEW t \in Threads, pc'[t] # "idle", call'[t].op \in UseOps
        PROVE  loaded'[t] = loaded[t] /\ call[t].chunk \in Chunks
    <2>1. call[t].op \in UseOps
      BY <1>1, <1>3 DEF UseOps
    <2>2. pc[t] # "unsetUse"
      BY <1>1, <1>3, <2>1, At DEF UseOps
    <2> QED BY <1>1, <1>3, <2>1, <2>2 DEF Uses, UsesTyped, ControlInv, PlaceOK, UseOps
  <1>4. FlagOK'
    BY <1>1, <1>3 DEF FlagOK, UseOps
  <1>5. FreeOK'
    <2>1. ASSUME NEW t \in Threads, NEW u \in Threads, pc'[t] # "idle", call'[t].op = "mfree"
          PROVE  loaded'[u][call'[t].chunk] = {}
      <3>1. /\ pc[t] # "idle" /\ call[t].op = "mfree" /\ call'[t].chunk = call[t].chunk
        BY <1>1, <2>1
      <3>2. call[t].chunk \in Chunks /\ loaded[u][call[t].chunk] = {}
        BY <3>1 DEF FreeOK, ControlInv, PlaceOK
      <3> QED BY <1>2, <3>1, <3>2
    <2> QED BY <2>1 DEF FreeOK
  <1> QED BY <1>4, <1>5

\* The uses of a chunk can be counted.
LEMMA HoldersFinite ==
    ASSUME NEW c \in Chunks
    PROVE  /\ IsFiniteSet(Holders(c)) /\ Cardinality(Holders(c)) \in Nat
           /\ IsFiniteSet(Holders(c)') /\ Cardinality(Holders(c)') \in Nat
  <1>1. IsFiniteSet({"R", "W"})
    BY FS_Singleton, FS_AddElement, IsFiniteSet({"R"} \cup {"W"})
  <1>2. IsFiniteSet(Threads \X {"R", "W"})
    BY <1>1, FS_Product
  <1>3. /\ Holders(c) \in SUBSET (Threads \X {"R", "W"})
        /\ Holders(c)' \in SUBSET (Threads \X {"R", "W"})
    BY DEF Holders
  <1> QED BY <1>2, <1>3, FS_Subset, FS_CardinalityType

\* A step in which nobody begins, enters or ends a use.
LEMMA CountKept ==
    ASSUME ControlInv, UsesTyped, UseCntExact, NEW p \in Procs, Moves(p),
           useCnt' = useCnt, loaded' = loaded,
           pc[p] \notin UseOps \cup {"lock"}
    PROVE  UsesTyped' /\ UseCntExact'
  <1>1. ASSUME NEW t \in Threads, NEW c \in Chunks, NEW m \in {"R", "W"}
        PROVE  Entering(t, c, m)' <=> Entering(t, c, m)
    <2>1. t \in Procs
      BY DEF Procs
    <2>2. CASE t # p
      BY <2>1, <2>2 DEF Moves, Entering, UseOps
    <2>3. CASE t = p
      <3>1. ~Entering(t, c, m)
        BY <2>3 DEF Entering
      <3>2. pc'[t] \notin UseOps \cup {"lock"} \/ call'[t].op \notin UseOps
        BY <2>1, <2>3, WaitsArePCs DEF Moves, NewCall, UseOps, ControlInv, ThreadsTyped, Calls,
              Place, AioPlaces, NoCall
      <3>3. ~Entering(t, c, m)'
        BY <2>3, <3>2 DEF Entering, UseOps
      <3> QED BY <3>1, <3>3
    <2> QED BY <2>2, <2>3
  <1>2. ASSUME NEW c \in Chunks
        PROVE  Holders(c)' = Holders(c)
    <2>1. \A h \in Threads \X {"R", "W"} :
              Entering(h[1], c, h[2])' <=> Entering(h[1], c, h[2])
      BY <1>1
    <2> QED BY <2>1 DEF Holders
  <1> QED BY <1>2 DEF UseCntExact, UsesTyped

\* The manager's steps that leave every use alone.
LEMMA QuietSteps ==
    ASSUME ControlInv, UsesTyped, UseCntExact, NEW t \in Threads,
           \/ Evict(t) \/ EnsureEnoughSpace(t) \/ PrepareUse(t)
           \/ WaitForSwapout(t) \/ WaitForSwapin(t) \/ Untouched(t)
           \/ SetMemoryLimit(t) \/ LimitEvicted(t)
    PROVE  UsesTyped' /\ UseCntExact' /\ loaded' = loaded
  <1>1. CASE Evict(t)
    <2>1. useCnt' = useCnt /\ loaded' = loaded /\ pc[t] \in EvictPlaces
      BY <1>1 DEF Evict, EvictNothing, EvictSwapFull, EvictSelect, UnloadDone, UnloadNot,
            UnloadCached, UnloadWrite, ScheduleWrite, NextVictim, EvictPlaces
    <2> QED BY <1>1, <2>1, EvictMoves, CountKept DEF Procs, EvictPlaces, UseOps
  <1>2. CASE EnsureEnoughSpace(t)
    <2>1. useCnt' = useCnt /\ loaded' = loaded /\ pc[t] \in {"space", "evicted"}
      BY <1>2 DEF EnsureEnoughSpace, SpaceFound, Allocate, ScheduleRead, AlreadyThere,
            SpaceMissing, Wait,
         EvictHelped, LastResort, OutOfMemory, KeepTrying, EvictFailed, AfterEvict
    <2> QED BY <1>2, <2>1, SpaceMoves, CountKept DEF Procs, UseOps
  <1>3. ASSUME PrepareUse(t) \/ WaitForSwapout(t) \/ WaitForSwapin(t) \/ Untouched(t)
               \/ SetMemoryLimit(t) \/ LimitEvicted(t)
        PROVE  UsesTyped' /\ UseCntExact' /\ loaded' = loaded
    <2>1. /\ useCnt' = useCnt /\ loaded' = loaded
          /\ pc[t] \in {"prepareUse", "waitOut", "waitIn", "evicted", "setMemoryLimit"}
      BY <1>3 DEF PrepareUse, WaitForSwapout, WaitForSwapin, Grant, Wait, Untouched,
            SetMemoryLimit, LimitEvicted
    <2> QED BY <1>3, <2>1, CallMoves, CountKept DEF Procs, UseOps
  <1> QED BY <1>1, <1>2, <1>3

\* Collecting transfers leaves every use alone.
LEMMA AioCount ==
    ASSUME ControlInv, UsesTyped, UseCntExact, NEW p \in Procs, CheckForAIO(p)
    PROVE  UsesTyped' /\ UseCntExact' /\ loaded' = loaded
  <1>1. useCnt' = useCnt /\ loaded' = loaded /\ pc[p] \in AioPlaces
    BY DEF CheckForAIO, AioBusy, AioNothing, AioFetch, AioPoll, GetEvents, EventsDone, Woken,
          Arrived, AioPlaces
  <1> QED BY <1>1, AioStepMoves, CountKept DEF AioPlaces, UseOps

\* setUse enters the use its thread has set the flag for.
LEMMA SetUseCount ==
    ASSUME ControlInv, UsesTyped, FlagOK, UseCntExact, NEW t \in Threads, SetUse(t)
    PROVE  UsesTyped' /\ UseCntExact' /\ loaded' = loaded
  <1>0. PICK c \in Chunks : c = call[t].chunk
    BY At DEF SetUse, UseOps
  <1>m. PICK m \in {"R", "W"} : m = IF call[t].op = "writeUse" THEN "W" ELSE "R"
    OBVIOUS
  <1>1. /\ pc[t] \in UseOps /\ call[t].op = pc[t] /\ t \in Procs
        /\ m \in loaded[t][c]
    BY <1>0, <1>m, At DEF SetUse, UseOps, FlagOK
  <1>2. /\ useCnt' = [useCnt EXCEPT ![c] = @ + 1] /\ loaded' = loaded
        /\ Moves(t)
    BY <1>0, <1>1, CallMoves DEF SetUse, Grant
  <1>3. ASSUME NEW u \in Threads, NEW d \in Chunks, NEW k \in {"R", "W"}
        PROVE  Entering(u, d, k)' <=> Entering(u, d, k) /\ <<u, d, k>> # <<t, c, m>>
    <2>1. u \in Procs
      BY DEF Procs
    <2>2. CASE u # t
      BY <2>1, <2>2, <1>2 DEF Moves, Entering, UseOps
    <2>3. CASE u = t
      <3>1. pc'[t] \notin UseOps \cup {"lock"} \/ call'[t].op \notin UseOps
        BY <1>1, <1>2, WaitsArePCs DEF Moves, NewCall, UseOps, ControlInv, ThreadsTyped, Calls,
              Place, AioPlaces, NoCall
      <3>2. ~Entering(u, d, k)'
        BY <2>3, <3>1 DEF Entering, UseOps
      <3>3. Entering(u, d, k) => d = c /\ k = m
        BY <1>0, <1>m, <1>1, <2>3 DEF Entering, UseOps
      <3> QED BY <2>3, <3>2, <3>3
    <2> QED BY <2>2, <2>3
  <1>4. Entering(t, c, m)
    BY <1>0, <1>m, <1>1 DEF Entering, UseOps
  <1>5. Holders(c)' = Holders(c) \cup {<<t, m>>} /\ <<t, m>> \notin Holders(c)
    <2>1. ASSUME NEW h \in Threads \X {"R", "W"}
          PROVE  Entering(h[1], c, h[2])' <=> Entering(h[1], c, h[2]) /\ h # <<t, m>>
      <3>1. h[1] \in Threads /\ h[2] \in {"R", "W"} /\ h = <<h[1], h[2]>>
        OBVIOUS
      <3> QED BY <1>1, <1>3, <3>1
    <2>2. <<t, m>> \in Threads \X {"R", "W"} /\ <<t, m>>[1] = t /\ <<t, m>>[2] = m
      BY <1>1
    <2> QED BY <1>1, <1>2, <1>4, <2>1, <2>2 DEF Holders
  <1>6. \A d \in Chunks : d # c => Holders(d)' = Holders(d)
    <2>1. ASSUME NEW d \in Chunks, d # c
          PROVE  \A h \in Threads \X {"R", "W"} :
                     Entering(h[1], d, h[2])' <=> Entering(h[1], d, h[2])
      BY <1>3, <2>1
    <2> QED BY <1>2, <2>1 DEF Holders
  <1>7. Cardinality(Holders(c)') = Cardinality(Holders(c)) + 1
    BY <1>1, <1>5, HoldersFinite, FS_AddElement
  <1>8. \A d \in Chunks : useCnt'[d] = Cardinality(Holders(d)') /\ useCnt'[d] \in Nat
    <2> QED BY <1>1, <1>2, <1>6, <1>7, HoldersFinite DEF UsesTyped, UseCntExact
  <1>9. UsesTyped'
    BY <1>1, <1>2, <1>8 DEF UsesTyped
  <1> QED
    BY <1>2, <1>8, <1>9 DEF UseCntExact

\* unsetUse takes back exactly what the adhereTo has counted.
LEMMA UnsetUseCount ==
    ASSUME ControlInv, UsesTyped, UseCntExact, NEW t \in Threads, UnsetUse(t)
    PROVE  UsesTyped' /\ UseCntExact' /\ Uses(t)
  <1>0. PICK c \in Chunks : c = call[t].chunk
    BY At DEF UnsetUse, UseOps
  <1> DEFINE Given == {t} \X loaded[t][c]
  <1>1. pc[t] = "unsetUse" /\ t \in Procs /\ call[t].op = "unsetUse"
    BY At DEF UnsetUse, UseOps
  <1>2. /\ useCnt' = [useCnt EXCEPT ![c] = @ - Cardinality(loaded[t][c])]
        /\ loaded' = [loaded EXCEPT ![t][c] = {}]
        /\ Moves(t)
    BY <1>0, <1>1, CallMoves DEF UnsetUse, Unsets
  <1>3. ASSUME NEW u \in Threads, NEW d \in Chunks, NEW k \in {"R", "W"}
        PROVE  /\ Entering(u, d, k)' <=> Entering(u, d, k)
               /\ u = t => ~Entering(u, d, k)
    <2>1. u \in Procs
      BY DEF Procs
    <2>2. CASE u # t
      BY <2>1, <2>2, <1>2 DEF Moves, Entering, UseOps
    <2>3. CASE u = t
      <3>1. pc'[t] \notin UseOps \cup {"lock"} \/ call'[t].op \notin UseOps
        BY <1>1, <1>2, WaitsArePCs DEF Moves, NewCall, UseOps, ControlInv, ThreadsTyped, Calls,
              Place, AioPlaces, NoCall
      <3> QED BY <1>1, <2>3, <3>1 DEF Entering, UseOps
    <2> QED BY <2>2, <2>3
  <1>4. Given \subseteq Holders(c) /\ Holders(c)' = Holders(c) \ Given
    <2>1. ASSUME NEW h \in Threads \X {"R", "W"}
          PROVE  /\ h[1] \in Threads /\ h[2] \in {"R", "W"} /\ h = <<h[1], h[2]>>
                 /\ Entering(h[1], c, h[2])' <=> Entering(h[1], c, h[2])
                 /\ h[1] = t => ~Entering(h[1], c, h[2])
      <3>1. h[1] \in Threads /\ h[2] \in {"R", "W"} /\ h = <<h[1], h[2]>>
        OBVIOUS
      <3> QED BY <1>1, <1>3, <3>1
    <2>2. /\ loaded'[t][c] = {} 
          /\ \A u \in Threads : u # t => loaded'[u][c] = loaded[u][c]
          /\ loaded[t][c] \subseteq {"R", "W"}
      BY <1>1, <1>2 DEF UsesTyped
    <2>3. ASSUME NEW h \in Threads \X {"R", "W"}
          PROVE  h \in Given <=> h[1] = t /\ h[2] \in loaded[t][c]
      BY <2>1
    <2>4. Given \subseteq Threads \X {"R", "W"}
      BY <2>2
    <2> HIDE DEF Given
    <2> QED BY <2>1, <2>2, <2>3, <2>4 DEF Holders
  <1>5. \A d \in Chunks : d # c => Holders(d)' = Holders(d)
    <2>1. ASSUME NEW d \in Chunks, d # c
          PROVE  /\ \A h \in Threads \X {"R", "W"} :
                     Entering(h[1], d, h[2])' <=> Entering(h[1], d, h[2])
                 /\ \A u \in Threads : loaded'[u][d] = loaded[u][d]
      BY <1>1, <1>2, <1>3, <2>1 DEF UsesTyped
    <2> QED BY <2>1 DEF Holders
  <1>6. IsFiniteSet(loaded[t][c])
    BY <1>1, FS_Singleton, FS_AddElement, FS_Subset, IsFiniteSet({"R"} \cup {"W"}) DEF UsesTyped
  <1>7. Cardinality(Given) = Cardinality(loaded[t][c])
    <2>1. IsFiniteSet({t}) /\ Cardinality({t}) = 1 /\ Cardinality(loaded[t][c]) \in Nat
      BY <1>6, FS_Singleton, FS_CardinalityType
    <2>2. Cardinality(Given) = Cardinality({t}) * Cardinality(loaded[t][c])
      BY <1>6, <2>1, FS_Product
    <2> QED BY <2>1, <2>2
  <1>8. Cardinality(Holders(c)') = Cardinality(Holders(c)) - Cardinality(loaded[t][c])
    <2>1. Holders(c) \cap Given = Given /\ IsFiniteSet(Holders(c))
      BY <1>1, <1>4, HoldersFinite
    <2> HIDE DEF Given
    <2>2. Cardinality(Holders(c) \ Given)
            = Cardinality(Holders(c)) - Cardinality(Holders(c) \cap Given)
      BY <2>1, FS_Difference
    <2> QED BY <1>4, <1>7, <2>1, <2>2
  <1>9. \A d \in Chunks : useCnt'[d] = Cardinality(Holders(d)') /\ useCnt'[d] \in Nat
    <2> QED BY <1>1, <1>2, <1>5, <1>8, HoldersFinite DEF UsesTyped, UseCntExact
  <1>10. UsesTyped'
    BY <1>1, <1>2, <1>9 DEF UsesTyped
  <1> QED
    BY <1>0, <1>1, <1>2, <1>9, <1>10 DEF UseCntExact, Uses

\* A chunk is erased when nobody has it loaded, so that its count is zero already.
LEMMA MfreeCount ==
    ASSUME ControlInv, UsesTyped, FreeOK, UseCntExact, NEW t \in Threads, Mfree(t) \/ Pffree(t)
    PROVE  UsesTyped' /\ UseCntExact' /\ loaded' = loaded
  <1>0. PICK c \in Chunks : c = call[t].chunk
    BY At DEF Mfree, Pffree, UseOps
  <1>1. /\ pc[t] \in {"mfree", "pffree"} /\ call[t].op = "mfree"
        /\ t \in Procs /\ Moves(t) /\ loaded' = loaded
        /\ useCnt' \in {useCnt, [useCnt EXCEPT ![c] = 0]}
    BY <1>0, At, CallMoves DEF Mfree, Pffree, Erase, Wait
  <1>2. Holders(c) = {}
    BY <1>0, <1>1 DEF FreeOK, Holders
  <1>3. useCnt' = useCnt
    <2>1. useCnt[c] = 0
      BY <1>1, <1>2, FS_EmptySet DEF UseCntExact
    <2> QED BY <1>1, <2>1 DEF UsesTyped
  <1> QED BY <1>1, <1>3, CountKept DEF UseOps

\* Lock takes a call to its first place; entering stays entering.
LEMMA LockKeeps ==
    ASSUME ControlInv, UsesInv, NEW p \in Procs, Lock(p)
    PROVE  ControlInv' /\ UsesInv'
  <1>1. /\ pc[p] = "lock" /\ mutex' = p /\ call' = call /\ loaded' = loaded /\ useCnt' = useCnt
        /\ pc' = [pc EXCEPT ![p] = Entry(call[p].op)]
    BY DEF Lock, Goto
  <1>2. call[p] \in Calls /\ call[p].op \in Ops /\ call[p].ret \in Waits
    BY DEF ControlInv, ThreadsTyped, Calls
  <1>3. ThreadsTyped'
    <2>1. Entry(call[p].op) \in PCs
      BY <1>2 DEF PCs, Holding
    <2> QED BY <1>1, <2>1 DEF ControlInv, ThreadsTyped
  <1>4. ASSUME NEW q \in Procs
        PROVE  (Place(q))' \in Inside(call[q].op) \cup {"idle", "lock", "stuck", call[q].op}
    <2>1. CASE q # p
      BY <1>1, <2>1 DEF ControlInv, ThreadsTyped, PlaceOK, Place
    <2>2. CASE q = p /\ call[p].op = "mmalloc"
      BY <1>1, <2>2, Reach DEF ControlInv, ThreadsTyped, Place, AioPlaces, Entry, SpaceOps
    <2>3. CASE q = p /\ call[p].op = "arrive"
      BY <1>1, <1>2, <2>3 DEF ControlInv, ThreadsTyped, PlaceOK, Place, AioPlaces, Entry,
            Inside, UseOps
    <2>4. CASE q = p /\ call[p].op \notin {"mmalloc", "arrive"}
      BY <1>1, <1>2, <2>4 DEF ControlInv, ThreadsTyped, Place, AioPlaces, Entry, Ops, SpaceOps,
            UseOps
    <2> QED BY <2>1, <2>2, <2>3, <2>4
  <1>5. ControlInv'
    <2>1. \A t \in Threads : pc'[t] # "idle" => pc[t] # "idle"
      BY <1>1 DEF ControlInv, ThreadsTyped, Procs
    <2> QED BY <1>1, <1>3, <1>4, <2>1 DEF ControlInv, PlaceOK
  <1>6. FlagOK' /\ FreeOK'
    BY <1>1 DEF UsesInv, FlagOK, FreeOK, ControlInv, ThreadsTyped, Procs
  <1>7. ASSUME NEW t \in Threads, NEW c \in Chunks, NEW m \in {"R", "W"}
        PROVE  Entering(t, c, m)' <=> Entering(t, c, m)
    <2>1. CASE t # p
      BY <1>1, <2>1 DEF Entering, ControlInv, ThreadsTyped, Procs
    <2>2. CASE t = p
      BY <1>1, <1>2, <2>2 DEF Entering, ControlInv, ThreadsTyped, Procs, Entry, UseOps
    <2> QED BY <2>1, <2>2
  <1>8. ASSUME NEW c \in Chunks
        PROVE  Holders(c)' = Holders(c)
    <2>1. ASSUME NEW h \in Threads \X {"R", "W"}
          PROVE  Entering(h[1], c, h[2])' <=> Entering(h[1], c, h[2])
      BY <1>7
    <2> QED BY <1>1, <2>1 DEF Holders
  <1> QED
    BY <1>1, <1>5, <1>6, <1>8 DEF UsesInv, UsesTyped, UseCntExact

\* A client begins a call; only Pull sets a flag, and that use is not counted yet.
LEMMA InvokeKeeps ==
    ASSUME ControlInv, UsesInv, NEW t \in Threads, NEW op \in Ops \ {"arrive"},
           NEW c \in Chunks \cup {None},
           Invoke(t, op, c),
           op # "setMemoryLimit" => c \in Chunks,
           op = "mfree" => \A u \in Threads : loaded[u][c] = {},
           \/ loaded' = loaded /\ op \notin UseOps
           \/ \E m \in {"R", "W"} :
                 /\ op = (IF m = "W" THEN "writeUse" ELSE "readUse")
                 /\ m \notin loaded[t][c] 
                 /\ ~BusyWith(c, {"mfree"})
                 /\ loaded' = [loaded EXCEPT ![t][c] = @ \cup {m}]
    PROVE  ControlInv' /\ UsesInv'
  <1>1. /\ pc[t] = "idle" /\ pc' = [pc EXCEPT ![t] = "lock"] /\ mutex' = mutex /\ useCnt' = useCnt
        /\ call' = [call EXCEPT ![t] = NewCall(op, c)] /\ t \in Procs
    BY DEF Invoke, Goto, Procs
  <1>2. NewCall(op, c) \in Calls /\ NewCall(op, c).op = op /\ NewCall(op, c).chunk = c
        /\ NewCall(op, c).ret = "return"
    BY NoCallTyped DEF NewCall
  <1>3. ThreadsTyped'
    BY <1>1, <1>2, WaitsArePCs DEF ControlInv, ThreadsTyped
  <1>4. ControlInv'
    BY <1>1, <1>2, <1>3 DEF ControlInv, ThreadsTyped, PlaceOK, Place, AioPlaces, Procs
  <1>5. /\ \A u \in Threads : u # t =>
              pc'[u] = pc[u] /\ call'[u] = call[u] /\ loaded'[u] = loaded[u]
        /\ pc'[t] = "lock" /\ call'[t].op = op /\ call'[t].chunk = c
    BY <1>1, <1>2 DEF UsesInv, UsesTyped, ControlInv, ThreadsTyped, Procs
  <1>6. UsesTyped'
    <2>1. useCnt' \in [Chunks -> Nat]
      BY <1>1 DEF UsesInv, UsesTyped
    <2>2. ASSUME NEW m \in {"R", "W"}, c \in Chunks,
                 loaded' = [loaded EXCEPT ![t][c] = @ \cup {m}]
          PROVE  loaded' \in [Threads -> [Chunks -> SUBSET {"R", "W"}]]
      BY <2>2 DEF UsesInv, UsesTyped
    <2> QED BY <2>1, <2>2 DEF UsesInv, UsesTyped, UseOps
  <1>7. CASE loaded' = loaded /\ op \notin UseOps
    <2>1. FlagOK' /\ FreeOK'
      BY <1>5, <1>7 DEF UsesInv, FlagOK, FreeOK, UseOps
    <2>2. ASSUME NEW u \in Threads, NEW d \in Chunks, NEW k \in {"R", "W"}
          PROVE  Entering(u, d, k)' <=> Entering(u, d, k)
      <3>1. CASE u # t
        BY <1>5, <3>1 DEF Entering
      <3>2. CASE u = t
        BY <1>1, <1>5, <1>7, <3>2 DEF Entering, UseOps
      <3> QED BY <3>1, <3>2
    <2>3. ASSUME NEW d \in Chunks
          PROVE  Holders(d)' = Holders(d)
      <3>1. ASSUME NEW h \in Threads \X {"R", "W"}
            PROVE  Entering(h[1], d, h[2])' <=> Entering(h[1], d, h[2])
        BY <2>2
      <3> QED BY <1>7, <3>1 DEF Holders
    <2> QED BY <1>1, <1>4, <1>6, <2>1, <2>3 DEF UsesInv, UseCntExact
  <1>8. ASSUME NEW m \in {"R", "W"},
               op = (IF m = "W" THEN "writeUse" ELSE "readUse"),
               m \notin loaded[t][c], ~BusyWith(c, {"mfree"}),
               loaded' = [loaded EXCEPT ![t][c] = @ \cup {m}]
        PROVE  ControlInv' /\ UsesInv'
    <2>1. c \in Chunks
      BY <1>8
    <2>2. /\ loaded'[t][c] = loaded[t][c] \cup {m}
          /\ \A d \in Chunks : d # c => loaded'[t][d] = loaded[t][d]
      BY <1>8, <2>1 DEF UsesInv, UsesTyped
    <2>3. FlagOK'
      BY <1>5, <1>8, <2>1, <2>2 DEF UsesInv, FlagOK
    <2>4. FreeOK'
      <3>1. ASSUME NEW v \in Threads, NEW u \in Threads, pc'[v] # "idle", call'[v].op = "mfree"
            PROVE  loaded'[u][call'[v].chunk] = {}
        <4>1. v # t /\ pc[v] # "idle" /\ call[v].op = "mfree" /\ call'[v] = call[v]
          BY <1>5, <1>8, <3>1
        <4>2. call[v].chunk \in Chunks /\ call[v].chunk # c /\ loaded[u][call[v].chunk] = {}
          BY <1>8, <4>1 DEF BusyWith, ControlInv, PlaceOK, UsesInv, FreeOK
        <4> QED BY <1>5, <2>2, <4>1, <4>2
      <3> QED BY <3>1 DEF FreeOK
    <2>5. ASSUME NEW u \in Threads, NEW d \in Chunks, NEW k \in {"R", "W"}
          PROVE  Entering(u, d, k)' <=> Entering(u, d, k) \/ <<u, d, k>> = <<t, c, m>>
      <3>1. CASE u # t
        BY <1>5, <3>1 DEF Entering
      <3>2. CASE u = t
        BY <1>1, <1>5, <1>8, <3>2 DEF Entering, UseOps
      <3> QED BY <3>1, <3>2
    <2>6. ASSUME NEW d \in Chunks
          PROVE  Holders(d)' = Holders(d)
      <3>1. ASSUME NEW h \in Threads \X {"R", "W"}
            PROVE  h[2] \in loaded'[h[1]][d] /\ ~Entering(h[1], d, h[2])'
                   <=> h[2] \in loaded[h[1]][d] /\ ~Entering(h[1], d, h[2])
        <4>1. h[1] \in Threads /\ h[2] \in {"R", "W"}
          OBVIOUS
        <4>2. Entering(h[1], d, h[2])'
                <=> Entering(h[1], d, h[2]) \/ <<h[1], d, h[2]>> = <<t, c, m>>
          BY <2>5, <4>1
        <4> QED BY <1>5, <1>8, <2>1, <2>2, <4>1, <4>2
      <3> QED BY <3>1 DEF Holders
    <2> QED BY <1>1, <1>4, <1>6, <2>3, <2>4, <2>6 DEF UsesInv, UseCntExact
  <1> QED BY <1>7, <1>8

\* What clients do between calls keeps control and uses right.
LEMMA ClientKeeps ==
    ASSUME ControlInv, UsesInv, NEW t \in Threads, Client(t)
    PROVE  ControlInv' /\ UsesInv'
  <1>1. CASE SetLimit(t)
    BY <1>1, InvokeKeeps DEF SetLimit, Ops, SpaceOps, UseOps
  <1>2. ASSUME NEW c \in Chunks, New(t, c)
        PROVE  ControlInv' /\ UsesInv'
    BY <1>2, InvokeKeeps DEF New, Ops, SpaceOps, UseOps
  <1>3. ASSUME NEW c \in Chunks, Adhere(t, c)
        PROVE  ControlInv' /\ UsesInv'
    BY <1>3, InvokeKeeps DEF Adhere, Ops, SpaceOps, UseOps
  <1>4. ASSUME NEW c \in Chunks, NEW m \in {"R", "W"}, Pull(t, c, m)
        PROVE  ControlInv' /\ UsesInv'
    <2>1. ~BusyWith(c, {"mfree"})
      BY <1>4 DEF Pull, Usable, BusyWith
    <2>2. Invoke(t, IF m = "W" THEN "writeUse" ELSE "readUse", c)
      BY <1>4 DEF Pull
    <2>3. CASE m = "W"
      BY <1>4, <2>1, <2>2, <2>3, InvokeKeeps DEF Pull, Ops, SpaceOps, UseOps
    <2>4. CASE m = "R"
      BY <1>4, <2>1, <2>2, <2>4, InvokeKeeps DEF Pull, Ops, SpaceOps, UseOps
    <2> QED BY <2>3, <2>4
  <1>5. ASSUME NEW c \in Chunks, Drop(t, c)
        PROVE  ControlInv' /\ UsesInv'
    BY <1>5, InvokeKeeps DEF Drop, Ops, SpaceOps, UseOps
  <1>6. ASSUME NEW c \in Chunks, Delete(t, c)
        PROVE  ControlInv' /\ UsesInv'
    BY <1>6, InvokeKeeps DEF Delete, Ops, SpaceOps, UseOps
  <1>7. ASSUME NEW c \in Chunks, NEW v \in Vals, Store(t, c, v)
        PROVE  ControlInv' /\ UsesInv'
    <2>1. useCnt' = useCnt /\ loaded' = loaded /\ pc' = pc /\ call' = call /\ mutex' = mutex
      BY <1>7 DEF Store
    <2> QED BY <2>1 DEF ControlInv, ThreadsTyped, PlaceOK, Place, UsesInv, UsesTyped, FlagOK,
            FreeOK,
                        UseCntExact, Holders, Entering
  <1> QED
    BY <1>1, <1>2, <1>3, <1>4, <1>5, <1>6, <1>7 DEF Client

\* The arrival thread keeps control and uses right.
LEMMA ArriverKeeps ==
    ASSUME ControlInv, UsesInv, ArriverStart \/ ArriverDone
    PROVE  ControlInv' /\ UsesInv'
  <1>1. Arriver \in Procs /\ Arriver \notin Threads
    BY DEF Procs
  <1>2. CASE ArriverDone
    <2>1. /\ pc[Arriver] = "return" /\ Moves(Arriver) /\ useCnt' = useCnt /\ loaded' = loaded
      BY <1>1, <1>2, ReturnMoves DEF ArriverDone
    <2> QED BY <1>1, <2>1, MovesPlace, MovesFlags, CountKept DEF UsesInv, Uses, UseOps
  <1>3. CASE ArriverStart
    <2>1. /\ pc' = [pc EXCEPT ![Arriver] = "lock"] /\ call' = call /\ mutex' = mutex
          /\ useCnt' = useCnt /\ loaded' = loaded
      BY <1>3 DEF ArriverStart, Goto
    <2>2. \A t \in Threads : pc'[t] = pc[t]
      BY <1>1, <2>1 DEF ControlInv, ThreadsTyped
    <2>3. ControlInv'
      BY <1>1, <2>1, <2>2, WaitsArePCs DEF ControlInv, ThreadsTyped, PlaceOK, Place, AioPlaces
    <2>4. ASSUME NEW c \in Chunks
          PROVE  Holders(c)' = Holders(c)
      <3>1. ASSUME NEW h \in Threads \X {"R", "W"}
            PROVE  Entering(h[1], c, h[2])' <=> Entering(h[1], c, h[2])
        BY <2>1, <2>2 DEF Entering
      <3> QED BY <2>1, <3>1 DEF Holders
    <2> QED BY <2>1, <2>2, <2>3, <2>4 DEF UsesInv, UsesTyped, FlagOK, FreeOK, UseCntExact
  <1> QED BY <1>2, <1>3

\* Every step keeps control and uses right.
LEMMA ControlKept ==
    ASSUME ControlInv, UsesInv, [Next]_vars
    PROVE  ControlInv' /\ UsesInv'
  <1>1. ASSUME NEW t \in Threads, Manager(t)
        PROVE  Moves(t) /\ UsesTyped' /\ UseCntExact' /\ Uses(t)
    <2>1. Moves(t)
      BY <1>1, EvictMoves, SpaceMoves, CallMoves DEF Manager
    <2> QED
      BY <1>1, <2>1, QuietSteps, SetUseCount, UnsetUseCount, MfreeCount DEF Manager, Uses, UsesInv
  <1>2. ASSUME NEW p \in Procs, CheckForAIO(p)
        PROVE  Moves(p) /\ UsesTyped' /\ UseCntExact' /\ Uses(p)
    BY <1>2, AioStepMoves, AioCount DEF Uses, UsesInv
  <1>3. ASSUME NEW p \in Procs, Moves(p), UsesTyped', UseCntExact', Uses(p)
        PROVE  ControlInv' /\ UsesInv'
    BY <1>3, MovesPlace, MovesFlags DEF UsesInv
  <1>4. CASE UNCHANGED vars
    BY <1>4 DEF ControlInv, ThreadsTyped, PlaceOK, Place, UsesInv, UsesTyped, FlagOK, FreeOK,
                UseCntExact, Holders, Entering
  <1> QED
    BY <1>1, <1>2, <1>3, <1>4, ClientKeeps, LockKeeps, ArriverKeeps DEF Next, Procs
-----------------------------------------------------------------------------
(* Types of the data *)

\* Sizes are integers.
LEMMA Sizes ==
    ASSUME NEW c \in Chunks
    PROVE  Size[c] \in Int
  OBVIOUS

\* Dropping page copies keeps types.
LEMMA DropTyped ==
    ASSUME DataTyped, NEW D, DropCopies(D)
    PROVE  swapBuf' \in [Chunks -> BOOLEAN] /\ disk' \in [Chunks -> Vals \cup {None}]
  <1>1. swapBuf' \in [Chunks -> BOOLEAN]
    BY DEF DropCopies
  <1>2. disk' \in [Chunks -> Vals \cup {None}]
    BY DEF DropCopies, DataTyped
  <1> QED BY <1>1, <1>2

\* Ticking a victim off keeps the type of ev.
LEMMA UnloadedTyped ==
    ASSUME DataTyped, NEW c \in Chunks, NEW n \in Int, Unloaded(c, n)
    PROVE  ev' \in Evicts
  <1>1. \A r \in Evicts, T \in SUBSET Chunks : [r EXCEPT !.todo = T] \in Evicts
    BY DEF Evicts
  <1>2. \A r \in Evicts, k \in Int : [r EXCEPT !.real = k] \in Evicts
    BY DEF Evicts
  <1>3. \A r \in Evicts, T \in SUBSET Chunks : [r EXCEPT !.again = T] \in Evicts
    BY DEF Evicts
  <1>4. /\ ev \in Evicts /\ ev.real + n \in Int /\ ev.todo \ {c} \in SUBSET Chunks
        /\ (IF c \in ev.todo THEN ev.again ELSE ev.again \ {c}) \in SUBSET Chunks
    BY DEF DataTyped, Evicts
  <1> QED BY <1>1, <1>2, <1>3, <1>4 DEF Unloaded

\* A victim search that begins has the type of ev.
LEMMA EvictTyped ==
    /\ \A n \in Int, lim \in Nat : NewEvict(n, lim) \in Evicts
    /\ NoEvict \in Evicts
  BY DEF NewEvict, NoEvict, Evicts

\* The steps of cyclicManagedMemory::swapOut keep types.
LEMMA EvictData ==
    ASSUME ControlInv, DataTyped, NEW t \in Threads, Evict(t)
    PROVE  DataTyped'
  <1>1. CASE EvictNothing(t)
    BY <1>1, EvictTyped DEF EvictNothing, DataTyped
  <1>2. CASE EvictSwapFull(t)
    BY <1>2, DropTyped DEF EvictSwapFull, DataTyped
  <1>3. CASE EvictSelect(t)
    <2>1. \/ ev' = ev
          \/ \E U, A \in SUBSET Chunks : ev' = [ev EXCEPT !.todo = U, !.again = A]
      BY <1>3 DEF EvictSelect, Selections, Revisits, Candidates, DataTyped
    <2>2. ev' \in Evicts
      BY <2>1 DEF DataTyped, Evicts
    <2> QED BY <1>3, <2>2 DEF EvictSelect, DataTyped
  <1>4. CASE UnloadDone(t)
    BY <1>4 DEF UnloadDone, DataTyped
  <1>5. ASSUME NEW c \in Chunks, UnloadNot(t, c)
        PROVE  DataTyped'
    <2>1. ev' \in Evicts
      BY <1>5, UnloadedTyped, Sizes DEF UnloadNot
    <2> QED BY <1>5, <2>1 DEF UnloadNot, DataTyped
  <1>6. ASSUME NEW c \in Chunks, UnloadCached(t, c)
        PROVE  DataTyped'
    BY <1>6, UnloadedTyped, Sizes DEF UnloadCached, DataTyped, Statuses
  <1>7. ASSUME NEW c \in Chunks, UnloadWrite(t, c)
        PROVE  DataTyped'
    <2>1. ASSUME NEW D, ScheduleWrite(c, D)
          PROVE  DataTyped'
      <3>1. ev' \in Evicts
        BY <2>1, UnloadedTyped, Sizes DEF ScheduleWrite
      <3>2. swapBuf' \in [Chunks -> BOOLEAN]
        BY <2>1 DEF ScheduleWrite
      <3>3. disk' \in [Chunks -> Vals \cup {None}]
        BY <2>1 DEF ScheduleWrite, DataTyped
      <3> QED BY <2>1, <3>1, <3>2, <3>3, Sizes DEF ScheduleWrite, DataTyped, Statuses
    <2>2. ASSUME NEW D, DropCopies(D), UNCHANGED <<status, ram, ring, memVars, ioVars, ev>>
          PROVE  DataTyped'
      BY <2>2, DropTyped DEF DataTyped
    <2> QED BY <1>7, <2>1, <2>2 DEF UnloadWrite
  <1> QED
    BY <1>1, <1>2, <1>3, <1>4, <1>5, <1>6, <1>7 DEF Evict

\* The steps of ensureEnoughSpace keep types.
LEMMA SpaceData ==
    ASSUME ControlInv, DataTyped, NEW t \in Threads, EnsureEnoughSpace(t)
    PROVE  DataTyped'
  <1>1. CASE SpaceFound(t)
    <2>1. call[t].chunk \in Chunks /\ Size[call[t].chunk] \in Int
      BY <1>1, At, Sizes DEF SpaceFound, SpaceOps, UseOps
    <2>2. CASE Allocate(t, call[t].chunk)
      BY <2>1, <2>2 DEF Allocate, DataTyped, Statuses, Allocated, Unused
    <2>3. CASE ScheduleRead(t, call[t].chunk)
      BY <2>1, <2>3 DEF ScheduleRead, DataTyped, Statuses
    <2>4. CASE UNCHANGED <<chunkVars, memVars, ioVars, loaded, ev>>
      BY <2>4 DEF DataTyped
    <2> QED BY <1>1, <2>2, <2>3, <2>4 DEF SpaceFound
  <1>2. CASE AlreadyThere(t)
    BY <1>2 DEF AlreadyThere, DataTyped
  <1>3. CASE SpaceMissing(t)
    <2>1. call[t].chunk \in Chunks /\ Size[call[t].chunk] \in Int
      BY <1>3, At, Sizes DEF SpaceMissing, SpaceOps, UseOps
    <2>2. ev' \in Evicts
      BY <1>3, <2>1, EvictTyped DEF SpaceMissing, StartEvict, Excess, DataTyped
    <2> QED BY <1>3, <2>2 DEF SpaceMissing, DataTyped
  <1>4. CASE EvictHelped(t)
    BY <1>4, EvictTyped DEF EvictHelped, AfterEvict, DataTyped
  <1>5. CASE LastResort(t)
    BY <1>5, EvictTyped, DropTyped DEF LastResort, EvictFailed, AfterEvict, DataTyped
  <1>6. CASE OutOfMemory(t)
    BY <1>6, EvictTyped DEF OutOfMemory, EvictFailed, AfterEvict, DataTyped
  <1>7. CASE KeepTrying(t)
    BY <1>7, EvictTyped, DropTyped DEF KeepTrying, EvictFailed, AfterEvict, DataTyped
  <1> QED
    BY <1>1, <1>2, <1>3, <1>4, <1>5, <1>6, <1>7 DEF EnsureEnoughSpace

\* The end of setUse keeps types.
LEMMA GrantData ==
    ASSUME DataTyped, NEW t \in Threads, NEW c \in Chunks, NEW s \in InUse, Grant(t, c, s)
    PROVE  DataTyped'
  BY DropTyped DEF Grant, DataTyped, Statuses, Allocated, InUse

\* The end of mfree keeps types.
LEMMA EraseData ==
    ASSUME DataTyped, NEW t \in Threads, NEW c \in Chunks, Erase(t, c),
           ring' \subseteq Chunks, memory_used' \in Int,
           UNCHANGED <<memory_tobefreed, memory_max, ioVars, ev>>
    PROVE  DataTyped'
  BY DropTyped, Sizes DEF Erase, SwapClaim, DataTyped, Statuses

\* The steps of the other operations keep types.
LEMMA CallData ==
    ASSUME ControlInv, DataTyped, NEW t \in Threads,
           \/ PrepareUse(t) \/ SetUse(t) \/ WaitForSwapout(t) \/ WaitForSwapin(t)
           \/ UnsetUse(t) \/ Untouched(t) \/ Mfree(t) \/ Pffree(t)
           \/ SetMemoryLimit(t) \/ LimitEvicted(t)
    PROVE  DataTyped'
  <1>1. CASE PrepareUse(t)
    BY <1>1 DEF PrepareUse, DataTyped
  <1>2. CASE SetUse(t)
    <2>1. call[t].chunk \in Chunks
      BY <1>2, At DEF SetUse, UseOps
    <2>2. status[call[t].chunk] \in Allocated =>
              Grant(t, call[t].chunk, IF status[call[t].chunk] = "ALLOCATED" THEN "INUSE_READ"
                                      ELSE status[call[t].chunk])
      BY <1>2 DEF SetUse
    <2> QED BY <1>2, <2>1, <2>2, GrantData DEF SetUse, DataTyped, Allocated, Unused, InUse
  <1>3. CASE WaitForSwapout(t)
    BY <1>3 DEF WaitForSwapout, DataTyped
  <1>4. CASE WaitForSwapin(t)
    <2>1. call[t].chunk \in Chunks
      BY <1>4, At DEF WaitForSwapin, UseOps
    <2> QED BY <1>4, <2>1, GrantData DEF WaitForSwapin, DataTyped, InUse
  <1>5. CASE UnsetUse(t)
    <2>1. call[t].chunk \in Chunks
      BY <1>5, At DEF UnsetUse, UseOps
    <2>2. status' \in [Chunks -> Statuses]
      BY <1>5, <2>1 DEF UnsetUse, DataTyped, Statuses, Allocated, Unused
    <2>3. ev' \in Evicts
      <3>1. /\ ev \in Evicts
            /\ KeepFree(memory_max) - (memory_max - memory_used + memory_tobefreed) \in Int
        BY DEF KeepFree, DataTyped
      <3> QED BY <1>5, <3>1, EvictTyped DEF UnsetUse, StartEvict
    <2> QED BY <1>5, <2>2, <2>3 DEF UnsetUse, DataTyped
  <1>6. CASE Untouched(t)
    BY <1>6, EvictTyped DEF Untouched, DataTyped
  <1>7. CASE Mfree(t)
    <2>1. call[t].chunk \in Chunks /\ Size[call[t].chunk] \in Int
      BY <1>7, At, Sizes DEF Mfree, UseOps
    <2>2. CASE status[call[t].chunk] \in InUse
      BY <1>7, <2>2 DEF Mfree, DataTyped
    <2>3. CASE status[call[t].chunk] \notin InUse
      <3>1. /\ ring' \subseteq Chunks /\ memory_used' \in Int
            /\ UNCHANGED <<memory_tobefreed, memory_max, ioVars, ev>>
        BY <1>7, <2>1, <2>3 DEF Mfree, DataTyped
      <3>2. CASE Erase(t, call[t].chunk)
        BY <2>1, <3>1, <3>2, EraseData
      <3>3. CASE UNCHANGED <<status, swapBuf, ram, disk, swapUsed>>
        BY <3>1, <3>3 DEF DataTyped
      <3> QED BY <1>7, <2>3, <3>2, <3>3 DEF Mfree
    <2> QED BY <2>2, <2>3
  <1>8. CASE Pffree(t)
    <2>1. call[t].chunk \in Chunks
      BY <1>8, At DEF Pffree, UseOps
    <2>2. CASE /\ Erase(t, call[t].chunk)
               /\ UNCHANGED <<ring, memory_used, memory_tobefreed, memory_max>>
      BY <1>8, <2>1, <2>2, EraseData DEF Pffree, DataTyped
    <2>3. CASE UNCHANGED <<chunkVars, memVars>>
      BY <1>8, <2>3 DEF Pffree, DataTyped
    <2> QED BY <1>8, <2>2, <2>3 DEF Pffree
  <1>9. CASE SetMemoryLimit(t)
    <2>1. memory_max' \in Nat /\ ev' \in Evicts
      BY <1>9, EvictTyped DEF SetMemoryLimit, StartEvict, DataTyped
    <2> QED BY <1>9, <2>1 DEF SetMemoryLimit, DataTyped
  <1>10. CASE LimitEvicted(t)
    <2>1. memory_max' \in Nat /\ ev' \in Evicts
      <3>1. memory_max \in Nat /\ ev.limit \in Nat
        BY DEF DataTyped, Evicts
      <3>2. \/ memory_max' = ev.limit /\ ev' = NewEvict(0, ev.limit)
            \/ memory_max' = memory_max /\ ev' = NoEvict
        BY <1>10 DEF LimitEvicted, StartEvict
      <3> QED BY <3>1, <3>2, EvictTyped
    <2> QED BY <1>10, <2>1 DEF LimitEvicted, DataTyped
  <1> QED
    BY <1>1, <1>2, <1>3, <1>4, <1>5, <1>6, <1>7, <1>8, <1>9, <1>10

\* Collecting transfers keeps types.
LEMMA AioData ==
    ASSUME ControlInv, DataTyped, NEW p \in Procs, CheckForAIO(p)
    PROVE  DataTyped'
  <1>1. CASE AioBusy(p) \/ AioNothing(p) \/ Woken(p)
    BY <1>1 DEF AioBusy, AioNothing, Woken, DataTyped
  <1>2. CASE AioFetch(p)
    BY <1>2 DEF AioFetch, InFlight, DataTyped
  <1>3. CASE AioPoll(p)
    BY <1>3 DEF AioPoll, DataTyped
  <1>4. CASE GetEvents(p)
    BY <1>4 DEF GetEvents, InFlight, DataTyped
  <1>5. CASE EventsDone(p)
    BY <1>5 DEF EventsDone, DataTyped
  <1>6. ASSUME NEW c \in Chunks, Arrived(p, c)
        PROVE  DataTyped'
    <2>1. CASE ReadArrived(p, c)
      BY <1>6, <2>1, Sizes DEF Arrived, ReadArrived, DataTyped, Statuses, Allocated, Unused, InUse
    <2>2. CASE WriteArrived(p, c)
      BY <1>6, <2>2, Sizes DEF Arrived, WriteArrived, DataTyped, Statuses
    <2>3. CASE UNCHANGED <<status, ram, disk, memory_used, memory_tobefreed, swapUsed,
                           reading, writing>>
      BY <1>6, <2>3 DEF Arrived, DataTyped
    <2> QED BY <1>6, <2>1, <2>2, <2>3 DEF Arrived
  <1> QED BY <1>1, <1>2, <1>3, <1>4, <1>5, <1>6 DEF CheckForAIO

\* Every step keeps types.
LEMMA DataKept ==
    ASSUME ControlInv, DataTyped, [Next]_vars
    PROVE  DataTyped'
  <1>1. ASSUME NEW t \in Threads, Client(t)
        PROVE  DataTyped'
    <2>1. CASE UNCHANGED <<chunkVars, memVars, ioVars, ev>>
      BY <2>1 DEF DataTyped
    <2>2. ASSUME NEW c \in Chunks, NEW v \in Vals, Store(t, c, v)
          PROVE  DataTyped'
      BY <2>2 DEF Store, DataTyped
    <2> QED BY <1>1, <2>1, <2>2 DEF Client, SetLimit, New, Adhere, Pull, Drop, Delete, Invoke
  <1>2. ASSUME NEW t \in Threads, Manager(t)
        PROVE  DataTyped'
    BY <1>2, EvictData, SpaceData, CallData DEF Manager
  <1>3. ASSUME NEW p \in Procs, Lock(p)
        PROVE  DataTyped'
    BY <1>3 DEF Lock, DataTyped
  <1>4. ASSUME ArriverStart \/ ArriverDone
        PROVE  DataTyped'
    BY <1>4 DEF ArriverStart, ArriverDone, DataTyped
  <1>5. CASE UNCHANGED vars
    BY <1>5 DEF DataTyped
  <1> QED
    BY <1>1, <1>2, <1>3, <1>4, <1>5, AioData DEF Next

-----------------------------------------------------------------------------
(* The theorems *)

\* The invariant holds when the manager is constructed.
LEMMA InitOK == Init => IInv
  <1> SUFFICES ASSUME Init PROVE IInv
    OBVIOUS
  <1>1. ControlInv
    BY NoCallTyped, WaitsArePCs DEF Init, ControlInv, ThreadsTyped, PlaceOK, Place, AioPlaces,
          Procs
  <1>2. DataTyped
    BY EvictTyped DEF Init, DataTyped, Statuses
  <1>3. UsesTyped /\ FlagOK /\ FreeOK
    BY DEF Init, UsesTyped, FlagOK, FreeOK, Procs
  <1>4. ASSUME NEW c \in Chunks
        PROVE  useCnt[c] = Cardinality(Holders(c))
    <2>1. Holders(c) = {}
      BY DEF Init, Holders
    <2> QED BY <2>1, FS_EmptySet DEF Init
  <1> QED BY <1>1, <1>2, <1>3, <1>4 DEF IInv, UsesInv, UseCntExact

\* The inductive invariant holds of every behaviour.
THEOREM IInvHolds == Spec => []IInv
  <1>1. IInv /\ [Next]_vars => IInv'
    BY ControlKept, DataKept DEF IInv
  <1> QED BY InitOK, <1>1, PTL DEF Spec

\* Type correctness of the manager, for every instance: in particular no use count falls
\* below zero and no thread is at a place its call has no business at.
THEOREM TypeCorrect == Spec => []TypeOK
  <1>1. IInv => TypeOK
    BY DEF IInv, ControlInv, ThreadsTyped, DataTyped, UsesInv, UsesTyped, TypeOK
  <1> QED BY <1>1, IInvHolds, PTL

\* chunk.useCnt is the number of uses that adhereTo objects hold on the chunk, whatever
\* exceptions, waits and deletions happen in between, for every number of threads.
THEOREM UseCountsExact == Spec => []UseCntExact
  <1>1. IInv => UseCntExact
    BY DEF IInv, UsesInv
  <1> QED BY <1>1, IInvHolds, PTL

-----------------------------------------------------------------------------
(* Safety *)

\* adhereTo objects do not prefetch, or there is one thread that waits before it deletes.
NoRace == Prefetch => ~FreeWhileLoading /\ \A t, u \in Threads : t = u

-----------------------------------------------------------------------------
(* The inductive invariant *)

Busy(t)     == pc[t] # "idle"
BringIn     == UseOps \cup {"prepareUse"}
SpacePlaces == {"space"} \cup EvictPlaces

\* Whoever is inside the manager has stateChangeMutex, and nobody else does.
MutexOK == \A p \in Procs : pc[p] \in Holding <=> mutex = p

\* prepareUse is called for prefetching only, and setMemoryLimit concerns no chunk.
RequestOK ==
    \A t \in Threads : Busy(t) =>
        /\ call[t].op = "prepareUse" => Prefetch
        /\ call[t].op = "setMemoryLimit" => call[t].chunk = None

\* Whoever makes or frees a chunk is alone with it.
AloneOK ==
    \A t, u \in Threads :
        Busy(t) /\ Busy(u) /\ call[t].op \in {"mmalloc", "mfree"}
            /\ call[t].chunk = call[u].chunk => t = u

\* A chunk exists exactly when the calls and the pointers to it need it to.
AliveOK ==
    /\ \A t \in Threads : Busy(t) =>
          /\ call[t].op = "mmalloc" => status[call[t].chunk] = "NONE"
          /\ call[t].op \in BringIn \cup {"unsetUse", "mfree"}
                => status[call[t].chunk] # "NONE"
    /\ \A t \in Threads, c \in Chunks : loaded[t][c] # {} => status[c] # "NONE"

\* Nobody has unloaded a chunk for which a thread is making room.
WantedOK ==
    \A t \in Threads : Busy(t) /\ Place(t) \in SpacePlaces =>
        /\ call[t].op \in UseOps => status[call[t].chunk] # "SWAPOUT"
        /\ call[t].op = "prepareUse" => status[call[t].chunk] = "SWAPPED"

\* A chunk that is being freed is not being read in, and stays where it is while its
\* write is waited for.
FreeingOK ==
    \A t \in Threads : Busy(t) /\ call[t].op = "mfree" =>
        /\ status[call[t].chunk] # "SWAPIN"
        /\ Place(t) = "pffree" => /\ status[call[t].chunk] \in {"SWAPOUT", "SWAPPED"}
                                  /\ call[t].chunk \notin ring

\* Without prefetching a chunk is read in for a thread that waits for it.
ReaderOK ==
    \A c \in Chunks : ~Prefetch /\ status[c] = "SWAPIN" =>
        \E t \in Threads : /\ Busy(t) /\ call[t].op \in UseOps
                           /\ call[t].chunk = c /\ Place(t) = "waitIn"

\* Nobody begins to use a chunk between its selection and its unloading.
Chosen(t) ==
    pc[t] = "unload" =>
        /\ \A c \in ev.todo : status[c] = "ALLOCATED" /\ useCnt[c] = 0
        /\ \A c \in ev.again : useCnt[c] = 0
        /\ ring = memChunks => ev.again = {}

VictimsOK == \A t \in Threads : Chosen(t)

\* unsetUse clears the flags before it looks for something to unload.
ReleasedOK ==
    \A t \in Threads : Busy(t) /\ call[t].op = "unsetUse" /\ Place(t) \in EvictPlaces
        => loaded[t][call[t].chunk] = {}

RingOK == ring \subseteq memChunks

ThreadInv ==
    /\ MutexOK /\ RequestOK /\ AloneOK /\ AliveOK /\ WantedOK /\ FreeingOK /\ ReaderOK
    /\ VictimsOK /\ ReleasedOK /\ RingOK

\* Where the content of a chunk is, by its status.
PlacedOK ==
    \A c \in Chunks :
        /\ status[c] = "NONE" => ~swapBuf[c]
        /\ status[c] = "INUSE_WRITE" => ~swapBuf[c]
        /\ status[c] \in Allocated \cup {"SWAPOUT"} => ram[c] # None
        /\ status[c] \in {"SWAPPED", "SWAPIN"} => disk[c] # None
        /\ status[c] \in {"SWAPPED", "SWAPIN", "SWAPOUT"} => swapBuf[c]

ContentInv == TransferMatchesStatus /\ got \subseteq InFlight /\ PlacedOK /\ CopyCoherent

SInv == IInv /\ ThreadInv /\ ContentInv /\ UseProtects
-----------------------------------------------------------------------------
(* What a step of a thread inside the manager does *)

\* p, which is in a call, moves and holds the mutex where it says so. It asks for space
\* for a chunk that is swapped, and waits for the pages of a chunk that is written.
Runs(p) ==
    /\ pc[p] \notin {"idle", "lock", "stuck"}
    /\ mutex \in {p, None} /\ mutex' \in {p, None}
    /\ pc'[p] \in Holding <=> mutex' = p
    /\ pc[p] \in AioPlaces => (Place(p))' = Place(p)
    /\ call'[p].op \in BringIn /\ (Place(p))' \in SpacePlaces /\ Place(p) \notin SpacePlaces
          => status[call[p].chunk] = "SWAPPED" /\ status' = status
    /\ (Place(p))' = "pffree" /\ Place(p) # "pffree"
          => /\ status[call[p].chunk] = "SWAPOUT" /\ call[p].chunk \notin ring'
             /\ status' = status
    /\ pc[p] = "waitIn" /\ status[call[p].chunk] = "SWAPIN" => (Place(p))' = "waitIn"
    /\ pc[p] = "unsetUse" => loaded'[p][call[p].chunk] = {}

\* The ways in which a step of p changes the status of a chunk.
Making(p, d)    == /\ pc[p] = "space" /\ call[p].op = "mmalloc" /\ call[p].chunk = d
                   /\ pc'[p] = "idle" /\ status'[d] = "ALLOCATED"
Granting(p, d)  == /\ call[p].op \in UseOps /\ call[p].chunk = d /\ pc[p] \notin AioPlaces
                   /\ status[d] \in Allocated /\ status'[d] \in InUse
                   /\ call[p].op = "writeUse" => ~swapBuf'[d]
                   /\ pc'[p] = "idle"
Releasing(p, d) == /\ pc[p] = "unsetUse" /\ call[p].chunk = d
                   /\ status[d] \in Allocated /\ status'[d] = "ALLOCATED" /\ useCnt'[d] = 0
Unloading(p, d) == /\ pc[p] = "unload" /\ d \in ev.todo \cup ev.again
                   /\ status[d] \in Allocated /\ status'[d] \in {"SWAPPED", "SWAPOUT"}
                   /\ useCnt' = useCnt
Reading(p, d)   == /\ pc[p] = "space" /\ call[p].op \in BringIn /\ call[p].chunk = d
                   /\ status[d] = "SWAPPED" /\ status'[d] = "SWAPIN"
                   /\ pc'[p] = IF call[p].op \in UseOps THEN "waitIn" ELSE "idle"
Arriving(p, d)  == /\ pc[p] = "events" /\ d \in got
                   /\ \/ status[d] = "SWAPIN" /\ status'[d] \in {"ALLOCATED", "INUSE_READ"}
                      \/ status[d] = "SWAPOUT" /\ status'[d] = "SWAPPED"
Freeing(p, d)   == /\ pc[p] \in {"mfree", "pffree"} /\ call[p].op = "mfree"
                   /\ call[p].chunk = d /\ d \notin ring'
                   /\ status'[d] = "NONE" /\ useCnt'[d] = 0 /\ pc'[p] = "idle"

Flow(p) ==
    \A d \in Chunks :
        \/ status'[d] = status[d]
        \/ p \in Threads /\ (\/ Making(p, d) \/ Granting(p, d) \/ Releasing(p, d)
                             \/ Unloading(p, d) \/ Reading(p, d) \/ Freeing(p, d))
        \/ Arriving(p, d)

\* A pointer is given out with the state of its chunk set, and a page copy of a chunk
\* begins with its unloading.
Effect(p) ==
    /\ p \in Threads /\ pc'[p] = "idle" /\ call[p].op \in UseOps => Granting(p, call[p].chunk)
    /\ \A d \in Chunks : swapBuf'[d] => swapBuf[d] \/ (p \in Threads /\ Unloading(p, d))

\* The scheduler's ring.
Turn(p) ==
    \/ ring' = ring
    \/ p \in Threads /\ call[p].op = "mmalloc" /\ ring' = ring \cup {call[p].chunk}
       /\ Making(p, call[p].chunk)
    \/ p \in Threads /\ call[p].op = "mfree" /\ ring' = ring \ {call[p].chunk}

Does(p) == Moves(p) /\ Runs(p) /\ Flow(p) /\ Effect(p) /\ Turn(p) /\ Uses(p)

\* Where the mutex is held.
LEMMA HoldingPlaces ==
    /\ {"space", "waitOut", "waitIn", "pffree", "return", "aio", "events", "stuck"}
          \cup EvictPlaces \cup Waits \cup UseOps
          \cup {"prepareUse", "unsetUse", "mfree", "setMemoryLimit"} \subseteq Holding
    /\ {"idle", "lock", "cond", "woken", "getevents"} \cap Holding = {}
  <1>1. /\ Entry("arrive") = "aio" /\ "arrive" \in Ops
        /\ \A op \in UseOps \cup {"prepareUse", "unsetUse", "mfree", "setMemoryLimit"} :
              op \in Ops /\ Entry(op) = op
    BY DEF Entry, Ops, SpaceOps, UseOps
  <1>2. \A op \in Ops : Entry(op) \in Holding
    BY DEF Holding
  <1>3. \A op \in Ops : Entry(op) \in {"space", "aio", "readUse", "writeUse", "prepareUse",
                                      "unsetUse", "mfree", "setMemoryLimit"}
    BY DEF Entry, Ops, SpaceOps, UseOps
  <1>4. {"idle", "lock", "cond", "woken", "getevents"} \cap Holding = {}
    BY <1>3 DEF Holding, Waits
  <1>5. {"space", "waitOut", "waitIn", "pffree", "return", "events", "stuck"}
          \cup EvictPlaces \cup Waits \subseteq Holding
    BY DEF Holding, Waits, EvictPlaces
  <1> QED BY <1>1, <1>2, <1>4, <1>5
-----------------------------------------------------------------------------
(* Threads during a step of one of them *)

\* The others are outside, and stay where they are.
LEMMA OthersOut ==
    ASSUME SInv, NEW p \in Procs, Moves(p), Runs(p), NEW q \in Procs, q # p
    PROVE  /\ pc[q] \notin Holding /\ pc'[q] \notin Holding
           /\ (Place(q))' = Place(q) /\ call'[q] = call[q] /\ (Busy(q))' = Busy(q)
  <1>1. pc[q] \notin Holding
    <2>1. mutex \in {p, None}
      BY DEF Runs
    <2>2. mutex # q
      BY <2>1
    <2> QED BY <2>2 DEF SInv, ThreadInv, MutexOK
  <1>2. pc'[q] = pc[q] \/ (pc[q] = "cond" /\ pc'[q] = "woken")
    BY DEF Moves
  <1> QED BY <1>1, <1>2, HoldingPlaces DEF Moves, Place, AioPlaces, Busy

\* A thread that stays inside stays in its call, or goes on to undo it.
LEMMA OwnCall ==
    ASSUME SInv, NEW p \in Procs, Moves(p), Runs(p), (Busy(p))'
    PROVE  /\ Busy(p)
           /\ \/ call'[p].op = call[p].op /\ call'[p].chunk = call[p].chunk /\ pc'[p] # "lock"
              \/ /\ p \in Threads /\ call[p].op \in UseOps /\ call'[p].op = "unsetUse"
                 /\ call'[p].chunk = call[p].chunk /\ pc'[p] = "lock"
  <1>1. call[p].op \in Ops
    BY DEF SInv, IInv, ControlInv, ThreadsTyped, Calls
  <1>2. (Place(p))' \in Inside(call[p].op) \cup {"stuck"} => pc'[p] # "lock"
    BY <1>1, WaitsArePCs DEF Place, AioPlaces
  <1> QED BY <1>2 DEF Moves, Busy, NewCall

\* What a place in a call says.
LEMMA PlaceOfCall ==
    ASSUME SInv, NEW t \in Threads, Busy(t), pc[t] \notin {"lock", "stuck"}
    PROVE  /\ t \in Procs /\ Place(t) \in Inside(call[t].op) \cup {call[t].op}
           /\ call[t].op \in Ops
           /\ call[t].op # "setMemoryLimit" => call[t].chunk \in Chunks
           /\ Place(t) \in UseOps \cup {"prepareUse", "unsetUse", "mfree", "setMemoryLimit"}
                => call[t].op = Place(t) /\ pc[t] = Place(t)
           /\ Place(t) \in EvictPlaces => pc[t] = Place(t)
  <1>1. t \in Procs /\ call[t] \in Calls
    BY DEF SInv, IInv, ControlInv, ThreadsTyped, Procs
  <1>2. Place(t) \in Inside(call[t].op) \cup {call[t].op}
    BY <1>1, WaitsArePCs DEF SInv, IInv, ControlInv, PlaceOK, Place, AioPlaces, Calls, Busy, Waits
  <1> QED BY <1>1, <1>2, WaitsArePCs
          DEF SInv, IInv, ControlInv, PlaceOK, Busy, Calls, Place, Inside, EvictPlaces, Waits, Ops,
              SpaceOps, UseOps, AioPlaces

\* Whoever is past the counting of its use is counted.
LEMMA Counted ==
    ASSUME SInv, NEW t \in Threads, NEW c \in Chunks, NEW m \in loaded[t][c],
           ~Entering(t, c, m)
    PROVE  useCnt[c] > 0
  <1>1. m \in {"R", "W"} /\ <<t, m>> \in Holders(c)
    BY DEF SInv, IInv, UsesInv, UsesTyped, Holders
  <1>2. Cardinality(Holders(c)) # 0
    BY <1>1, HoldersFinite, FS_EmptySet
  <1>3. useCnt[c] = Cardinality(Holders(c)) /\ Cardinality(Holders(c)) \in Nat
    BY HoldersFinite DEF SInv, IInv, UsesInv, UseCntExact
  <1> QED BY <1>2, <1>3

\* So is whoever waits for space or for its chunk in setUse.
LEMMA WaitersCounted ==
    ASSUME SInv, NEW t \in Threads, Busy(t), call[t].op \in UseOps,
           Place(t) \in SpacePlaces \cup {"waitIn", "waitOut"}
    PROVE  call[t].chunk \in Chunks /\ useCnt[call[t].chunk] > 0
  <1>1. call[t].chunk \in Chunks
    BY DEF SInv, IInv, ControlInv, PlaceOK, Busy, UseOps
  <1>2. pc[t] \notin UseOps \cup {"lock"}
    BY DEF Place, SpacePlaces, EvictPlaces, AioPlaces, UseOps
  <1>3. PICK m \in {"R", "W"} : m \in loaded[t][call[t].chunk]
    BY DEF SInv, IInv, UsesInv, FlagOK, Busy, UseOps
  <1> QED BY <1>1, <1>2, <1>3, Counted DEF Entering
-----------------------------------------------------------------------------
(* What a step does keeps ThreadInv *)

\* The mutex.
LEMMA MutexKept ==
    ASSUME SInv, NEW p \in Procs, Moves(p), Runs(p)
    PROVE  MutexOK'
  <1>1. ASSUME NEW q \in Procs, q # p
        PROVE  pc'[q] \notin Holding /\ mutex' # q
    <2>1. mutex' \in {p, None}
      BY DEF Runs
    <2> QED BY <1>1, <2>1, OthersOut
  <1>2. pc'[p] \in Holding <=> mutex' = p
    BY DEF Runs
  <1> QED BY <1>1, <1>2 DEF MutexOK, Holding, Waits

\* What is asked for, and being alone with a chunk.
LEMMA AloneKept ==
    ASSUME SInv, NEW p \in Procs, Moves(p), Runs(p)
    PROVE  RequestOK' /\ AloneOK'
  <1>1. ASSUME NEW t \in Threads, (Busy(t))'
        PROVE  /\ Busy(t) /\ call'[t].chunk = call[t].chunk
               /\ call'[t].op = call[t].op \/ call'[t].op = "unsetUse"
    BY <1>1, OthersOut, OwnCall DEF Procs
  <1>2. RequestOK /\ AloneOK
    BY DEF SInv, ThreadInv
  <1> QED BY <1>1, <1>2 DEF RequestOK, AloneOK

\* Nobody else has to do with a chunk that is made or freed.
LEMMA Alone ==
    ASSUME SInv, NEW p \in Threads, Busy(p), call[p].op \in {"mmalloc", "mfree"},
           NEW t \in Threads, Busy(t), call[t].chunk = call[p].chunk
    PROVE  t = p
  BY DEF SInv, ThreadInv, AloneOK

\* Chunks that calls and pointers need are not freed, and those that are made did not
\* exist.
LEMMA AliveKept ==
    ASSUME SInv, NEW p \in Procs, Does(p)
    PROVE  AliveOK'
  <1>1. ASSUME NEW t \in Threads, (Busy(t))'
        PROVE  /\ Busy(t) /\ call'[t].chunk = call[t].chunk /\ t \in Procs
               /\ \/ call'[t].op = call[t].op
                  \/ call'[t].op = "unsetUse" /\ call[t].op \in UseOps
    BY <1>1, OthersOut, OwnCall DEF Procs, Does
  <1>2. Busy(p) /\ AliveOK /\ Flow(p)
    BY DEF Does, Moves, Busy, SInv, ThreadInv
  <1>3. ASSUME NEW d \in Chunks, status[d] # "NONE", status'[d] = "NONE"
        PROVE  p \in Threads /\ Freeing(p, d)
    BY <1>2, <1>3 DEF Flow, Making, Granting, Releasing, Unloading, Reading, Arriving, InUse
  <1>4. ASSUME NEW d \in Chunks, status[d] = "NONE", status'[d] # "NONE"
        PROVE  p \in Threads /\ Making(p, d)
    BY <1>2, <1>4 DEF Flow, Freeing, Granting, Releasing, Unloading, Reading, Arriving, Allocated,
          Unused, InUse
  <1>5. ASSUME NEW t \in Threads, (Busy(t))', call'[t].op = "mmalloc"
        PROVE  status'[call'[t].chunk] = "NONE"
    <2>1. Busy(t) /\ call[t].op = "mmalloc" /\ call'[t].chunk = call[t].chunk
      BY <1>1, <1>5 DEF UseOps
    <2>2. call[t].chunk \in Chunks /\ status[call[t].chunk] = "NONE"
      BY <1>2, <2>1 DEF AliveOK, SInv, IInv, ControlInv, PlaceOK, Busy
    <2>3. ~(p \in Threads /\ Making(p, call[t].chunk))
      BY <1>2, <1>5, <2>1, Alone DEF Making, Busy
    <2> QED BY <1>4, <2>1, <2>2, <2>3
  <1>6. ASSUME NEW t \in Threads, (Busy(t))', call'[t].op \in BringIn \cup {"unsetUse", "mfree"}
        PROVE  status'[call'[t].chunk] # "NONE"
    <2>1. /\ Busy(t) /\ call[t].op \in BringIn \cup {"unsetUse", "mfree"}
          /\ call'[t].chunk = call[t].chunk
      BY <1>1, <1>6 DEF BringIn
    <2>2. call[t].chunk \in Chunks /\ status[call[t].chunk] # "NONE"
      BY <1>2, <2>1 DEF AliveOK, SInv, IInv, ControlInv, PlaceOK, Busy, BringIn, UseOps
    <2>3. ~(p \in Threads /\ Freeing(p, call[t].chunk))
      BY <1>2, <1>6, <2>1, Alone DEF Freeing, Busy
    <2> QED BY <1>3, <2>1, <2>2, <2>3
  <1>7. ASSUME NEW t \in Threads, NEW c \in Chunks, loaded'[t][c] # {}
        PROVE  status'[c] # "NONE"
    <2>1. loaded[t][c] # {}
      BY <1>7 DEF Does, Uses, SInv, IInv, UsesInv, UsesTyped
    <2>2. status[c] # "NONE"
      BY <1>2, <2>1 DEF AliveOK
    <2>3. ~(p \in Threads /\ Freeing(p, c))
      BY <1>2, <2>1 DEF Freeing, SInv, IInv, UsesInv, FreeOK, Busy
    <2> QED BY <1>3, <2>2, <2>3
  <1> QED BY <1>5, <1>6, <1>7 DEF AliveOK

\* A thread that is at a place inside its call is still in that call.
LEMMA StaysInside ==
    ASSUME SInv, NEW p \in Procs, Moves(p), Runs(p), NEW t \in Threads,
           (Place(t))' \notin {"idle", "lock", "stuck"}
    PROVE  /\ t \in Procs /\ (Busy(t))' /\ Busy(t)
           /\ call'[t].op = call[t].op /\ call'[t].chunk = call[t].chunk
           /\ t # p => Place(t) = (Place(t))'
  <1>1. t \in Procs /\ (Busy(t))' /\ pc'[t] # "lock"
    BY DEF Place, AioPlaces, Busy, Procs
  <1> QED BY <1>1, OthersOut, OwnCall

\* A chunk is unloaded when nobody uses it.
LEMMA UnloadedUnused ==
    ASSUME SInv, NEW p \in Threads, NEW d \in Chunks, Unloading(p, d)
    PROVE  useCnt[d] = 0
  BY DEF Unloading, SInv, ThreadInv, VictimsOK, Chosen

\* Room is made for a chunk that nobody unloads meanwhile.
LEMMA WantedKept ==
    ASSUME SInv, NoRace, NEW p \in Procs, Does(p)
    PROVE  WantedOK'
  <1>0. /\ Busy(p) /\ WantedOK /\ Flow(p) /\ Runs(p) /\ Moves(p) /\ AliveOK /\ RequestOK
    BY DEF Does, Moves, Busy, SInv, ThreadInv
  <1>1. ASSUME NEW t \in Threads, (Busy(t))', (Place(t))' \in SpacePlaces,
               call'[t].op \in BringIn
        PROVE  /\ call'[t].op \in UseOps => status'[call'[t].chunk] # "SWAPOUT"
               /\ call'[t].op = "prepareUse" => status'[call'[t].chunk] = "SWAPPED"
    <2>1. /\ t \in Procs /\ Busy(t)
          /\ call'[t].op = call[t].op /\ call'[t].chunk = call[t].chunk
          /\ t # p => Place(t) = (Place(t))'
      BY <1>0, <1>1, StaysInside DEF SpacePlaces, EvictPlaces
    <2>2. PICK c \in Chunks : c = call[t].chunk
      BY <1>1, <2>1 DEF SInv, IInv, ControlInv, PlaceOK, Busy, BringIn, UseOps
    <2>3. CASE t = p /\ Place(t) \notin SpacePlaces
      <3>1. status[c] = "SWAPPED" /\ status' = status
        BY <1>0, <1>1, <2>1, <2>2, <2>3 DEF Runs
      <3> QED BY <2>1, <2>2, <3>1
    <2>4. CASE Place(t) \in SpacePlaces /\ call[t].op \in UseOps
      <3>1. status[c] # "SWAPOUT" /\ useCnt[c] > 0
        BY <1>0, <2>1, <2>2, <2>4, WaitersCounted DEF WantedOK
      <3>2. status'[c] = "SWAPOUT" => p \in Threads /\ Unloading(p, c)
        BY <1>0, <3>1 DEF Flow, Making, Granting, Releasing, Reading, Arriving, Freeing, InUse
      <3> QED BY <2>1, <2>2, <2>4, <3>1, <3>2, UnloadedUnused DEF UseOps
    <2>5. CASE Place(t) \in SpacePlaces /\ call[t].op = "prepareUse"
      <3>1. status[c] = "SWAPPED" /\ \A u \in Threads : u = t
        BY <1>0, <2>1, <2>2, <2>5 DEF WantedOK, RequestOK, NoRace
      <3>2. status'[c] # "SWAPPED" => p = t /\ pc'[p] = "idle"
        BY <1>0, <2>5, <3>1 DEF Flow, Making, Granting, Releasing, Unloading, Reading, Arriving,
              Freeing, UseOps, Allocated, Unused, InUse
      <3> QED BY <1>1, <2>1, <2>2, <2>5, <3>1, <3>2 DEF UseOps, Busy
    <2> QED BY <1>1, <2>1, <2>3, <2>4, <2>5 DEF BringIn
  <1> QED BY <1>1 DEF WantedOK, BringIn

\* A chunk that is being freed is not read in, and keeps out of the ring.
LEMMA FreeingKept ==
    ASSUME SInv, NEW p \in Procs, Does(p)
    PROVE  FreeingOK'
  <1>0. Busy(p) /\ FreeingOK /\ Flow(p) /\ Runs(p) /\ Moves(p) /\ Turn(p)
    BY DEF Does, Moves, Busy, SInv, ThreadInv
  <1>1. ASSUME NEW t \in Threads, (Busy(t))', call'[t].op = "mfree"
        PROVE  /\ status'[call'[t].chunk] # "SWAPIN"
               /\ (Place(t))' = "pffree" => /\ status'[call'[t].chunk] \in {"SWAPOUT", "SWAPPED"}
                                            /\ call'[t].chunk \notin ring'
    <2>1. /\ t \in Procs /\ Busy(t) /\ call[t].op = "mfree" /\ call'[t].chunk = call[t].chunk
          /\ t # p => Place(t) = (Place(t))'
      BY <1>0, <1>1, OthersOut, OwnCall DEF Procs
    <2>2. PICK c \in Chunks : c = call[t].chunk
      BY <2>1 DEF SInv, IInv, ControlInv, PlaceOK, Busy
    <2>3. status[c] # "SWAPIN"
      BY <2>1, <2>2, <1>0 DEF FreeingOK
    <2>4. p \in Threads /\ p # t => call[p].chunk # c
      BY <1>0, <2>1, <2>2, Alone
    <2>5. status'[c] # "SWAPIN"
      BY <1>0, <2>1, <2>3, <2>4 DEF Flow, Making, Granting, Releasing, Unloading, Reading,
            Arriving, Freeing, InUse, BringIn, UseOps
    <2>6. ASSUME (Place(t))' = "pffree", ~(t = p /\ Place(t) # "pffree")
          PROVE  status'[c] \in {"SWAPOUT", "SWAPPED"} /\ c \notin ring'
      <3>1. Place(t) = "pffree" /\ status[c] \in {"SWAPOUT", "SWAPPED"} /\ c \notin ring
        BY <1>0, <2>1, <2>2, <2>6 DEF FreeingOK
      <3>2. c \notin ring'
        BY <1>0, <2>1, <2>2, <2>4, <3>1 DEF Turn
      <3>3. pc'[t] # "idle"
        BY <2>6 DEF Place, AioPlaces
      <3> QED BY <1>0, <2>1, <2>2, <2>3, <2>4, <2>5, <3>1, <3>2, <3>3 DEF Flow, Making, Granting,
                Releasing, Unloading, Reading, Arriving, Freeing, InUse, BringIn, UseOps,
                Allocated, Unused
    <2>7. ASSUME (Place(t))' = "pffree", t = p /\ Place(t) # "pffree"
          PROVE  status'[c] \in {"SWAPOUT", "SWAPPED"} /\ c \notin ring'
      BY <1>0, <2>2, <2>7 DEF Runs
    <2> QED BY <2>1, <2>2, <2>5, <2>6, <2>7
  <1> QED BY <1>1 DEF FreeingOK

\* Without prefetching, whoever asked for a chunk stays until it is there.
LEMMA ReaderKept ==
    ASSUME SInv, NEW p \in Procs, Does(p)
    PROVE  ReaderOK'
  <1>0. Busy(p) /\ ReaderOK /\ RequestOK /\ Flow(p) /\ Runs(p) /\ Moves(p)
    BY DEF Does, Moves, Busy, SInv, ThreadInv
  <1>1. ASSUME NEW c \in Chunks, ~Prefetch, status'[c] = "SWAPIN"
        PROVE  \E t \in Threads : /\ (Busy(t))' /\ call'[t].op \in UseOps
                                  /\ call'[t].chunk = c /\ (Place(t))' = "waitIn"
    <2>1. CASE status[c] = "SWAPIN"
      <3>1. PICK t \in Threads : /\ Busy(t) /\ call[t].op \in UseOps
                                 /\ call[t].chunk = c /\ Place(t) = "waitIn"
        BY <1>0, <1>1, <2>1 DEF ReaderOK
      <3>2. t \in Procs
        BY DEF Procs
      <3>3. (Place(t))' = "waitIn"
        BY <1>0, <2>1, <3>1, <3>2, OthersOut DEF Runs, Place
      <3> QED BY <1>0, <3>1, <3>3, StaysInside
    <2>2. CASE status[c] # "SWAPIN"
      <3>1. p \in Threads /\ Reading(p, c)
        BY <1>0, <1>1, <2>2 DEF Flow, Making, Granting, Releasing, Unloading, Arriving, Freeing,
              InUse
      <3>2. call[p].op \in UseOps /\ call[p].chunk = c /\ pc'[p] = "waitIn"
        BY <1>0, <1>1, <3>1 DEF Reading, RequestOK, BringIn
      <3>3. (Place(p))' = "waitIn"
        BY <3>2 DEF Place, AioPlaces
      <3> QED BY <1>0, <3>1, <3>2, <3>3, StaysInside
    <2> QED BY <2>1, <2>2
  <1> QED BY <1>1 DEF ReaderOK

\* An unsetUse that looks for something to unload has cleared its flags.
LEMMA ReleasedKept ==
    ASSUME SInv, NEW p \in Procs, Does(p)
    PROVE  ReleasedOK'
  <1>0. ReleasedOK /\ Runs(p) /\ Moves(p) /\ Uses(p)
    BY DEF Does, SInv, ThreadInv
  <1>1. ASSUME NEW t \in Threads, call'[t].op = "unsetUse", (Place(t))' \in EvictPlaces
        PROVE  loaded'[t][call'[t].chunk] = {}
    <2>1. /\ t \in Procs /\ Busy(t) /\ call[t].op = "unsetUse" /\ call'[t].chunk = call[t].chunk
          /\ t # p => Place(t) = (Place(t))'
      BY <1>0, <1>1, StaysInside DEF EvictPlaces
    <2>2. PICK c \in Chunks : c = call[t].chunk
      BY <2>1 DEF SInv, IInv, ControlInv, PlaceOK, Busy
    <2>3. CASE Place(t) \in EvictPlaces
      <3>1. loaded[t][c] = {}
        BY <1>0, <2>1, <2>2, <2>3 DEF ReleasedOK
      <3> QED BY <1>0, <2>1, <2>2, <3>1 DEF Uses, SInv, IInv, UsesInv, UsesTyped
    <2>4. CASE Place(t) \notin EvictPlaces
      <3>1. t = p /\ pc[t] \notin {"lock", "stuck"}
        BY <1>0, <1>1, <2>1, <2>4 DEF Runs
      <3>2. pc[t] = "unsetUse"
        BY <2>1, <2>4, <3>1, PlaceOfCall DEF Inside, UseOps
      <3> QED BY <1>0, <2>1, <3>1, <3>2 DEF Runs
    <2> QED BY <2>3, <2>4
  <1> QED BY <1>1 DEF ReleasedOK

\* The scheduler knows chunks that exist.
LEMMA RingKept ==
    ASSUME SInv, NEW p \in Procs, Does(p)
    PROVE  RingOK'
  <1>1. RingOK /\ Flow(p) /\ Turn(p) /\ status \in [Chunks -> Statuses] /\ ring \subseteq Chunks
    BY DEF Does, SInv, ThreadInv, IInv, DataTyped
  <1>2. ASSUME NEW c \in ring'
        PROVE  c \in Chunks /\ status'[c] # "NONE"
    <2>1. CASE c \notin ring
      BY <1>1, <2>1 DEF Turn, Making, Does, Moves, SInv, IInv, ControlInv, PlaceOK
    <2>2. CASE c \in ring
      <3>1. c \in Chunks /\ status[c] # "NONE"
        BY <1>1, <2>2 DEF RingOK, memChunks
      <3>2. status'[c] = "NONE" => Freeing(p, c)
        BY <1>1, <3>1 DEF Flow, Making, Granting, Releasing, Unloading, Reading, Arriving, InUse
      <3> QED BY <3>1, <3>2 DEF Freeing
    <2> QED BY <2>1, <2>2
  <1> QED BY <1>2 DEF RingOK, memChunks
-----------------------------------------------------------------------------
(* Pointers *)

\* Whoever may use a pointer is counted.
LEMMA GrantedCounted ==
    ASSUME SInv, NEW t \in Threads, NEW c \in Chunks, Granted(t, c) # {}
    PROVE  useCnt[c] > 0 /\ loaded[t][c] # {}
  <1>1. PICK m : m \in Granted(t, c)
    OBVIOUS
  <1>2. m \in loaded[t][c] /\ m \in {"R", "W"}
    BY <1>1 DEF Granted, SInv, IInv, UsesInv, UsesTyped
  <1>3. ~Entering(t, c, m)
    BY <1>1, <1>2 DEF Granted, Entering, UseOps
  <1> QED BY <1>2, <1>3, Counted

\* The same after a step that keeps the counts right.
LEMMA GrantedCountedNext ==
    ASSUME UsesInv', NEW t \in Threads, NEW c \in Chunks, (Granted(t, c))' # {}
    PROVE  useCnt'[c] > 0
  <1>1. PICK m : m \in (Granted(t, c))'
    OBVIOUS
  <1>2. m \in loaded'[t][c] /\ m \in {"R", "W"}
    BY <1>1 DEF Granted, UsesInv, UsesTyped
  <1>3. ~(Entering(t, c, m))'
    BY <1>1, <1>2 DEF Granted, Entering, UseOps
  <1>4. <<t, m>> \in Holders(c)'
    BY <1>2, <1>3 DEF Holders
  <1>5. Cardinality(Holders(c)') # 0
    BY <1>4, HoldersFinite, FS_EmptySet
  <1> QED BY <1>4, <1>5, HoldersFinite DEF UsesInv, UseCntExact

\* Inside the manager a pointer is given out by setUse only.
LEMMA GrantedKept ==
    ASSUME SInv, NEW p \in Procs, Does(p), NEW t \in Threads, NEW c \in Chunks,
           NEW m \in (Granted(t, c))'
    PROVE  m \in Granted(t, c) \/ (t = p /\ Granting(p, c))
  <1>0. /\ Uses(p) /\ Runs(p) /\ Moves(p) /\ Effect(p) /\ ReleasedOK /\ Busy(p)
        /\ t \in Procs
    BY DEF Does, SInv, ThreadInv, Moves, Busy, Procs
  <1>1. /\ m \in loaded'[t][c] /\ m \in loaded[t][c]
    BY <1>0 DEF Granted, Uses, SInv, IInv, UsesInv, UsesTyped
  <1>2. CASE t # p
    BY <1>0, <1>1, <1>2, OthersOut DEF Granted, Busy
  <1>3. CASE t = p /\ (Busy(p))'
    BY <1>0, <1>1, <1>3, OwnCall DEF Granted, Busy, UseOps
  <1>4. CASE t = p /\ ~(Busy(p))'
    <2>1. CASE call[p].chunk # c
      BY <1>1, <1>4, <2>1 DEF Granted
    <2>2. CASE call[p].chunk = c /\ call[p].op \in UseOps
      BY <1>0, <1>4, <2>2 DEF Effect, Busy
    <2>3. CASE call[p].chunk = c /\ call[p].op = "unsetUse"
      <3>1. pc[p] \notin {"lock", "stuck"}
        BY <1>0 DEF Runs
      <3>2. Place(p) \in EvictPlaces \cup {"unsetUse"}
        BY <1>0, <1>4, <2>3, <3>1, PlaceOfCall DEF Inside, UseOps
      <3>3. loaded'[p][c] = {} \/ loaded[p][c] = {}
        BY <1>0, <1>4, <2>3, <3>1, <3>2, PlaceOfCall DEF Runs, ReleasedOK, EvictPlaces
      <3> QED BY <1>1, <1>4, <3>3
    <2>4. CASE call[p].chunk = c /\ call[p].op \notin UseOps \cup {"unsetUse"}
      BY <1>0, <1>1, <1>4, <2>4 DEF Granted, UseOps
    <2> QED BY <2>1, <2>2, <2>3, <2>4
  <1> QED BY <1>2, <1>3, <1>4 

\* Pointers stay pointers into loaded memory.
LEMMA ProtectsKept ==
    ASSUME SInv, NEW p \in Procs, Does(p), UsesInv'
    PROVE  UseProtects'
  <1>0. /\ Flow(p) /\ Effect(p) /\ Busy(p) /\ UseProtects
        /\ AliveOK
    BY DEF Does, SInv, ThreadInv, Moves, Busy
  <1>1. ASSUME NEW t \in Threads, NEW c \in Chunks, (Granted(t, c))' # {}
        PROVE  status'[c] \in InUse
    <2>1. CASE Granting(p, c)
      BY <2>1 DEF Granting
    <2>2. CASE ~Granting(p, c)
      <3>1. Granted(t, c) # {}
        BY <1>1, <2>2, GrantedKept
      <3>2. status[c] \in InUse /\ useCnt[c] > 0 /\ loaded[t][c] # {} /\ useCnt'[c] > 0
        BY <1>0, <1>1, <3>1, GrantedCounted, GrantedCountedNext DEF UseProtects
      <3>3. p \in Threads => ~Freeing(p, c) /\ ~Making(p, c)
        BY <1>0, <3>2 DEF Freeing, Making, SInv, IInv, UsesInv, FreeOK, Busy, AliveOK, InUse
      <3>4. p \in Threads => ~Releasing(p, c) /\ ~Unloading(p, c)
        BY <3>2, UnloadedUnused DEF Releasing
      <3> QED BY <1>0, <2>2, <3>2, <3>3, <3>4 DEF Flow, Reading, Arriving, InUse
    <2> QED BY <2>1, <2>2
  <1>2. ASSUME NEW t \in Threads, NEW c \in Chunks, "W" \in (Granted(t, c))'
        PROVE  ~swapBuf'[c]
    <2>1. CASE "W" \in Granted(t, c)
      <3>1. ~swapBuf[c] /\ useCnt[c] > 0
        BY <1>0, <2>1, GrantedCounted DEF UseProtects
      <3>2. p \in Threads => ~Unloading(p, c)
        BY <3>1, UnloadedUnused
      <3> QED BY <1>0, <3>1, <3>2 DEF Effect
    <2>2. CASE "W" \notin Granted(t, c)
      <3>1. t = p /\ Granting(p, c) /\ (Granted(p, c))' = loaded'[p][c]
        BY <1>2, <2>2, GrantedKept DEF Granting, Granted
      <3>2. CASE call[p].op = "writeUse"
        BY <3>1, <3>2 DEF Granting
      <3>3. CASE call[p].op = "readUse"
        <4>1. "W" \in loaded[p][c]
          BY <1>2, <3>1 DEF Does, Uses, SInv, IInv, UsesInv, UsesTyped
        <4> QED BY <2>2, <3>1, <3>3, <4>1 DEF Granted, Granting
      <3> QED BY <3>1, <3>2, <3>3 DEF Granting, UseOps
    <2> QED BY <2>1, <2>2
  <1> QED BY <1>1, <1>2 DEF UseProtects

\* A step inside the manager keeps threads and pointers right, if it keeps its own list of
\* victims.
LEMMA ThreadKept ==
    ASSUME SInv, NoRace, NEW p \in Procs, Does(p), UsesInv', p \in Threads => (Chosen(p))'
    PROVE  ThreadInv' /\ UseProtects'
  <1>1. Moves(p) /\ Runs(p)
    BY DEF Does
  <1>2. VictimsOK'
    <2>1. ASSUME NEW t \in Threads, t # p
          PROVE  (Chosen(t))'
      BY <1>1, <2>1, OthersOut, HoldingPlaces DEF Chosen, Procs, EvictPlaces
    <2> QED BY <2>1 DEF VictimsOK
  <1>3. MutexOK' /\ RequestOK' /\ AloneOK' /\ AliveOK'
    BY <1>1, MutexKept, AloneKept, AliveKept
  <1>4. WantedOK' /\ FreeingOK' /\ ReaderOK' /\ ReleasedOK' /\ RingOK' /\ UseProtects'
    BY WantedKept, FreeingKept, ReaderKept, ReleasedKept, RingKept, ProtectsKept
  <1> QED BY <1>2, <1>3, <1>4 DEF ThreadInv
-----------------------------------------------------------------------------
(* What the steps of the manager do to contents *)

\* A step that concerns no content.
LEMMA ContentSame ==
    ASSUME ContentInv, UNCHANGED <<status, swapBuf, ram, disk, reading, writing>>,
           got' \subseteq got \/ got' \subseteq InFlight
    PROVE  ContentInv'
  BY DEF ContentInv, TransferMatchesStatus, InFlight, PlacedOK, CopyCoherent, Cached

\* Page copies of chunks in memory can be dropped.
LEMMA ContentDropped ==
    ASSUME SInv, NEW D \in SUBSET Cached, DropCopies(D),
           UNCHANGED <<status, ram, reading, writing, got>>
    PROVE  ContentInv'
  <1>1. \A c \in Chunks : swapBuf'[c] => swapBuf[c] /\ disk'[c] = disk[c]
    BY DEF DropCopies
  <1>2. \A c \in Chunks : status[c] \notin Allocated => swapBuf'[c] = swapBuf[c] /\ disk'[c] = disk[c]
    BY DEF DropCopies, Cached, SInv, IInv, DataTyped
  <1>3. PlacedOK'
    BY <1>1, <1>2 DEF SInv, ContentInv, PlacedOK, Allocated, Unused, InUse
  <1>4. CopyCoherent'
    BY <1>1 DEF SInv, ContentInv, CopyCoherent, Cached
  <1> QED BY <1>3, <1>4 DEF SInv, ContentInv, TransferMatchesStatus, InFlight

\* A chunk whose page copy is valid is unloaded without being written.
LEMMA ContentUnloaded ==
    ASSUME SInv, NEW t \in Threads, NEW c \in Chunks, UnloadCached(t, c)
    PROVE  ContentInv'
  <1>1. /\ status' = [status EXCEPT ![c] = "SWAPPED"] /\ ram' = [ram EXCEPT ![c] = None]
        /\ UNCHANGED <<swapBuf, disk, reading, writing, got>>
        /\ status[c] \in Allocated /\ c \in Cached
    BY DEF UnloadCached, Cached
  <1>2. disk[c] # None
    BY <1>1 DEF SInv, ContentInv, CopyCoherent
  <1>3. /\ status \in [Chunks -> Statuses] /\ ram \in [Chunks -> Vals \cup {None}]
        /\ TransferMatchesStatus /\ got \subseteq InFlight /\ PlacedOK /\ CopyCoherent
    BY DEF SInv, IInv, DataTyped, ContentInv
  <1>4. TransferMatchesStatus' /\ got' \subseteq InFlight'
    BY <1>1, <1>3 DEF TransferMatchesStatus, InFlight, Allocated, Unused, InUse
  <1>5. PlacedOK'
    BY <1>1, <1>2, <1>3 DEF PlacedOK, Cached, Allocated, Unused, InUse
  <1>6. CopyCoherent'
    BY <1>1, <1>3 DEF CopyCoherent, Cached, Allocated, Unused, InUse
  <1> QED BY <1>4, <1>5, <1>6 DEF ContentInv

\* A chunk without a page copy is written, at the expense of some page copies.
LEMMA ContentWritten ==
    ASSUME SInv, NEW c \in Chunks, NEW D \in SUBSET Cached, ScheduleWrite(c, D),
           status[c] \in Allocated
    PROVE  ContentInv'
  <1>1. /\ status' = [status EXCEPT ![c] = "SWAPOUT"] /\ writing' = writing \cup {c}
        /\ UNCHANGED <<ram, reading, got>>
        /\ \A d \in Chunks : swapBuf'[d] <=> d = c \/ (swapBuf[d] /\ d \notin D)
        /\ \A d \in Chunks : d \notin D => disk'[d] = disk[d]
    BY DEF ScheduleWrite
  <1>2. /\ status \in [Chunks -> Statuses]
        /\ TransferMatchesStatus /\ got \subseteq InFlight /\ PlacedOK /\ CopyCoherent
    BY DEF SInv, IInv, DataTyped, ContentInv
  <1>3. TransferMatchesStatus' /\ got' \subseteq InFlight'
    BY <1>1, <1>2 DEF TransferMatchesStatus, InFlight, Allocated, Unused, InUse
  <1>4. \A d \in D : status[d] \in Allocated
    BY DEF Cached
  <1>5. PlacedOK'
    BY <1>1, <1>2, <1>4 DEF PlacedOK, Allocated, Unused, InUse
  <1>6. CopyCoherent'
    BY <1>1, <1>2 DEF CopyCoherent, Cached, Allocated, Unused, InUse
  <1> QED BY <1>3, <1>5, <1>6 DEF ContentInv

\* The search for victims and their unloading.
LEMMA EvictContent ==
    ASSUME SInv, NEW t \in Threads, Evict(t)
    PROVE  ContentInv'
  <1>0. ContentInv /\ \A n : Cleanups(n) \subseteq SUBSET Cached
    BY DEF SInv, Cleanups
  <1>1. CASE EvictNothing(t) \/ EvictSelect(t) \/ UnloadDone(t)
    BY <1>0, <1>1, ContentSame DEF EvictNothing, EvictSelect, UnloadDone
  <1>2. CASE EvictSwapFull(t)
    BY <1>0, <1>2, ContentDropped DEF EvictSwapFull
  <1>3. ASSUME NEW c \in Chunks, UnloadNot(t, c)
        PROVE  ContentInv'
    BY <1>0, <1>3, ContentSame DEF UnloadNot
  <1>4. ASSUME NEW c \in Chunks, UnloadWrite(t, c)
        PROVE  ContentInv'
    <2>1. CASE ScheduleWrite(c, {})
      BY <1>4, <2>1, ContentWritten DEF UnloadWrite
    <2>2. ASSUME NEW D \in SUBSET Cached, ScheduleWrite(c, D)
          PROVE  ContentInv'
      BY <1>4, <2>2, ContentWritten DEF UnloadWrite
    <2>3. ASSUME NEW D \in SUBSET Cached, DropCopies(D), UNCHANGED <<status, ram, ioVars>>
          PROVE  ContentInv'
      BY <2>3, ContentDropped
    <2> QED BY <1>0, <1>4, <2>1, <2>2, <2>3 DEF UnloadWrite
  <1> QED BY <1>1, <1>2, <1>3, <1>4, ContentUnloaded DEF Evict

\* What the invariant says of one status.
LEMMA ContentFacts ==
    ASSUME SInv
    PROVE  /\ status \in [Chunks -> Statuses] /\ swapBuf \in [Chunks -> BOOLEAN]
           /\ ram \in [Chunks -> Vals \cup {None}] /\ disk \in [Chunks -> Vals \cup {None}]
           /\ TransferMatchesStatus /\ got \subseteq InFlight /\ PlacedOK /\ CopyCoherent
  BY DEF SInv, IInv, DataTyped, ContentInv

\* The status of a chunk for which somebody makes room without finding it present.
LEMMA SpaceStatus ==
    ASSUME SInv, NEW t \in Threads, pc[t] \in {"space", "evicted"}, call[t].op \in SpaceOps
    PROVE  /\ call[t].chunk \in Chunks
           /\ call[t].op = "mmalloc" => status[call[t].chunk] = "NONE"
           /\ call[t].op # "mmalloc" => /\ call[t].op \in BringIn
                                        /\ status[call[t].chunk] \in Allocated \cup {"SWAPIN", "SWAPPED"}
  <1>1. Busy(t) /\ call[t].chunk \in Chunks /\ Place(t) \in SpacePlaces
    BY DEF Busy, SInv, IInv, ControlInv, PlaceOK, SpaceOps, UseOps, Place, AioPlaces, SpacePlaces,
           EvictPlaces
  <1>2. AliveOK /\ WantedOK
    BY DEF SInv, ThreadInv
  <1> QED BY <1>1, <1>2, ContentFacts DEF AliveOK, WantedOK, BringIn, SpaceOps, UseOps, Statuses

\* A chunk is made.
LEMMA ContentMade ==
    ASSUME SInv, NEW t \in Threads, NEW c \in Chunks, Allocate(t, c), status[c] = "NONE"
    PROVE  ContentInv'
  <1>1. PICK v \in Vals : ram' = [ram EXCEPT ![c] = v]
    BY DEF Allocate
  <1>2. /\ status' = [status EXCEPT ![c] = "ALLOCATED"]
        /\ UNCHANGED <<swapBuf, disk, reading, writing, got>> /\ v # None
    BY DEF Allocate
  <1>3. TransferMatchesStatus' /\ got' \subseteq InFlight'
    BY <1>2, ContentFacts DEF TransferMatchesStatus, InFlight
  <1>4. PlacedOK'
    BY <1>1, <1>2, ContentFacts DEF PlacedOK, Allocated, Unused, InUse
  <1>5. CopyCoherent'
    BY <1>1, <1>2, ContentFacts DEF CopyCoherent, PlacedOK, Cached, Allocated, Unused, InUse
  <1> QED BY <1>3, <1>4, <1>5 DEF ContentInv

\* A chunk is read.
LEMMA ContentRead ==
    ASSUME SInv, NEW t \in Threads, NEW c \in Chunks, ScheduleRead(t, c), status[c] = "SWAPPED"
    PROVE  ContentInv'
  <1>1. /\ status' = [status EXCEPT ![c] = "SWAPIN"] /\ ram' = [ram EXCEPT ![c] = None]
        /\ reading' = reading \cup {c}
        /\ UNCHANGED <<swapBuf, disk, writing, got>>
    BY DEF ScheduleRead
  <1>3. TransferMatchesStatus' /\ got' \subseteq InFlight'
    BY <1>1, ContentFacts DEF TransferMatchesStatus, InFlight
  <1>4. PlacedOK'
    BY <1>1, ContentFacts DEF PlacedOK, Allocated, Unused, InUse
  <1>5. CopyCoherent'
    BY <1>1, ContentFacts DEF CopyCoherent, Cached, Allocated, Unused, InUse
  <1> QED BY <1>3, <1>4, <1>5 DEF ContentInv

\* Making room.
LEMMA SpaceContent ==
    ASSUME SInv, NEW t \in Threads, EnsureEnoughSpace(t)
    PROVE  ContentInv'
  <1>0. ContentInv /\ ControlInv
    BY DEF SInv, IInv
  <1>1. CASE SpaceFound(t)
    <2>1. pc[t] = "space" /\ call[t].op \in SpaceOps
      BY <1>0, <1>1, At DEF SpaceFound
    <2>2. CASE call[t].op = "mmalloc"
      BY <1>1, <2>1, <2>2, SpaceStatus, ContentMade DEF SpaceFound
    <2>3. CASE call[t].op # "mmalloc" /\ swapBuf[call[t].chunk]
      <3>1. status[call[t].chunk] = "SWAPPED"
        BY <1>1, <2>1, <2>3, SpaceStatus DEF SpaceFound, Present
      <3> QED BY <1>1, <2>1, <2>3, <3>1, SpaceStatus, ContentRead DEF SpaceFound
    <2>4. CASE call[t].op # "mmalloc" /\ ~swapBuf[call[t].chunk]
      BY <1>0, <1>1, <2>4, ContentSame DEF SpaceFound
    <2> QED BY <2>2, <2>3, <2>4
  <1>2. CASE AlreadyThere(t) \/ SpaceMissing(t) \/ EvictHelped(t) \/ OutOfMemory(t)
    BY <1>0, <1>2, ContentSame DEF AlreadyThere, SpaceMissing, EvictHelped, OutOfMemory
  <1>3. CASE LastResort(t) \/ KeepTrying(t)
    BY <1>3, ContentDropped DEF LastResort, KeepTrying
  <1> QED BY <1>1, <1>2, <1>3 DEF EnsureEnoughSpace

\* A pointer is given out; a writer drops the page copy.
LEMMA ContentGranted ==
    ASSUME SInv, NEW t \in Threads, NEW c \in Chunks, NEW s \in InUse, Grant(t, c, s),
           status[c] \in Allocated, s = "INUSE_WRITE" => status[c] = "INUSE_WRITE"
    PROVE  ContentInv' /\ (call[t].op = "writeUse" => ~swapBuf'[c])
  <1>1. PICK D \in SUBSET {c} :
            /\ DropCopies(D)
            /\ call[t].op = "writeUse" /\ s # "INUSE_WRITE" => D = {c}
    BY DEF Grant, Invalidated
  <1>2. /\ status' = [status EXCEPT ![c] = IF call[t].op = "writeUse" THEN "INUSE_WRITE" ELSE s]
        /\ UNCHANGED <<ram, reading, writing, got>>
    BY DEF Grant
  <1>3. /\ \A d \in Chunks : swapBuf'[d] <=> swapBuf[d] /\ d \notin D
        /\ \A d \in Chunks : d \notin D => disk'[d] = disk[d]
    BY <1>1 DEF DropCopies
  <1>4. call[t].op = "writeUse" \/ s = "INUSE_WRITE" => ~swapBuf'[c]
    BY <1>1, <1>3, ContentFacts DEF PlacedOK
  <1>5. TransferMatchesStatus' /\ got' \subseteq InFlight'
    BY <1>2, ContentFacts DEF TransferMatchesStatus, InFlight, Allocated, Unused, InUse
  <1>6. PlacedOK'
    BY <1>1, <1>2, <1>3, <1>4, ContentFacts DEF PlacedOK, Allocated, Unused, InUse
  <1>7. CopyCoherent'
    BY <1>2, <1>3, ContentFacts DEF CopyCoherent, Cached, Allocated, Unused, InUse
  <1> QED BY <1>4, <1>5, <1>6, <1>7 DEF ContentInv

\* A chunk that is erased has no transfer pending.
LEMMA ContentErased ==
    ASSUME SInv, NEW t \in Threads, NEW c \in Chunks \ InFlight, Erase(t, c),
           UNCHANGED ioVars
    PROVE  ContentInv'
  <1>1. /\ status' = [status EXCEPT ![c] = "NONE"] /\ ram' = [ram EXCEPT ![c] = None]
        /\ \A d \in Chunks : swapBuf'[d] <=> swapBuf[d] /\ d # c
        /\ \A d \in Chunks : d # c => disk'[d] = disk[d]
    BY DEF Erase, DropCopies
  <1>2. TransferMatchesStatus' /\ got' \subseteq InFlight'
    BY <1>1, ContentFacts DEF TransferMatchesStatus, InFlight
  <1>3. PlacedOK'
    BY <1>1, ContentFacts DEF PlacedOK, Allocated, Unused, InUse
  <1>4. CopyCoherent'
    BY <1>1, ContentFacts DEF CopyCoherent, Cached, Allocated, Unused, InUse
  <1> QED BY <1>2, <1>3, <1>4 DEF ContentInv

\* The other operations.
LEMMA CallContent ==
    ASSUME SInv, NEW t \in Threads,
           \/ PrepareUse(t) \/ SetUse(t) \/ WaitForSwapout(t) \/ WaitForSwapin(t)
           \/ UnsetUse(t) \/ Untouched(t) \/ Mfree(t) \/ Pffree(t)
           \/ SetMemoryLimit(t) \/ LimitEvicted(t)
    PROVE  ContentInv'
  <1>0. ContentInv /\ ControlInv
    BY DEF SInv, IInv
  <1>1. CASE PrepareUse(t) \/ WaitForSwapout(t) \/ Untouched(t) \/ SetMemoryLimit(t)
             \/ LimitEvicted(t)
    BY <1>0, <1>1, ContentSame DEF PrepareUse, WaitForSwapout, Untouched, SetMemoryLimit,
          LimitEvicted
  <1>2. CASE SetUse(t)
    <2>1. call[t].chunk \in Chunks
      BY <1>0, <1>2, At DEF SetUse, UseOps
    <2>2. CASE status[call[t].chunk] \in Allocated
      <3>1. PICK s \in InUse : /\ Grant(t, call[t].chunk, s)
                               /\ s = "INUSE_WRITE" => status[call[t].chunk] = "INUSE_WRITE"
        BY <1>2, <2>2 DEF SetUse, Allocated, Unused, InUse
      <3> QED BY <2>1, <2>2, <3>1, ContentGranted
    <2>3. CASE status[call[t].chunk] \notin Allocated
      BY <1>0, <1>2, <2>3, ContentSame DEF SetUse
    <2> QED BY <2>2, <2>3
  <1>3. CASE WaitForSwapin(t)
    <2>1. call[t].chunk \in Chunks
      BY <1>0, <1>3, At DEF WaitForSwapin, UseOps
    <2>2. CASE status[call[t].chunk] \in Allocated
      <3>1. Grant(t, call[t].chunk, "INUSE_READ")
        BY <1>3, <2>2 DEF WaitForSwapin
      <3> QED BY <2>1, <2>2, <3>1, ContentGranted DEF InUse
    <2>3. CASE status[call[t].chunk] \notin Allocated
      BY <1>0, <1>3, <2>3, ContentSame DEF WaitForSwapin
    <2> QED BY <2>2, <2>3
  <1>4. CASE UnsetUse(t)
    <2>1. call[t].chunk \in Chunks
      BY <1>0, <1>4, At DEF UnsetUse, UseOps
    <2>2. /\ UNCHANGED <<swapBuf, ram, disk, reading, writing, got>>
          /\ \/ status' = status
             \/ /\ status[call[t].chunk] \in Allocated
                /\ status' = [status EXCEPT ![call[t].chunk] = "ALLOCATED"]
      BY <1>4, <2>1, ContentFacts DEF UnsetUse
    <2>3. CASE status' = status
      BY <1>0, <2>2, <2>3, ContentSame
    <2>4. CASE /\ status[call[t].chunk] \in Allocated
               /\ status' = [status EXCEPT ![call[t].chunk] = "ALLOCATED"]
      <3>1. TransferMatchesStatus' /\ got' \subseteq InFlight'
        BY <2>1, <2>2, <2>4, ContentFacts DEF TransferMatchesStatus, InFlight, Allocated, Unused,
              InUse
      <3>2. PlacedOK'
        BY <2>1, <2>2, <2>4, ContentFacts DEF PlacedOK, Allocated, Unused, InUse
      <3>3. CopyCoherent'
        BY <2>1, <2>2, <2>4, ContentFacts DEF CopyCoherent, Cached, Allocated, Unused, InUse
      <3> QED BY <3>1, <3>2, <3>3 DEF ContentInv
    <2> QED BY <2>2, <2>3, <2>4
  <1>5. CASE Mfree(t) \/ Pffree(t)
    <2>1. call[t].chunk \in Chunks /\ UNCHANGED ioVars
      BY <1>0, <1>5, At DEF Mfree, Pffree, UseOps
    <2>2. CASE Erase(t, call[t].chunk) /\ call[t].chunk \notin InFlight
      BY <2>1, <2>2, ContentErased
    <2>3. CASE UNCHANGED <<status, swapBuf, ram, disk>>
      BY <1>0, <2>1, <2>3, ContentSame
    <2> QED BY <1>5, <2>2, <2>3 DEF Mfree, Pffree
  <1> QED BY <1>1, <1>2, <1>3, <1>4, <1>5

\* A read has arrived.
LEMMA ContentArrivedIn ==
    ASSUME SInv, NEW p \in Procs, NEW c \in Chunks, Arrived(p, c), status[c] = "SWAPIN"
    PROVE  ContentInv'
  <1>1. /\ \E s \in {"ALLOCATED", "INUSE_READ"} : status' = [status EXCEPT ![c] = s]
        /\ ram' = [ram EXCEPT ![c] = disk[c]]
        /\ reading' = reading \ {c} /\ got' = got \ {c}
        /\ UNCHANGED <<swapBuf, disk, writing>>
    BY DEF Arrived, ReadArrived
  <1>2. disk[c] # None
    BY ContentFacts DEF PlacedOK
  <1>3. TransferMatchesStatus' /\ got' \subseteq InFlight'
    BY <1>1, ContentFacts DEF TransferMatchesStatus, InFlight
  <1>4. PlacedOK'
    BY <1>1, <1>2, ContentFacts DEF PlacedOK, Allocated, Unused, InUse
  <1>5. CopyCoherent'
    BY <1>1, <1>2, ContentFacts DEF CopyCoherent, Cached, Allocated, Unused, InUse
  <1> QED BY <1>3, <1>4, <1>5 DEF ContentInv

\* A write has arrived.
LEMMA ContentArrivedOut ==
    ASSUME SInv, NEW p \in Procs, NEW c \in Chunks, Arrived(p, c), status[c] = "SWAPOUT"
    PROVE  ContentInv'
  <1>1. /\ status' = [status EXCEPT ![c] = "SWAPPED"]
        /\ disk' = [disk EXCEPT ![c] = ram[c]] /\ ram' = [ram EXCEPT ![c] = None]
        /\ writing' = writing \ {c} /\ got' = got \ {c}
        /\ UNCHANGED <<swapBuf, reading>>
    BY DEF Arrived, WriteArrived
  <1>2. ram[c] # None
    BY ContentFacts DEF PlacedOK
  <1>3. TransferMatchesStatus' /\ got' \subseteq InFlight'
    BY <1>1, ContentFacts DEF TransferMatchesStatus, InFlight
  <1>4. PlacedOK'
    BY <1>1, <1>2, ContentFacts DEF PlacedOK, Allocated, Unused, InUse
  <1>5. CopyCoherent'
    BY <1>1, <1>2, ContentFacts DEF CopyCoherent, Cached, Allocated, Unused, InUse
  <1> QED BY <1>3, <1>4, <1>5 DEF ContentInv

\* Whatever arrives is waited for: the check of asyncIoArrived never fails.
LEMMA GotInFlight ==
    ASSUME SInv, NEW c \in got
    PROVE  c \in Chunks /\ status[c] \in {"SWAPIN", "SWAPOUT"}
  BY ContentFacts DEF TransferMatchesStatus, InFlight

\* Collecting transfers.
LEMMA AioContent ==
    ASSUME SInv, NEW p \in Procs, CheckForAIO(p)
    PROVE  ContentInv'
  <1>0. ContentInv
    BY DEF SInv
  <1>1. CASE AioBusy(p) \/ AioNothing(p) \/ AioPoll(p) \/ EventsDone(p) \/ Woken(p)
    BY <1>0, <1>1, ContentSame DEF AioBusy, AioNothing, AioPoll, EventsDone, Woken
  <1>2. CASE AioFetch(p) \/ GetEvents(p)
    <2>1. UNCHANGED <<status, swapBuf, ram, disk, reading, writing>> /\ got' \subseteq InFlight
      BY <1>2 DEF AioFetch, GetEvents
    <2> QED BY <1>0, <2>1, ContentSame
  <1>3. ASSUME NEW c \in Chunks, Arrived(p, c)
        PROVE  ContentInv'
    <2>1. status[c] \in {"SWAPIN", "SWAPOUT"}
      BY <1>3, GotInFlight DEF Arrived
    <2> QED BY <1>3, <2>1, ContentArrivedIn, ContentArrivedOut
  <1> QED BY <1>1, <1>2, <1>3 DEF CheckForAIO
-----------------------------------------------------------------------------
(* What the steps of the manager do to threads *)

\* Going on inside the call, in waitForAIO or not.
LEMMA RunsOn ==
    ASSUME SInv, NEW t \in Threads, pc[t] \in Holding \ (AioPlaces \cup {"stuck"}), NEW l,
           \/ pc'[t] = l /\ l \in Holding \ AioPlaces
           \/ pc'[t] = "aio" /\ call'[t].ret = l,
           mutex' = mutex, call'[t].op = call[t].op,
           call[t].op \in BringIn /\ l \in SpacePlaces /\ pc[t] \notin SpacePlaces
                => status[call[t].chunk] = "SWAPPED" /\ status' = status,
           l = "pffree" /\ pc[t] # "pffree"
                => /\ status[call[t].chunk] = "SWAPOUT" /\ call[t].chunk \notin ring'
                   /\ status' = status,
           pc[t] = "waitIn" /\ status[call[t].chunk] = "SWAPIN" => l = "waitIn",
           pc[t] = "unsetUse" => loaded'[t][call[t].chunk] = {}
    PROVE  Runs(t)
  <1>1. t \in Procs /\ mutex = t
    BY DEF SInv, ThreadInv, MutexOK, Procs
  <1>2. Place(t) = pc[t] /\ (Place(t))' = l /\ pc'[t] \in Holding
    BY HoldingPlaces DEF Place, AioPlaces
  <1>3. pc[t] \notin {"idle", "lock", "stuck"}
    BY HoldingPlaces
  <1> QED BY <1>1, <1>2, <1>3 DEF Runs

\* Leaving the manager.
LEMMA RunsOut ==
    ASSUME SInv, NEW t \in Threads, pc[t] \in Holding \ (AioPlaces \cup {"stuck"}),
           Return(t) \/ SignalAndReturn(t) \/ Throw(t),
           pc[t] = "waitIn" => status[call[t].chunk] # "SWAPIN",
           pc[t] = "unsetUse" => loaded'[t][call[t].chunk] = {}
    PROVE  Runs(t)
  <1>1. t \in Procs /\ mutex = t /\ mutex' = None
    BY DEF SInv, ThreadInv, MutexOK, Procs, Return, SignalAndReturn, Throw, Unlock
  <1>2. pc'[t] \in {"idle", "lock"}
    BY <1>1 DEF Return, SignalAndReturn, Throw, Goto, SignalAndGoto, SInv, IInv, ControlInv,
          ThreadsTyped
  <1>3. (Place(t))' \in {"idle", "lock"} /\ pc'[t] \notin Holding
    BY <1>2, HoldingPlaces DEF Place, AioPlaces
  <1>4. pc[t] \notin {"idle", "lock", "stuck"} /\ t # None
    BY <1>1, HoldingPlaces
  <1> QED BY <1>1, <1>3, <1>4 DEF Runs, SpacePlaces, EvictPlaces

\* Calling waitForAIO is going on.
LEMMA WaitPlaces ==
    ASSUME SInv, NEW t \in Threads, NEW l, Wait(t, l)
    PROVE  pc'[t] = "aio" /\ call'[t].ret = l /\ call'[t].op = call[t].op /\ mutex' = mutex
  <1>1. t \in Procs /\ pc \in [Procs -> PCs] /\ call \in [Procs -> Calls]
    BY DEF Procs, SInv, IInv, ControlInv, ThreadsTyped
  <1> QED BY <1>1 DEF Wait, Goto, Calls

\* Going to a place.
LEMMA GotoPlaces ==
    ASSUME SInv, NEW t \in Threads, NEW l, Goto(t, l) \/ SignalAndGoto(t, l)
    PROVE  pc'[t] = l
  BY DEF Procs, SInv, IInv, ControlInv, ThreadsTyped, Goto, SignalAndGoto

\* A step that leaves states, page copies and the ring alone has no effect on contents.
LEMMA NoEffect ==
    ASSUME NEW t \in Threads, status' = status, ring' = ring,
           \A d \in Chunks : swapBuf'[d] => swapBuf[d],
           pc'[t] # "idle" \/ call[t].op \notin UseOps
    PROVE  Flow(t) /\ Effect(t) /\ Turn(t)
  BY DEF Flow, Effect, Turn

\* The steps of cyclicManagedMemory::swapOut.
LEMMA EvictRuns ==
    ASSUME SInv, NEW t \in Threads, Evict(t)
    PROVE  Runs(t) /\ Flow(t) /\ Effect(t) /\ Turn(t) /\ Uses(t)
  <1>0. /\ pc[t] \in EvictPlaces /\ loaded' = loaded /\ Uses(t) /\ t \in Procs
        /\ pc[t] \in Holding \ (AioPlaces \cup {"stuck"}) /\ pc[t] \in SpacePlaces
    <2>1. pc[t] \in EvictPlaces /\ loaded' = loaded
      BY DEF Evict, EvictNothing, EvictSwapFull, EvictSelect, UnloadDone, UnloadNot,
            UnloadCached, UnloadWrite, ScheduleWrite, NextVictim, EvictPlaces
    <2> QED BY <2>1, HoldingPlaces DEF EvictPlaces, SpacePlaces, AioPlaces, Uses, Procs
  <1>1. CASE EvictNothing(t)
    <2>1. Runs(t)
      BY <1>0, <1>1, RunsOut DEF EvictNothing
    <2>2. pc'[t] # "idle" \/ call[t].op \notin UseOps
      BY <1>1, GotoPlaces DEF EvictNothing, Throw
    <2> QED BY <1>0, <1>1, <2>1, <2>2, NoEffect DEF EvictNothing
  <1>2. ASSUME NEW l \in EvictPlaces \cup {"stuck"}, pc'[t] = l, call' = call, mutex' = mutex
        PROVE  Runs(t) /\ pc'[t] # "idle"
    <2>1. l \in Holding \ AioPlaces /\ l # "pffree"
      BY HoldingPlaces DEF EvictPlaces, AioPlaces
    <2> QED BY <1>0, <1>2, <2>1, RunsOn, HoldingPlaces DEF EvictPlaces
  <1>3. CASE EvictSwapFull(t)
    <2>1. pc'[t] = "evicted" /\ call' = call /\ mutex' = mutex
      BY <1>3, GotoPlaces DEF EvictSwapFull
    <2>2. Runs(t) /\ pc'[t] # "idle"
      BY <1>2, <2>1 DEF EvictPlaces
    <2>3. \A d \in Chunks : swapBuf'[d] => swapBuf[d]
      BY <1>3 DEF EvictSwapFull, DropCopies
    <2> QED BY <1>0, <1>3, <2>2, <2>3, NoEffect DEF EvictSwapFull
  <1>4. CASE EvictSelect(t) \/ UnloadDone(t)
    <2>1. pc'[t] \in {"evicted", "unload"} /\ call' = call /\ mutex' = mutex
      BY <1>4, GotoPlaces DEF EvictSelect, UnloadDone
    <2>2. Runs(t) /\ pc'[t] # "idle"
      BY <1>2, <2>1 DEF EvictPlaces
    <2> QED BY <1>0, <1>4, <2>2, NoEffect DEF EvictSelect, UnloadDone
  <1>5. ASSUME NEW c \in Chunks, UnloadNot(t, c)
        PROVE  Runs(t) /\ Flow(t) /\ Effect(t) /\ Turn(t)
    <2>1. pc'[t] \in EvictPlaces /\ call' = call /\ mutex' = mutex
      BY <1>0, <1>5 DEF UnloadNot
    <2>2. Runs(t) /\ pc'[t] # "idle"
      BY <1>2, <2>1
    <2> QED BY <1>0, <1>5, <2>2, NoEffect DEF UnloadNot
  <1>6. ASSUME NEW c \in Chunks, pc[t] = "unload", c \in ev.todo \cup ev.again,
               status[c] \in Allocated, NEW s \in {"SWAPPED", "SWAPOUT"},
               status' = [status EXCEPT ![c] = s], UNCHANGED <<useCnt, ring, call, mutex>>,
               pc'[t] = "unload", \A d \in Chunks : swapBuf'[d] => swapBuf[d] \/ d = c
        PROVE  Runs(t) /\ Flow(t) /\ Effect(t) /\ Turn(t)
    <2>1. Runs(t) /\ pc'[t] # "idle"
      BY <1>2, <1>6 DEF EvictPlaces
    <2>2. Unloading(t, c) /\ \A d \in Chunks : d # c => status'[d] = status[d]
      BY <1>6, ContentFacts DEF Unloading
    <2> QED BY <1>6, <2>1, <2>2 DEF Flow, Effect, Turn
  <1>7. ASSUME NEW c \in Chunks, UnloadCached(t, c)
        PROVE  Runs(t) /\ Flow(t) /\ Effect(t) /\ Turn(t)
    <2>1. pc'[t] = "unload"
      BY <1>7, GotoPlaces DEF UnloadCached
    <2> QED BY <1>6, <1>7, <2>1 DEF UnloadCached, NextVictim
  <1>8. ASSUME NEW c \in Chunks, UnloadWrite(t, c)
        PROVE  Runs(t) /\ Flow(t) /\ Effect(t) /\ Turn(t)
    <2>1. pc[t] = "unload" /\ c \in ev.todo \cup ev.again /\ status[c] \in Allocated
      BY <1>8 DEF UnloadWrite, NextVictim
    <2>2. ASSUME NEW D, ScheduleWrite(c, D)
          PROVE  Runs(t) /\ Flow(t) /\ Effect(t) /\ Turn(t)
      <3>1. \A d \in Chunks : swapBuf'[d] => swapBuf[d] \/ d = c
        BY <2>2 DEF ScheduleWrite
      <3>2. /\ status' = [status EXCEPT ![c] = "SWAPOUT"]
            /\ UNCHANGED <<useCnt, ring, call, mutex, pc>>
        BY <2>2 DEF ScheduleWrite
      <3> QED BY <1>6, <2>1, <3>1, <3>2
    <2>3. ASSUME NEW D, DropCopies(D), Goto(t, "stuck"),
                 UNCHANGED <<status, ring, mutex, call>>
          PROVE  Runs(t) /\ Flow(t) /\ Effect(t) /\ Turn(t)
      <3>1. Runs(t) /\ pc'[t] # "idle"
        BY <1>2, <2>3, GotoPlaces
      <3>2. \A d \in Chunks : swapBuf'[d] => swapBuf[d]
        BY <2>3 DEF DropCopies
      <3> QED BY <2>3, <3>1, <3>2, NoEffect
    <2> QED BY <1>8, <2>2, <2>3 DEF UnloadWrite
  <1> QED
    BY <1>0, <1>1, <1>3, <1>4, <1>5, <1>7, <1>8 DEF Evict

\* The walk meets each chunk once as long as all chunks are in the ring.
LEMMA RevisitsNone ==
    ASSUME ring = memChunks, memChunks \subseteq Chunks, NEW U \in SUBSET Chunks, NEW n,
           NEW A \in Revisits(U, n)
    PROVE  A = {}
  <1>1. IsFiniteSet(A) /\ IsFiniteSet(ring)
    BY FS_Subset DEF Revisits
  <1>2. Cardinality(A) <= 0 /\ Cardinality(A) \in Nat
    <2>1. Cardinality(ring) \in Nat /\ Cardinality(A) \in Nat
      BY <1>1, FS_CardinalityType
    <2> QED BY <2>1 DEF Revisits
  <1> QED BY <1>1, <1>2, FS_EmptySet

\* Victims are chosen, and ticked off when they are unloaded.
LEMMA EvictChosen ==
    ASSUME SInv, NEW t \in Threads, Evict(t)
    PROVE  (Chosen(t))'
  <1>1. CASE EvictNothing(t) \/ EvictSwapFull(t) \/ UnloadDone(t)
    <2>1. pc'[t] # "unload"
      BY <1>1, GotoPlaces DEF EvictNothing, EvictSwapFull, UnloadDone, Throw
    <2> QED BY <2>1 DEF Chosen
  <1>2. CASE EvictSelect(t)
    <2>1. CASE Goto(t, "evicted")
      <3>1. pc'[t] # "unload"
        BY <2>1, GotoPlaces
      <3> QED BY <3>1 DEF Chosen
    <2>2. ASSUME NEW n, NEW U \in Selections(n), NEW A \in Revisits(U, n),
                 ev' = [ev EXCEPT !.todo = U, !.again = A]
          PROVE  (Chosen(t))'
      <3>1. ev'.todo = U /\ ev'.again = A /\ A \subseteq U /\ U \subseteq Candidates
        BY <2>2 DEF SInv, IInv, DataTyped, Evicts, Selections, Revisits
      <3>2. \A c \in U : status[c] = "ALLOCATED" /\ useCnt[c] = 0 /\ c \in Chunks
        BY <3>1 DEF Candidates, SInv, IInv, DataTyped
      <3>3. ring = memChunks => A = {}
        BY <3>2, RevisitsNone DEF memChunks
      <3>4. UNCHANGED <<status, useCnt, ring>> /\ memChunks' = memChunks
        BY <1>2 DEF EvictSelect, memChunks
      <3> QED BY <3>1, <3>2, <3>3, <3>4 DEF Chosen
    <2> QED BY <1>2, <2>1, <2>2 DEF EvictSelect
  <1>3. ASSUME NEW c \in Chunks, NextVictim(t, c), NEW n, Unloaded(c, n),
               UNCHANGED <<useCnt, ring>>,
               \/ status' = status
               \/ /\ status[c] \in Allocated
                  /\ \E s \in {"SWAPPED", "SWAPOUT"} : status' = [status EXCEPT ![c] = s]
        PROVE  (Chosen(t))'
    <2>1. /\ \A d \in ev.todo : status[d] = "ALLOCATED" /\ useCnt[d] = 0
          /\ \A d \in ev.again : useCnt[d] = 0
          /\ ring = memChunks => ev.again = {}
      BY <1>3 DEF NextVictim, SInv, ThreadInv, VictimsOK, Chosen
    <2>2. ev'.todo = ev.todo \ {c} /\ ev'.again \subseteq ev.again
      BY <1>3 DEF Unloaded, SInv, IInv, DataTyped, Evicts
    <2>3. ev.todo \subseteq Chunks
      BY DEF SInv, IInv, DataTyped, Evicts
    <2>4. \A d \in Chunks : d # c => status'[d] = status[d]
      BY <1>3, ContentFacts
    <2>5. memChunks' = memChunks
      BY <1>3, ContentFacts DEF memChunks, Allocated, Unused, InUse
    <2> QED BY <1>3, <2>1, <2>2, <2>3, <2>4, <2>5 DEF Chosen
  <1>4. ASSUME NEW c \in Chunks, UnloadNot(t, c)
        PROVE  (Chosen(t))'
    BY <1>3, <1>4 DEF UnloadNot
  <1>5. ASSUME NEW c \in Chunks, UnloadCached(t, c)
        PROVE  (Chosen(t))'
    <2>1. /\ NextVictim(t, c) /\ Unloaded(c, Size[c]) /\ UNCHANGED <<useCnt, ring>>
          /\ status[c] \in Allocated /\ status' = [status EXCEPT ![c] = "SWAPPED"]
      BY <1>5 DEF UnloadCached
    <2> QED BY <1>3, <2>1
  <1>6. ASSUME NEW c \in Chunks, UnloadWrite(t, c)
        PROVE  (Chosen(t))'
    <2>1. ASSUME NEW D, ScheduleWrite(c, D)
          PROVE  (Chosen(t))'
      <3>1. /\ NextVictim(t, c) /\ Unloaded(c, Size[c]) /\ UNCHANGED <<useCnt, ring>>
            /\ status[c] \in Allocated /\ status' = [status EXCEPT ![c] = "SWAPOUT"]
        BY <1>6, <2>1 DEF UnloadWrite, ScheduleWrite
      <3> QED BY <1>3, <3>1
    <2>2. CASE Goto(t, "stuck")
      <3>1. pc'[t] # "unload"
        BY <2>2, GotoPlaces
      <3> QED BY <3>1 DEF Chosen
    <2> QED BY <1>6, <2>1, <2>2 DEF UnloadWrite
  <1> QED BY <1>1, <1>2, <1>4, <1>5, <1>6 DEF Evict

\* The steps of ensureEnoughSpace and of its callers.
LEMMA SpaceRuns ==
    ASSUME SInv, NEW t \in Threads, EnsureEnoughSpace(t)
    PROVE  Runs(t) /\ Flow(t) /\ Effect(t) /\ Turn(t) /\ Uses(t) /\ (Chosen(t))'
  <1>0. /\ pc[t] \in {"space", "evicted"} /\ loaded' = loaded /\ Uses(t) /\ t \in Procs
        /\ pc[t] \in Holding \ (AioPlaces \cup {"stuck"}) /\ pc[t] \in SpacePlaces
        /\ call[t].op \in SpaceOps /\ call[t].chunk \in Chunks
    <2>1. pc[t] \in {"space", "evicted"} /\ loaded' = loaded
      BY DEF EnsureEnoughSpace, SpaceFound, Allocate, ScheduleRead, AlreadyThere, SpaceMissing,
            Wait, EvictHelped, LastResort, OutOfMemory, KeepTrying, EvictFailed, AfterEvict
    <2>2. call[t].op \in SpaceOps
      BY <2>1, At DEF SInv, IInv, EnsureEnoughSpace, SpaceFound, AlreadyThere, SpaceMissing,
            EvictHelped, LastResort, OutOfMemory, KeepTrying, EvictFailed, AfterEvict
    <2> QED BY <2>1, <2>2, SpaceStatus, HoldingPlaces
            DEF EvictPlaces, SpacePlaces, AioPlaces, Uses, Procs
  <1>1. ASSUME NEW l \in {"space", "evict", "waitIn"}, pc'[t] = l, call'[t].op = call[t].op,
               mutex' = mutex
        PROVE  Runs(t) /\ pc'[t] \notin {"idle", "unload"}
    <2>1. l \in Holding \ AioPlaces /\ l # "pffree"
      BY HoldingPlaces DEF EvictPlaces, AioPlaces
    <2> QED BY <1>0, <1>1, <2>1, RunsOn
  <1>2. ASSUME Wait(t, "space")
        PROVE  Runs(t) /\ pc'[t] \notin {"idle", "unload"}
    BY <1>0, <1>2, WaitPlaces, RunsOn
  <1>3. ASSUME Return(t) \/ SignalAndReturn(t) \/ Throw(t)
        PROVE  /\ Runs(t) /\ pc'[t] # "unload"
               /\ Throw(t) => pc'[t] # "idle" \/ call[t].op \notin UseOps
    <2>1. pc'[t] \in {"idle", "lock"}
      BY <1>3, GotoPlaces DEF Return, SignalAndReturn, Throw
    <2>2. Throw(t) => pc'[t] # "idle" \/ call[t].op \notin UseOps
      BY GotoPlaces DEF Throw
    <2> QED BY <1>0, <1>3, <2>1, <2>2, RunsOut
  <1>4. CASE SpaceFound(t)
    <2>1. CASE Allocate(t, call[t].chunk) /\ call[t].op = "mmalloc"
      <3>1. Return(t)
        BY <2>1 DEF Allocate
      <3>2. Runs(t) /\ pc'[t] = "idle"
        BY <1>3, <3>1, GotoPlaces DEF Return
      <3>3. /\ status'[call[t].chunk] = "ALLOCATED" /\ swapBuf' = swapBuf
            /\ \A d \in Chunks : d # call[t].chunk => status'[d] = status[d]
            /\ ring' = ring \cup {call[t].chunk}
        BY <1>0, <2>1, ContentFacts DEF Allocate
      <3>4. pc[t] = "space"
        BY <1>4 DEF SpaceFound
      <3> QED BY <1>0, <2>1, <3>2, <3>3, <3>4 DEF Flow, Making, Effect, Turn, Chosen, UseOps
    <2>2. CASE ScheduleRead(t, call[t].chunk) /\ call[t].op # "mmalloc" /\ ~Present(call[t].chunk)
      <3>1. /\ pc'[t] = IF call[t].op \in UseOps THEN "waitIn" ELSE "idle"
            /\ Runs(t)
        BY <1>1, <1>3, <2>2, GotoPlaces DEF ScheduleRead, Return
      <3>2. call[t].op \in BringIn /\ status[call[t].chunk] = "SWAPPED"
        BY <1>0, <2>2, SpaceStatus DEF Present
      <3>3. /\ status'[call[t].chunk] = "SWAPIN" /\ swapBuf' = swapBuf /\ ring' = ring
            /\ \A d \in Chunks : d # call[t].chunk => status'[d] = status[d]
        BY <1>0, <2>2, ContentFacts DEF ScheduleRead
      <3>4. pc[t] = "space"
        BY <1>4 DEF SpaceFound
      <3> QED BY <1>0, <2>2, <3>1, <3>2, <3>3, <3>4 DEF Flow, Reading, Effect, Turn, Chosen
    <2>3. CASE Throw(t) /\ UNCHANGED <<status, swapBuf, ring>>
      <3>1. Runs(t) /\ pc'[t] # "unload" /\ (pc'[t] # "idle" \/ call[t].op \notin UseOps)
        BY <1>3, <2>3
      <3> QED BY <1>0, <2>3, <3>1, NoEffect DEF Chosen
    <2> QED BY <1>4, <2>1, <2>2, <2>3 DEF SpaceFound
  <1>5. CASE AlreadyThere(t)
    <2>1. CASE call[t].op \in UseOps
      <3>1. Runs(t) /\ pc'[t] \notin {"idle", "unload"}
        BY <1>1, <1>5, <2>1, GotoPlaces DEF AlreadyThere
      <3> QED BY <1>0, <1>5, <3>1, NoEffect DEF AlreadyThere, Chosen
    <2>2. CASE call[t].op \notin UseOps
      <3>1. Runs(t) /\ pc'[t] # "unload"
        BY <1>3, <1>5, <2>2 DEF AlreadyThere
      <3> QED BY <1>0, <1>5, <2>2, <3>1, NoEffect DEF AlreadyThere, Chosen
    <2> QED BY <2>1, <2>2
  <1>6. CASE SpaceMissing(t) \/ EvictHelped(t) \/ KeepTrying(t) \/ LastResort(t)
    <2>1. /\ status' = status /\ ring' = ring
          /\ \A d \in Chunks : swapBuf'[d] => swapBuf[d]
      BY <1>6 DEF SpaceMissing, EvictHelped, KeepTrying, LastResort, DropCopies
    <2>2. \/ Wait(t, "space")
          \/ Goto(t, "space") /\ mutex' = mutex /\ call'[t].op = call[t].op
          \/ Goto(t, "evict") /\ mutex' = mutex /\ call'[t].op = call[t].op
      BY <1>0, <1>6 DEF SpaceMissing, StartEvict, EvictHelped, KeepTrying, LastResort,
            SInv, IInv, ControlInv, ThreadsTyped, Calls
    <2>3. Runs(t) /\ pc'[t] \notin {"idle", "unload"}
      BY <1>1, <1>2, <2>2, GotoPlaces
    <2> QED BY <1>0, <2>1, <2>3, NoEffect DEF Chosen
  <1>7. CASE OutOfMemory(t)
    <2>1. Runs(t) /\ pc'[t] # "unload" /\ (pc'[t] # "idle" \/ call[t].op \notin UseOps)
      BY <1>3, <1>7 DEF OutOfMemory
    <2> QED BY <1>0, <1>7, <2>1, NoEffect DEF OutOfMemory, Chosen
  <1> QED
    BY <1>4, <1>5, <1>6, <1>7 DEF EnsureEnoughSpace

\* The steps of the other operations.
LEMMA CallRuns ==
    ASSUME SInv, NEW t \in Threads,
           \/ PrepareUse(t) \/ SetUse(t) \/ WaitForSwapout(t) \/ WaitForSwapin(t)
           \/ UnsetUse(t) \/ Untouched(t) \/ Mfree(t) \/ Pffree(t)
           \/ SetMemoryLimit(t) \/ LimitEvicted(t)
    PROVE  Runs(t) /\ Flow(t) /\ Effect(t) /\ Turn(t) /\ Uses(t) /\ (Chosen(t))'
  <1>0. /\ ControlInv /\ t \in Procs
        /\ pc[t] \in UseOps \cup {"prepareUse", "waitOut", "waitIn", "unsetUse", "evicted",
                                  "mfree", "pffree", "setMemoryLimit"}
        /\ pc[t] \in Holding \ (AioPlaces \cup {"stuck"})
    <2>1. pc[t] \in UseOps \cup {"prepareUse", "waitOut", "waitIn", "unsetUse", "evicted",
                                "mfree", "pffree", "setMemoryLimit"}
      BY DEF PrepareUse, SetUse, WaitForSwapout, WaitForSwapin, UnsetUse, Untouched, Mfree,
            Pffree, SetMemoryLimit, LimitEvicted
    <2> QED BY <2>1, HoldingPlaces DEF SInv, IInv, AioPlaces, Procs, UseOps, EvictPlaces
  <1>1. ASSUME NEW l \in {"waitOut", "waitIn", "stuck"}, Goto(t, l), call' = call,
               mutex' = mutex, pc[t] \notin {"unsetUse"}, pc[t] = "waitIn" => status[call[t].chunk] # "SWAPIN"
        PROVE  Runs(t) /\ pc'[t] \notin {"idle", "unload"}
    <2>1. l \in Holding \ AioPlaces /\ l \notin SpacePlaces \cup {"pffree"} /\ pc'[t] = l
      BY <1>1, HoldingPlaces, GotoPlaces DEF EvictPlaces, AioPlaces, SpacePlaces
    <2> QED BY <1>0, <1>1, <2>1, RunsOn
  <1>2. ASSUME Goto(t, "space"), call' = call, mutex' = mutex, status[call[t].chunk] = "SWAPPED",
               status' = status, pc[t] \notin {"waitIn", "unsetUse"}
        PROVE  Runs(t) /\ pc'[t] \notin {"idle", "unload"}
    <2>1. pc'[t] = "space" /\ "space" \in Holding \ AioPlaces
      BY <1>2, HoldingPlaces, GotoPlaces DEF AioPlaces
    <2> QED BY <1>0, <1>2, <2>1, RunsOn
  <1>3. ASSUME Return(t) \/ SignalAndReturn(t) \/ Throw(t), pc[t] \notin {"waitIn", "unsetUse"}
        PROVE  Runs(t) /\ pc'[t] # "unload"
    <2>1. pc'[t] \in {"idle", "lock"}
      BY <1>3, GotoPlaces DEF Return, SignalAndReturn, Throw
    <2> QED BY <1>0, <1>3, <2>1, RunsOut
  <1>4. ASSUME NEW l \in {"waitOut", "waitIn"}, Wait(t, l), pc[t] = l
        PROVE  Runs(t) /\ pc'[t] \notin {"idle", "unload"}
    BY <1>0, <1>4, WaitPlaces, RunsOn DEF SpacePlaces, EvictPlaces
  <1>5. ASSUME NEW s \in InUse, Grant(t, call[t].chunk, s), status[call[t].chunk] \in Allocated,
               pc[t] \in UseOps \cup {"waitIn"},
               s = "INUSE_WRITE" => status[call[t].chunk] = "INUSE_WRITE"
        PROVE  Runs(t) /\ Flow(t) /\ Effect(t) /\ Turn(t) /\ Uses(t) /\ (Chosen(t))'
    <2>1. call[t].op \in UseOps /\ call[t].chunk \in Chunks
      BY <1>0, <1>5, At DEF UseOps
    <2>2. Return(t) /\ pc'[t] = "idle" /\ ring' = ring /\ loaded' = loaded
      BY <1>5, GotoPlaces DEF Grant, Return
    <2>3. Runs(t)
      BY <1>0, <1>5, <2>2, RunsOut DEF Allocated, Unused, InUse, UseOps
    <2>4. /\ status'[call[t].chunk] \in InUse
          /\ \A d \in Chunks : d # call[t].chunk => status'[d] = status[d]
          /\ \A d \in Chunks : swapBuf'[d] => swapBuf[d]
      BY <1>5, <2>1, ContentFacts DEF Grant, DropCopies, InUse
    <2>5. Granting(t, call[t].chunk)
      BY <1>0, <1>5, <2>1, <2>2, <2>4, ContentGranted DEF Granting
    <2> QED BY <2>1, <2>2, <2>3, <2>4, <2>5 DEF Flow, Effect, Turn, Uses, Chosen
  <1>6. CASE PrepareUse(t)
    <2>1. call[t].op = "prepareUse" /\ UNCHANGED <<status, swapBuf, ring, loaded>>
      BY <1>0, <1>6, At DEF PrepareUse
    <2>2. Runs(t) /\ pc'[t] # "unload"
      BY <1>1, <1>2, <1>3, <1>6 DEF PrepareUse, Await
    <2> QED BY <2>1, <2>2, NoEffect DEF Uses, Chosen, UseOps
  <1>7. CASE SetUse(t)
    <2>1. CASE status[call[t].chunk] \in Allocated
      <3>1. PICK s \in InUse : /\ Grant(t, call[t].chunk, s)
                               /\ s = "INUSE_WRITE" => status[call[t].chunk] = "INUSE_WRITE"
        BY <1>7, <2>1 DEF SetUse, Allocated, Unused, InUse
      <3> QED BY <1>5, <1>7, <2>1, <3>1 DEF SetUse
    <2>2. CASE status[call[t].chunk] \notin Allocated
      <3>1. UNCHANGED <<status, swapBuf, ring, loaded>>
        BY <1>7, <2>2 DEF SetUse
      <3>2. Runs(t) /\ pc'[t] \notin {"idle", "unload"}
        BY <1>1, <1>2, <1>7, <2>2 DEF SetUse, Await, UseOps
      <3> QED BY <3>1, <3>2, NoEffect DEF Uses, Chosen
    <2> QED BY <2>1, <2>2
  <1>8. CASE WaitForSwapout(t)
    <2>1. UNCHANGED <<status, swapBuf, ring, loaded>>
      BY <1>8 DEF WaitForSwapout, Wait
    <2>2. /\ Runs(t) /\ pc'[t] # "unload"
          /\ pc'[t] # "idle" \/ call[t].op \notin UseOps
      BY <1>1, <1>2, <1>3, <1>4, <1>8 DEF WaitForSwapout
    <2> QED BY <2>1, <2>2, NoEffect DEF Uses, Chosen
  <1>9. CASE WaitForSwapin(t)
    <2>1. CASE status[call[t].chunk] \in Allocated
      BY <1>5, <1>9, <2>1 DEF WaitForSwapin, InUse
    <2>2. CASE status[call[t].chunk] \notin Allocated
      <3>1. UNCHANGED <<status, swapBuf, ring, loaded>>
        BY <1>9, <2>2 DEF WaitForSwapin, Wait
      <3>2. Runs(t) /\ pc'[t] \notin {"idle", "unload"}
        BY <1>1, <1>4, <1>9, <2>2 DEF WaitForSwapin
      <3> QED BY <3>1, <3>2, NoEffect DEF Uses, Chosen
    <2> QED BY <2>1, <2>2
  <1>10. CASE UnsetUse(t)
    <2>1. call[t].chunk \in Chunks /\ call[t].op = "unsetUse" /\ pc[t] = "unsetUse"
      BY <1>0, <1>10, At DEF UnsetUse, UseOps
    <2>2. /\ swapBuf' = swapBuf /\ ring' = ring
          /\ loaded' = [loaded EXCEPT ![t][call[t].chunk] = {}]
          /\ loaded'[t][call[t].chunk] = {}
      BY <1>10, <2>1 DEF UnsetUse, SInv, IInv, UsesInv, UsesTyped
    <2>3. Runs(t) /\ pc'[t] # "unload"
      <3>1. CASE SignalAndReturn(t)
        BY <1>0, <2>1, <2>2, <3>1, GotoPlaces, RunsOut DEF SignalAndReturn
      <3>2. CASE Goto(t, "evict") /\ mutex' = mutex /\ call' = call
        <4>1. pc'[t] = "evict" /\ "evict" \in Holding \ AioPlaces
          BY <3>2, GotoPlaces, HoldingPlaces DEF AioPlaces, EvictPlaces
        <4> QED BY <1>0, <2>1, <2>2, <3>2, <4>1, RunsOn DEF BringIn, UseOps
      <3> QED BY <1>10, <3>1, <3>2 DEF UnsetUse, StartEvict
    <2>4. Flow(t)
      <3>1. ASSUME NEW d \in Chunks, status'[d] # status[d]
            PROVE  Releasing(t, d)
        <4>1. /\ d = call[t].chunk /\ status[d] \in Allocated /\ status'[d] = "ALLOCATED"
              /\ useCnt[d] - Unsets(t, d) = 0
          BY <1>10, <2>1, <3>1, ContentFacts DEF UnsetUse
        <4>2. useCnt'[d] = 0
          BY <1>10, <2>1, <4>1 DEF UnsetUse, SInv, IInv, UsesInv, UsesTyped
        <4> QED BY <2>1, <4>1, <4>2 DEF Releasing
      <3> QED BY <3>1 DEF Flow
    <2> QED BY <2>1, <2>2, <2>3, <2>4 DEF Effect, Turn, Uses, Chosen, UseOps
  <1>11. CASE Untouched(t) \/ SetMemoryLimit(t) \/ LimitEvicted(t)
    <2>1. /\ UNCHANGED <<status, swapBuf, ring, loaded>>
          /\ call[t].op \in {"unsetUse", "setMemoryLimit"}
          /\ pc[t] \in {"evicted", "setMemoryLimit"}
      BY <1>0, <1>11, At DEF Untouched, SetMemoryLimit, LimitEvicted
    <2>2. Runs(t) /\ pc'[t] # "unload"
      <3>1. CASE Return(t) \/ SignalAndReturn(t)
        BY <1>3, <2>1, <3>1
      <3>2. CASE Goto(t, "evict") /\ mutex' = mutex /\ call' = call
        <4>1. pc'[t] = "evict" /\ "evict" \in Holding \ AioPlaces
          BY <3>2, GotoPlaces, HoldingPlaces DEF AioPlaces, EvictPlaces
        <4> QED BY <1>0, <2>1, <3>2, <4>1, RunsOn DEF BringIn, UseOps
      <3> QED BY <1>11, <3>1, <3>2 DEF Untouched, SetMemoryLimit, LimitEvicted, StartEvict
    <2> QED BY <2>1, <2>2, NoEffect DEF Uses, Chosen, UseOps
  <1>12. ASSUME Erase(t, call[t].chunk), call[t].chunk \notin ring', loaded' = loaded,
                pc[t] \in {"mfree", "pffree"}, ring' \in {ring, ring \ {call[t].chunk}}
         PROVE  Runs(t) /\ Flow(t) /\ Effect(t) /\ Turn(t) /\ Uses(t) /\ (Chosen(t))'
    <2>1. call[t].op = "mfree" /\ call[t].chunk \in Chunks
      BY <1>0, <1>12, At DEF UseOps
    <2>2. Runs(t) /\ pc'[t] = "idle"
      BY <1>3, <1>12, GotoPlaces DEF Erase, Return
    <2>3. /\ \A d \in Chunks : d # call[t].chunk => status'[d] = status[d]
          /\ status'[call[t].chunk] = "NONE" /\ useCnt'[call[t].chunk] = 0
          /\ \A d \in Chunks : swapBuf'[d] => swapBuf[d]
      BY <1>12, <2>1, ContentFacts DEF Erase, DropCopies, SInv, IInv, UsesInv, UsesTyped
    <2> QED BY <1>12, <2>1, <2>2, <2>3 DEF Flow, Freeing, Effect, Turn, Uses, Chosen, UseOps
  <1>13. CASE Mfree(t)
    <2>1. call[t].op = "mfree" /\ call[t].chunk \in Chunks /\ loaded' = loaded /\ pc[t] = "mfree"
      BY <1>0, <1>13, At DEF Mfree, UseOps
    <2>2. CASE Throw(t) /\ UNCHANGED chunkVars
      BY <1>3, <2>1, <2>2, NoEffect DEF Uses, Chosen, UseOps
    <2>3. CASE Erase(t, call[t].chunk) /\ ring' = ring \ {call[t].chunk}
      BY <1>12, <2>1, <2>3
    <2>4. CASE /\ Goto(t, "pffree") /\ ring' = ring \ {call[t].chunk}
               /\ call[t].chunk \in InFlight /\ UNCHANGED <<status, swapBuf, mutex, call>>
      <3>1. status[call[t].chunk] = "SWAPOUT"
        BY <1>0, <2>1, <2>4, ContentFacts DEF InFlight, TransferMatchesStatus, SInv, ThreadInv,
              FreeingOK, Busy
      <3>2. pc'[t] = "pffree" /\ "pffree" \in Holding \ AioPlaces
        BY <2>4, GotoPlaces, HoldingPlaces DEF AioPlaces
      <3>3. Runs(t)
        BY <1>0, <2>1, <2>4, <3>1, <3>2, RunsOn DEF BringIn, UseOps
      <3> QED BY <2>1, <2>4, <3>2, <3>3 DEF Flow, Effect, Turn, Uses, Chosen
    <2> QED BY <1>13, <2>1, <2>2, <2>3, <2>4 DEF Mfree
  <1>14. CASE Pffree(t)
    <2>1. /\ call[t].op = "mfree" /\ call[t].chunk \in Chunks /\ loaded' = loaded
          /\ pc[t] = "pffree"
      BY <1>0, <1>14, At DEF Pffree, UseOps, Wait
    <2>2. CASE Wait(t, "pffree") /\ UNCHANGED chunkVars
      <3>1. Runs(t) /\ pc'[t] = "aio"
        BY <1>0, <2>1, <2>2, WaitPlaces, RunsOn DEF SpacePlaces, EvictPlaces
      <3> QED BY <2>1, <2>2, <3>1, NoEffect DEF Uses, Chosen
    <2>3. CASE Erase(t, call[t].chunk) /\ ring' = ring
      <3>1. call[t].chunk \notin ring
        BY <2>1 DEF SInv, ThreadInv, FreeingOK, Place, AioPlaces, Busy
      <3> QED BY <1>12, <2>1, <2>3, <3>1
    <2> QED BY <1>14, <2>2, <2>3 DEF Pffree
  <1> QED
    BY <1>6, <1>7, <1>8, <1>9, <1>10, <1>11, <1>13, <1>14

\* The steps of waitForAIO and checkForAIO.
LEMMA AioRuns ==
    ASSUME SInv, NEW p \in Procs, CheckForAIO(p)
    PROVE  Runs(p) /\ Flow(p) /\ Effect(p) /\ Turn(p) /\ Uses(p) /\ (Chosen(p))'
  <1>0. /\ ControlInv /\ call[p].ret \in Waits /\ pc \in [Procs -> PCs] /\ MutexOK
        /\ p # None
    BY DEF SInv, ThreadInv, IInv, ControlInv, ThreadsTyped, Calls
  <1>1. ASSUME NEW l \in Waits \cup {"cond", "getevents", "events"}, pc'[p] = l, call' = call,
               l \in Waits => l = call[p].ret,
               pc[p] \in AioPlaces,
               l \in {"cond", "getevents"} => mutex' = None,
               l \notin {"cond", "getevents"} => mutex' = p,
               pc[p] \in Holding \/ mutex = None,
               UNCHANGED <<swapBuf, ring, loaded>>
        PROVE  /\ Runs(p) /\ Effect(p) /\ Turn(p) /\ Uses(p) /\ (Chosen(p))'
    <2>1. pc[p] \notin {"idle", "lock", "stuck", "waitIn", "unsetUse", "pffree"}
      BY <1>1 DEF AioPlaces
    <2>2. /\ l \in Holding <=> l \notin {"cond", "getevents"}
          /\ l \notin {"idle", "unload"}
      BY <1>1, HoldingPlaces DEF Waits
    <2>3. (Place(p))' = Place(p)
      BY <1>0, <1>1 DEF Place, AioPlaces, Waits
    <2>4. mutex \in {p, None} /\ mutex' \in {p, None}
      BY <1>0, <1>1 DEF MutexOK
    <2>5. Runs(p)
      BY <1>0, <1>1, <2>1, <2>2, <2>3, <2>4 DEF Runs
    <2> QED BY <1>1, <2>2, <2>5 DEF Effect, Turn, Uses, Chosen
  <1>2. pc[p] \in Holding => mutex = p
    BY <1>0 DEF MutexOK
  <1>3. {"aio", "events"} \subseteq Holding
    BY HoldingPlaces
  <1>4. CASE AioBusy(p)
    <2>1. pc[p] = "aio" /\ call' = call /\ UNCHANGED <<status, swapBuf, ring, loaded>>
      BY <1>4 DEF AioBusy
    <2>2. CASE p = Arriver
      BY <1>0, <1>1, <1>2, <1>3, <1>4, <2>1, <2>2 DEF AioBusy, Goto, AioPlaces, Flow, Waits
    <2>3. CASE p # Arriver
      BY <1>0, <1>1, <1>2, <1>3, <1>4, <2>1, <2>3 DEF AioBusy, Goto, Unlock, AioPlaces, Flow, Waits
    <2> QED BY <2>2, <2>3
  <1>5. CASE AioNothing(p)
    BY <1>0, <1>1, <1>2, <1>3, <1>5 DEF AioNothing, Goto, AioPlaces, Flow, Waits
  <1>6. CASE AioFetch(p)
    BY <1>0, <1>1, <1>2, <1>3, <1>6 DEF AioFetch, Goto, AioPlaces, Flow, Waits
  <1>7. CASE AioPoll(p)
    BY <1>0, <1>1, <1>2, <1>3, <1>7 DEF AioPoll, Goto, Unlock, AioPlaces, Flow, Waits
  <1>8. CASE GetEvents(p)
    BY <1>0, <1>1, <1>8 DEF GetEvents, Goto, AioPlaces, Flow, Waits
  <1>9. CASE EventsDone(p)
    BY <1>0, <1>1, <1>2, <1>3, <1>9 DEF EventsDone, Goto, AioPlaces, Flow, Waits
  <1>10. CASE Woken(p)
    BY <1>0, <1>1, <1>10 DEF Woken, Goto, AioPlaces, Flow, Waits
  <1>11. ASSUME NEW c \in Chunks, Arrived(p, c)
         PROVE  Runs(p) /\ Flow(p) /\ Effect(p) /\ Turn(p) /\ Uses(p) /\ (Chosen(p))'
    <2>1. c \in got /\ status[c] \in {"SWAPIN", "SWAPOUT"} /\ pc[p] = "events"
      BY <1>11, GotInFlight DEF Arrived
    <2>2. /\ SignalAndGoto(p, "events") /\ call' = call /\ mutex' = mutex
          /\ UNCHANGED <<swapBuf, ring, loaded>>
      BY <1>11, <2>1 DEF Arrived, ReadArrived, WriteArrived
    <2>3. pc'[p] = "events"
      BY <1>0, <2>2 DEF SignalAndGoto
    <2>4. Runs(p) /\ Effect(p) /\ Turn(p) /\ Uses(p) /\ (Chosen(p))'
      BY <1>0, <1>1, <1>2, <1>3, <2>1, <2>2, <2>3 DEF AioPlaces, Waits
    <2>5. /\ \A d \in Chunks : d # c => status'[d] = status[d]
          /\ Arriving(p, c)
      BY <1>11, <2>1, ContentFacts DEF Arrived, ReadArrived, WriteArrived, Arriving
    <2> QED BY <2>4, <2>5 DEF Flow
  <1> QED
    BY <1>4, <1>5, <1>6, <1>7, <1>8, <1>9, <1>10, <1>11 DEF CheckForAIO

\* A step inside the manager keeps everything.
LEMMA InsideKept ==
    ASSUME SInv, NoRace, IInv', NEW p \in Procs,
           CheckForAIO(p) \/ (p \in Threads /\ Manager(p))
    PROVE  SInv'
  <1>1. ControlInv /\ UsesInv'
    BY DEF SInv, IInv
  <1>2. CASE CheckForAIO(p)
    <2>1. Does(p) /\ (Chosen(p))'
      BY <1>1, <1>2, AioStepMoves, AioRuns DEF Does
    <2> QED BY <1>1, <1>2, <2>1, ThreadKept, AioContent DEF SInv
  <1>3. CASE p \in Threads /\ Manager(p)
    <2>1. /\ Does(p) /\ (Chosen(p))' /\ ContentInv'
      <3>1. Moves(p)
        BY <1>1, <1>3, EvictMoves, SpaceMoves, CallMoves DEF Manager
      <3>2. Runs(p) /\ Flow(p) /\ Effect(p) /\ Turn(p) /\ Uses(p) /\ (Chosen(p))'
        BY <1>3, EvictRuns, EvictChosen, SpaceRuns, CallRuns DEF Manager
      <3>3. ContentInv'
        BY <1>3, EvictContent, SpaceContent, CallContent DEF Manager
      <3> QED BY <3>1, <3>2, <3>3 DEF Does
    <2> QED BY <1>1, <2>1, ThreadKept DEF SInv
  <1> QED BY <1>2, <1>3
-----------------------------------------------------------------------------
(* What clients, the lock and the arrival thread do *)

\* A call that begins: who makes or frees a chunk is alone with it, and everybody else
\* asks for a chunk that exists.
LEMMA InvokeKept ==
    ASSUME SInv, NEW t \in Threads, NEW op \in Ops \ {"arrive"}, NEW c \in Chunks \cup {None},
           Invoke(t, op, c),
           op # "setMemoryLimit" => c \in Chunks,
           op = "prepareUse" => Prefetch, op = "setMemoryLimit" => c = None,
           op \in {"mmalloc", "mfree"}
                => \A u \in Threads : Busy(u) => call[u].chunk # c,
           \A u \in Threads : Busy(u) /\ call[u].op \in {"mmalloc", "mfree"} => call[u].chunk # c,
           op = "mmalloc" => status[c] = "NONE",
           op \in BringIn \cup {"unsetUse", "mfree"} => status[c] # "NONE",
           op = "mfree" => status[c] # "SWAPIN",
           \/ loaded' = loaded /\ op \notin UseOps
           \/ \E m \in {"R", "W"} : /\ op = (IF m = "W" THEN "writeUse" ELSE "readUse")
                                   /\ m \notin loaded[t][c] 
                                   /\ loaded' = [loaded EXCEPT ![t][c] = @ \cup {m}]
    PROVE  ThreadInv' /\ ContentInv' /\ UseProtects'
  <1>0. /\ t \in Procs /\ pc \in [Procs -> PCs] /\ call \in [Procs -> Calls]
        /\ loaded \in [Threads -> [Chunks -> SUBSET {"R", "W"}]] /\ ThreadInv
        /\ Threads \subseteq Procs /\ ContentInv /\ UseProtects
    BY DEF Procs, SInv, IInv, ControlInv, ThreadsTyped, UsesInv, UsesTyped
  <1>1. /\ pc[t] = "idle" /\ pc'[t] = "lock" /\ call'[t].op = op /\ call'[t].chunk = c
        /\ \A q \in Procs : q # t => pc'[q] = pc[q] /\ call'[q] = call[q]
        /\ UNCHANGED <<chunkVars, ioVars, mutex, ev>>
    BY <1>0 DEF Invoke, Goto, NewCall
  <1>2. /\ \A u \in Threads : u # t =>
              /\ (Busy(u))' = Busy(u) /\ (Place(u))' = Place(u) /\ loaded'[u] = loaded[u]
              /\ pc'[u] = pc[u] /\ call'[u] = call[u]
        /\ ~Busy(t) /\ (Busy(t))' /\ (Place(t))' = "lock"
        /\ \A d \in Chunks : d # c => loaded'[t][d] = loaded[t][d]
    BY <1>0, <1>1 DEF Busy, Place, AioPlaces
  <1>3. MutexOK'
    BY <1>0, <1>1, HoldingPlaces DEF ThreadInv, MutexOK, Holding, Waits
  <1>4. RequestOK' /\ AloneOK'
    <2>1. RequestOK /\ AloneOK
      BY <1>0 DEF ThreadInv
    <2> QED BY <1>1, <1>2, <2>1 DEF RequestOK, AloneOK
  <1>5. AliveOK'
    <2>1. AliveOK
      BY <1>0 DEF ThreadInv
    <2>2. \A u \in Threads, d \in Chunks : loaded'[u][d] = loaded[u][d] \/ (d = c /\ op \in UseOps)
      BY <1>2 DEF UseOps
    <2>3. \A u \in Threads, d \in Chunks : loaded'[u][d] # {} => status[d] # "NONE"
      BY <2>1, <2>2 DEF AliveOK, BringIn
    <2> QED BY <1>1, <1>2, <2>1, <2>3 DEF AliveOK
  <1>6. WantedOK' /\ FreeingOK'
    <2>1. WantedOK /\ FreeingOK
      BY <1>0 DEF ThreadInv
    <2> QED BY <1>1, <1>2, <2>1 DEF WantedOK, FreeingOK, SpacePlaces, EvictPlaces
  <1>7. ReaderOK'
    <2>1. ReaderOK
      BY <1>0 DEF ThreadInv
    <2> QED BY <1>1, <1>2, <2>1 DEF ReaderOK
  <1>8. VictimsOK' /\ ReleasedOK' /\ RingOK'
    <2>1. VictimsOK /\ ReleasedOK /\ RingOK
      BY <1>0 DEF ThreadInv
    <2> QED BY <1>1, <1>2, <2>1 DEF VictimsOK, Chosen, ReleasedOK, RingOK, memChunks, EvictPlaces
  <1>9. ContentInv'
    BY <1>0, <1>1, ContentSame
  <1>10. UseProtects'
    <2>1. ASSUME NEW u \in Threads, NEW d \in Chunks
          PROVE  (Granted(u, d))' \subseteq Granted(u, d)
      <3>1. CASE u # t
        BY <1>2, <2>1, <3>1 DEF Granted
      <3>2. CASE u = t /\ d # c
        BY <1>1, <1>2, <2>1, <3>2 DEF Granted
      <3>3. CASE u = t /\ d = c
        BY <1>0, <1>1, <2>1, <3>3 DEF Granted, UseOps
      <3> QED BY <3>1, <3>2, <3>3
    <2> QED BY <1>0, <1>1, <2>1 DEF UseProtects
  <1> QED BY <1>3, <1>4, <1>5, <1>6, <1>7, <1>8, <1>9, <1>10 DEF ThreadInv

\* Nobody makes or frees a chunk that somebody may use.
LEMMA UsableAlone ==
    ASSUME SInv, NEW c \in Chunks, Usable(c) \/ \E t \in Threads : loaded[t][c] # {}
    PROVE  /\ status[c] # "NONE"
           /\ \A u \in Threads : Busy(u) /\ call[u].op \in {"mmalloc", "mfree"} => call[u].chunk # c
  <1>1. CASE Usable(c)
    BY <1>1 DEF Usable, BusyWith, Busy
  <1>2. ASSUME NEW t \in Threads, loaded[t][c] # {}
        PROVE  /\ status[c] # "NONE"
               /\ \A u \in Threads : Busy(u) /\ call[u].op \in {"mmalloc", "mfree"}
                       => call[u].chunk # c
    BY <1>2 DEF SInv, ThreadInv, AliveOK, IInv, UsesInv, FreeOK, Busy
  <1> QED BY <1>1, <1>2

\* A chunk that does not exist is nobody's but its maker's.
LEMMA UnmadeAlone ==
    ASSUME SInv, NEW c \in Chunks, status[c] = "NONE", ~BusyWith(c, {"mmalloc"})
    PROVE  \A u \in Threads : Busy(u) => call[u].chunk # c
  <1>1. ASSUME NEW u \in Threads, Busy(u), call[u].chunk = c
        PROVE  FALSE
    <2>1. call[u].op \notin {"mmalloc", "unsetUse", "mfree"} \cup BringIn
      BY <1>1 DEF SInv, ThreadInv, AliveOK, BusyWith, Busy
    <2>2. call[u].op \in Ops \ {"arrive"}
      BY <1>1 DEF SInv, IInv, ControlInv, ThreadsTyped, PlaceOK, Calls, Procs, Busy
    <2>3. call[u].op = "setMemoryLimit"
      BY <2>1, <2>2 DEF Ops, SpaceOps, BringIn, UseOps
    <2> QED BY <1>1, <2>3 DEF SInv, ThreadInv, RequestOK
  <1> QED BY <1>1

\* A chunk that nobody is busy with and that may be deleted is not being read in.
LEMMA DeletedNotReading ==
    ASSUME SInv, NoRace, NEW c \in Chunks, ~BusyWith(c, Ops), FreeWhileLoading \/ status[c] # "SWAPIN"
    PROVE  status[c] # "SWAPIN"
  <1>1. ASSUME status[c] = "SWAPIN"
        PROVE  FALSE
    <2>1. PICK t \in Threads : Busy(t) /\ call[t].op \in UseOps /\ call[t].chunk = c
      BY <1>1 DEF SInv, ThreadInv, ReaderOK, NoRace
    <2> QED BY <2>1 DEF BusyWith, Busy, Ops, SpaceOps
  <1> QED BY <1>1

\* The client begins a call.
LEMMA ClientKept ==
    ASSUME SInv, NoRace, NEW t \in Threads,
           \/ SetLimit(t)
           \/ \E c \in Chunks :
                 \/ New(t, c) \/ Adhere(t, c) \/ Drop(t, c) \/ Delete(t, c)
                 \/ \E m \in {"R", "W"} : Pull(t, c, m)
    PROVE  ThreadInv' /\ ContentInv' /\ UseProtects'
  <1>0. {"setMemoryLimit", "mmalloc", "prepareUse", "unsetUse", "mfree", "readUse", "writeUse"}
           \subseteq Ops \ {"arrive"}
    BY DEF Ops, SpaceOps, UseOps
  <1>1. CASE SetLimit(t)
    <2>1. \A u \in Threads : Busy(u) /\ call[u].op \in {"mmalloc", "mfree"} => call[u].chunk # None
      BY DEF SInv, IInv, ControlInv, PlaceOK, Busy
    <2> QED BY <1>0, <1>1, <2>1, InvokeKept DEF SetLimit, BringIn, UseOps
  <1>2. ASSUME NEW c \in Chunks, New(t, c)
        PROVE  ThreadInv' /\ ContentInv' /\ UseProtects'
    <2>1. \A u \in Threads : Busy(u) => call[u].chunk # c
      BY <1>2, UnmadeAlone DEF New
    <2> QED BY <1>0, <1>2, <2>1, InvokeKept DEF New, BringIn, UseOps
  <1>3. ASSUME NEW c \in Chunks, Adhere(t, c)
        PROVE  ThreadInv' /\ ContentInv' /\ UseProtects'
    BY <1>0, <1>3, UsableAlone, InvokeKept DEF Adhere, UseOps
  <1>4. ASSUME NEW c \in Chunks, NEW m \in {"R", "W"}, Pull(t, c, m)
        PROVE  ThreadInv' /\ ContentInv' /\ UseProtects'
    <2>1. PICK op \in UseOps : op = IF m = "W" THEN "writeUse" ELSE "readUse"
      BY DEF UseOps
    <2>2. op \in Ops \ {"arrive"} /\ op \notin {"prepareUse", "mmalloc", "mfree"}
      BY <1>0, <2>1 DEF UseOps
    <2> QED BY <1>4, <2>1, <2>2, UsableAlone, InvokeKept DEF Pull
  <1>5. ASSUME NEW c \in Chunks, Drop(t, c)
        PROVE  ThreadInv' /\ ContentInv' /\ UseProtects'
    BY <1>0, <1>5, UsableAlone, InvokeKept DEF Drop, UseOps
  <1>6. ASSUME NEW c \in Chunks, Delete(t, c)
        PROVE  ThreadInv' /\ ContentInv' /\ UseProtects'
    <2>1. status[c] # "SWAPIN"
      BY <1>6, DeletedNotReading DEF Delete
    <2>2. \A u \in Threads : Busy(u) => call[u].chunk # c
      <3>1. \A u \in Threads : Busy(u) => call[u].op \in Ops
        BY DEF SInv, IInv, ControlInv, ThreadsTyped, Calls, Procs
      <3> QED BY <1>6, <3>1 DEF Delete, BusyWith, Busy
    <2> QED BY <1>0, <1>6, <2>1, <2>2, UsableAlone, InvokeKept DEF Delete, UseOps
  <1> QED BY <1>1, <1>2, <1>3, <1>4, <1>5, <1>6

\* The client writes: the chunk has no page copy.
LEMMA StoreKept ==
    ASSUME SInv, NEW t \in Threads, NEW c \in Chunks, NEW v \in Vals, Store(t, c, v)
    PROVE  ThreadInv' /\ ContentInv' /\ UseProtects'
  <1>1. /\ ram' = [ram EXCEPT ![c] = v] /\ v # None
        /\ UNCHANGED <<status, useCnt, swapBuf, disk, ring, ioVars, threadVars, ev>>
    BY DEF Store
  <1>2. status[c] \in InUse /\ ~swapBuf[c]
    BY DEF Store, SInv, UseProtects, Granted
  <1>3. ThreadInv' /\ UseProtects'
    BY <1>1 DEF SInv, ThreadInv, MutexOK, RequestOK, AloneOK, AliveOK, WantedOK, FreeingOK,
          ReaderOK, VictimsOK, Chosen, ReleasedOK, RingOK, memChunks, Busy, Place, UseProtects,
          Granted
  <1>4. TransferMatchesStatus' /\ got' \subseteq InFlight'
    BY <1>1, ContentFacts DEF TransferMatchesStatus, InFlight
  <1>5. PlacedOK'
    BY <1>1, <1>2, ContentFacts DEF PlacedOK
  <1>6. CopyCoherent'
    BY <1>1, <1>2, ContentFacts DEF CopyCoherent, Cached
  <1> QED BY <1>3, <1>4, <1>5, <1>6 DEF ContentInv

\* A call gets the mutex.
LEMMA LockKept ==
    ASSUME SInv, NEW p \in Procs, Lock(p)
    PROVE  ThreadInv' /\ ContentInv' /\ UseProtects'
  <1>0. /\ pc \in [Procs -> PCs] /\ call[p].op \in Ops /\ ThreadInv /\ ContentInv
        /\ UseProtects /\ Threads \subseteq Procs
    BY DEF Procs, SInv, IInv, ControlInv, ThreadsTyped, Calls
  <1>1. /\ pc[p] = "lock" /\ pc' = [pc EXCEPT ![p] = Entry(call[p].op)]
        /\ mutex = None /\ mutex' = p /\ p # None
        /\ UNCHANGED <<chunkVars, memVars, ioVars, call, loaded, ev>>
    BY DEF Lock, Goto
  <1>2. Entry(call[p].op) \in Holding
    BY <1>0 DEF Holding
  <1>3. Entry(call[p].op) \notin EvictPlaces \cup {"idle", "pffree", "unload", "waitIn"}
    BY <1>0 DEF Entry, Ops, SpaceOps, UseOps, EvictPlaces
  <1>4. MutexOK'
    BY <1>0, <1>1, <1>2 DEF ThreadInv, MutexOK, Holding, Waits
  <1>5. ASSUME NEW u \in Threads
        PROVE  /\ (Busy(u))' = Busy(u)
               /\ (Place(u))' \in EvictPlaces \cup {"pffree", "waitIn"} => Place(u) = (Place(u))'
               /\ (Place(u))' = "space" => Place(u) = "space" \/ call[u].op = "mmalloc"
               /\ Place(u) = "waitIn" => (Place(u))' = "waitIn"
    <2>1. CASE u # p
      BY <1>0, <1>1, <2>1 DEF Busy, Place
    <2>2. CASE u = p
      <3>1. Place(u) = "lock" /\ pc'[u] = Entry(call[u].op) /\ call' = call
        BY <1>0, <1>1, <2>2 DEF Place, AioPlaces
      <3>2. call[u].op = "arrive" => FALSE
        BY <1>1, <2>2 DEF SInv, IInv, ControlInv, PlaceOK
      <3>3. Entry(call[u].op) \notin AioPlaces /\ (Entry(call[u].op) = "space" => call[u].op = "mmalloc")
        BY <1>0, <2>2, <3>2 DEF Entry, AioPlaces, Ops, SpaceOps, UseOps
      <3>4. (Place(u))' = Entry(call[u].op)
        BY <3>1, <3>3 DEF Place
      <3>5. (Busy(u))' = Busy(u)
        BY <1>1, <1>3, <2>2, <3>1 DEF Busy
      <3> QED BY <1>3, <2>2, <3>1, <3>3, <3>4, <3>5
    <2> QED BY <2>1, <2>2
  <1>6. RequestOK' /\ AloneOK' /\ AliveOK'
    BY <1>0, <1>1, <1>5 DEF ThreadInv, RequestOK, AloneOK, AliveOK
  <1>7. WantedOK' /\ FreeingOK' /\ ReaderOK'
    <2>1. WantedOK'
      <3>1. ASSUME NEW u \in Threads, (Busy(u))', (Place(u))' \in SpacePlaces
            PROVE  /\ call[u].op \in UseOps => status[call[u].chunk] # "SWAPOUT"
                   /\ call[u].op = "prepareUse" => status[call[u].chunk] = "SWAPPED"
        <4>1. Busy(u) /\ (Place(u) \in SpacePlaces \/ call[u].op = "mmalloc")
          BY <1>5, <3>1 DEF SpacePlaces
        <4> QED BY <1>0, <4>1 DEF ThreadInv, WantedOK, UseOps
      <3> QED BY <1>1, <3>1 DEF WantedOK
    <2>2. FreeingOK'
      BY <1>0, <1>1, <1>5 DEF ThreadInv, FreeingOK
    <2>3. ReaderOK'
      BY <1>0, <1>1, <1>5 DEF ThreadInv, ReaderOK
    <2> QED BY <2>1, <2>2, <2>3
  <1>8. VictimsOK' /\ ReleasedOK' /\ RingOK'
    <2>1. \A u \in Threads : pc'[u] = "unload" => pc[u] = "unload"
      BY <1>0, <1>1, <1>3
    <2>2. VictimsOK' /\ RingOK'
      BY <1>0, <1>1, <2>1 DEF ThreadInv, VictimsOK, Chosen, RingOK, memChunks
    <2>3. ReleasedOK'
      BY <1>0, <1>1, <1>5 DEF ThreadInv, ReleasedOK
    <2> QED BY <2>2, <2>3
  <1>9. UseProtects'
    <2>1. \A u \in Threads, d \in Chunks : (Granted(u, d))' = Granted(u, d)
      BY <1>0, <1>1, <1>5 DEF Granted, Busy
    <2> QED BY <1>0, <1>1, <2>1 DEF UseProtects
  <1>10. ContentInv'
    BY <1>0, <1>1, ContentSame
  <1> QED BY <1>4, <1>6, <1>7, <1>8, <1>9, <1>10 DEF ThreadInv

\* The arrival thread.
LEMMA ArriverKept ==
    ASSUME SInv, ArriverStart \/ ArriverDone
    PROVE  ThreadInv' /\ ContentInv' /\ UseProtects'
  <1>0. /\ pc \in [Procs -> PCs] /\ call \in [Procs -> Calls] /\ ThreadInv /\ ContentInv
        /\ UseProtects /\ Threads \subseteq Procs /\ Arriver \in Procs /\ Arriver \notin Threads
        /\ Arriver # None
    BY DEF Procs, SInv, IInv, ControlInv, ThreadsTyped
  <1>1. /\ UNCHANGED <<chunkVars, ioVars, loaded, ev>>
        /\ \A u \in Threads : pc'[u] = pc[u] /\ call'[u] = call[u]
    BY <1>0 DEF ArriverStart, ArriverDone, Return, Goto
  <1>2. \A u \in Threads : (Busy(u))' = Busy(u) /\ (Place(u))' = Place(u)
    BY <1>0, <1>1 DEF Busy, Place
  <1>3. MutexOK'
    <2>1. CASE ArriverStart
      BY <1>0, <2>1, HoldingPlaces DEF ArriverStart, Goto, ThreadInv, MutexOK, Holding, Waits
    <2>2. CASE ArriverDone
      <3>1. pc' = [pc EXCEPT ![Arriver] = "idle"] /\ mutex' = None /\ pc[Arriver] = "return"
        BY <2>2 DEF ArriverDone, Return, Goto, Unlock
      <3>2. mutex = Arriver
        BY <1>0, <3>1, HoldingPlaces DEF ThreadInv, MutexOK, Holding, Waits
      <3> QED BY <1>0, <3>1, <3>2, HoldingPlaces DEF ThreadInv, MutexOK, Holding, Waits
    <2> QED BY <2>1, <2>2
  <1>4. RequestOK' /\ AloneOK' /\ AliveOK'
    BY <1>0, <1>1, <1>2 DEF ThreadInv, RequestOK, AloneOK, AliveOK
  <1>5. WantedOK' /\ FreeingOK' /\ ReaderOK'
    BY <1>0, <1>1, <1>2 DEF ThreadInv, WantedOK, FreeingOK, ReaderOK
  <1>6. VictimsOK' /\ ReleasedOK' /\ RingOK'
    BY <1>0, <1>1, <1>2 DEF ThreadInv, VictimsOK, Chosen, ReleasedOK, RingOK, memChunks
  <1>7. UseProtects'
    BY <1>0, <1>1 DEF Granted, UseProtects
  <1>8. ContentInv'
    BY <1>0, <1>1, ContentSame
  <1> QED BY <1>3, <1>4, <1>5, <1>6, <1>7, <1>8 DEF ThreadInv

\* A step that changes nothing changes nothing.
LEMMA StutterKept ==
    ASSUME SInv, UNCHANGED vars
    PROVE  ThreadInv' /\ ContentInv' /\ UseProtects'
  <1>1. ThreadInv' /\ UseProtects'
    BY DEF SInv, ThreadInv, MutexOK, RequestOK, AloneOK, AliveOK, WantedOK, FreeingOK, ReaderOK,
           VictimsOK, Chosen, ReleasedOK, RingOK, memChunks, Busy, Place, UseProtects, Granted
  <1>2. ContentInv'
    BY ContentSame DEF SInv
  <1> QED BY <1>1, <1>2
-----------------------------------------------------------------------------
(* The theorems *)

\* The invariant holds when the manager is constructed.
LEMMA SafeInit == Init => SInv
  <1> SUFFICES ASSUME Init PROVE SInv
    OBVIOUS
  <1>1. \A p \in Procs : pc[p] = "idle"
    BY DEF Init
  <1>2. \A t \in Threads : ~Busy(t) /\ Place(t) = "idle" /\ pc[t] = "idle"
    BY <1>1 DEF Busy, Place, AioPlaces, Procs
  <1>3. MutexOK
    BY <1>1, HoldingPlaces DEF MutexOK, Init
  <1>4. RequestOK /\ AloneOK /\ AliveOK /\ WantedOK /\ FreeingOK /\ VictimsOK /\ ReleasedOK
    BY <1>2 DEF RequestOK, AloneOK, AliveOK, WantedOK, FreeingOK, VictimsOK, Chosen, ReleasedOK, Init
  <1>5. ReaderOK /\ RingOK /\ UseProtects /\ ContentInv
    <2>1. \A t \in Threads, c \in Chunks : Granted(t, c) = {}
      BY <1>2 DEF Granted, Init
    <2> QED BY <2>1 DEF Init, ReaderOK, RingOK, memChunks, UseProtects, ContentInv,
                TransferMatchesStatus, InFlight, PlacedOK, CopyCoherent, Cached, Allocated, Unused,
                InUse
  <1> QED BY <1>3, <1>4, <1>5, InitOK DEF SInv, ThreadInv

\* Every step keeps the invariant.
LEMMA SafeNext ==
    ASSUME NoRace, SInv, [Next]_vars
    PROVE  SInv'
  <1>1. IInv'
    BY ControlKept, DataKept DEF SInv, IInv
  <1>2. ASSUME NEW t \in Threads, Client(t)
        PROVE  SInv'
    BY <1>1, <1>2, ClientKept, StoreKept DEF Client, SInv
  <1>3. ASSUME NEW p \in Procs, CheckForAIO(p) \/ (p \in Threads /\ Manager(p))
        PROVE  SInv'
    BY <1>1, <1>3, InsideKept
  <1>4. ASSUME NEW p \in Procs, Lock(p)
        PROVE  SInv'
    BY <1>1, <1>4, LockKept DEF SInv
  <1>5. CASE ArriverStart \/ ArriverDone
    BY <1>1, <1>5, ArriverKept DEF SInv
  <1>6. CASE UNCHANGED vars
    BY <1>1, <1>6, StutterKept DEF SInv
  <1>7. Threads \subseteq Procs
    BY DEF Procs
  <1> QED BY <1>2, <1>3, <1>4, <1>5, <1>6, <1>7 DEF Next

\* The inductive invariant holds of every behaviour without the races of prefetching.
THEOREM SInvHolds ==
    ASSUME NoRace
    PROVE  Spec => []SInv
  <1>1. SInv /\ [Next]_vars => SInv'
    BY SafeNext
  <1> QED BY SafeInit, <1>1, PTL DEF Spec

\* A chunk is MEM_SWAPIN or MEM_SWAPOUT exactly while its transfer is pending, so that
\* nobody waits for a transfer that nobody has asked for, and asyncIoArrived never finds a
\* chunk in another state.
THEOREM TransfersMatch ==
    ASSUME NoRace
    PROVE  Spec => []TransferMatchesStatus
  <1>1. SInv => TransferMatchesStatus
    BY DEF SInv, ContentInv
  <1> QED BY <1>1, SInvHolds, PTL

\* A page copy that managedFileSwap keeps for a chunk in memory has the chunk's content.
THEOREM CopiesCoherent ==
    ASSUME NoRace
    PROVE  Spec => []CopyCoherent
  <1>1. SInv => CopyCoherent
    BY DEF SInv, ContentInv
  <1> QED BY <1>1, SInvHolds, PTL

\* A pointer that a client has pulled and not dropped points into memory that is neither
\* unloaded nor freed, and a chunk that may be written has no page copy.
THEOREM UsesProtect ==
    ASSUME NoRace
    PROVE  Spec => []UseProtects
  <1>1. SInv => UseProtects
    BY DEF SInv
  <1> QED BY <1>1, SInvHolds, PTL
-----------------------------------------------------------------------------
(***************************************************************************)
(* The implementation of ObjectStore: whatever is unloaded, written, read, *)
(* cached, invalidated and deleted, the content of an object changes only  *)
(* when a client that holds a pointer to write through writes it.          *)
(*                                                                         *)
(* Steps of the manager that move a content leave it as it is (Carries     *)
(* lemmas, which rest on the content part of the safety invariant).  Which *)
(* objects may be written changes only for the chunk of the call that      *)
(* steps, when setUse ends or fails (WritersKept), and when a client       *)
(* drops its adhereTo.                                                     *)
(***************************************************************************)
(* The refinement mapping *)

\* The content of a chunk, one chunk at a time.
Carried(c) == IF status[c] = "NONE" THEN {}
           ELSE IF status[c] \in {"SWAPPED", "SWAPIN"} THEN {disk[c]} ELSE {ram[c]}

\* The mapping is determined chunk by chunk.
LEMMA ContentByChunk ==
    /\ Content = [c \in Chunks |-> Carried(c)]
    /\ Content' = [c \in Chunks |-> (Carried(c))']
  BY DEF Content, Carried

\* Steps that move no content leave the store alone, or open or close one object.
LEMMA StoreFollows ==
    ASSUME SInv', Content' = Content, NEW c \in Chunks,
           \A d \in Chunks : d # c => (d \in Writable' <=> d \in Writable)
    PROVE  [Store0!Next]_Store0!vars
  <1>1. Writable \subseteq Chunks /\ Writable' \subseteq Chunks
    BY DEF Writable
  <1>2. CASE c \in Writable' /\ c \notin Writable
    <2>1. Writable' = Writable \cup {c}
      BY <1>1, <1>2
    <2>2. PICK t \in Threads : "W" \in (Granted(t, c))'
      BY <1>2 DEF Writable
    <2>3. status'[c] \in InUse
      BY <2>2 DEF SInv, UseProtects
    <2>4. Content'[c] # {}
      BY <2>3, ContentByChunk DEF Carried, InUse
    <2>5. Store0!Open(c)
      BY <2>1, <2>4 DEF Store0!Open
    <2> QED BY <2>5 DEF Store0!Next
  <1>3. CASE c \notin Writable' /\ c \in Writable
    <2>1. Writable' = Writable \ {c}
      BY <1>1, <1>3
    <2>2. Store0!Close(c)
      BY <2>1 DEF Store0!Close
    <2> QED BY <2>2 DEF Store0!Next
  <1>4. CASE c \in Writable' <=> c \in Writable
    <2>1. Writable' = Writable
      BY <1>1, <1>4
    <2> QED BY <2>1 DEF Store0!vars
  <1> QED BY <1>2, <1>3, <1>4

\* Nothing happens to the store.
LEMMA StoreStutters ==
    ASSUME Content' = Content, Writable' = Writable
    PROVE  [Store0!Next]_Store0!vars
  BY DEF Store0!vars
-----------------------------------------------------------------------------
(* Who may write: the call that steps can change it, for its chunk *)

\* A thread in the manager changes the writers of the chunk of its call at most, and of
\* none unless it makes or gives back a use.
LEMMA WritersKept ==
    ASSUME SInv, NEW p \in Procs, Does(p), NEW t \in Threads, NEW d \in Chunks,
           t = p => d # call[p].chunk \/ call[p].op \notin UseOps \cup {"unsetUse"}
    PROVE  (Granted(t, d))' = Granted(t, d)
  <1>1. t \in Procs /\ Moves(p) /\ Runs(p) /\ Uses(p)
    BY DEF Does, Procs
  <1>2. loaded \in [Threads -> [Chunks -> SUBSET {"R", "W"}]]
    BY DEF SInv, IInv, UsesInv, UsesTyped
  <1>3. CASE t # p
    <2>1. call'[t] = call[t] /\ (pc'[t] # "idle" <=> pc[t] # "idle")
      BY <1>1, <1>3, OthersOut DEF Busy
    <2>2. loaded'[t][d] = loaded[t][d]
      BY <1>1, <1>2, <1>3 DEF Uses
    <2> QED BY <2>1, <2>2 DEF Granted
  <1>4. CASE t = p
    <2>0. p \in Threads /\ pc[p] # "idle"
      BY <1>1, <1>4 DEF Moves
    <2>1. pc[p] = "unsetUse" => call[p].op = "unsetUse"
      BY <2>0, PlaceOfCall DEF Busy, Place, AioPlaces
    <2>2. loaded'[p][d] = loaded[p][d]
      BY <1>1, <1>2, <1>4, <2>0, <2>1 DEF Uses
    <2>3. pc'[p] # "idle" =>
             /\ call'[p].chunk = call[p].chunk
             /\ \/ call'[p].op = call[p].op
                \/ call[p].op \in UseOps /\ call'[p].op = "unsetUse"
      BY <1>1, OwnCall DEF Busy
    <2>4. CASE d # call[p].chunk
      BY <1>4, <2>0, <2>2, <2>3, <2>4 DEF Granted
    <2>5. CASE call[p].op \notin UseOps \cup {"unsetUse"}
      BY <1>4, <2>0, <2>2, <2>3, <2>5 DEF Granted, UseOps
    <2> QED BY <1>4, <2>4, <2>5
  <1> QED BY <1>3, <1>4

\* A step of the manager that moves no content is a step of the store.
LEMMA InsideFollows ==
    ASSUME SInv, SInv', NEW p \in Procs, Does(p), Content' = Content
    PROVE  [Store0!Next]_Store0!vars
  <1>1. CASE p \in Threads /\ call[p].chunk \in Chunks
    <2>1. \A t \in Threads, d \in Chunks : d # call[p].chunk => (Granted(t, d))' = Granted(t, d)
      BY WritersKept
    <2>2. \A d \in Chunks : d # call[p].chunk => (d \in Writable' <=> d \in Writable)
      BY <2>1 DEF Writable
    <2> QED BY <1>1, <2>2, StoreFollows
  <1>2. CASE ~(p \in Threads /\ call[p].chunk \in Chunks)
    <2>1. \A t \in Threads, d \in Chunks : (Granted(t, d))' = Granted(t, d)
      BY <1>2, WritersKept
    <2>2. Writable' = Writable
      BY <2>1 DEF Writable
    <2> QED BY <2>2, StoreStutters
  <1> QED BY <1>1, <1>2
-----------------------------------------------------------------------------
(* Contents: the manager moves them and does not change them *)

\* Nothing that holds a content changes.
LEMMA Untouching ==
    ASSUME UNCHANGED <<status, ram, disk>>
    PROVE  Content' = Content
  BY ContentByChunk DEF Carried

\* Page copies of chunks in memory are not needed.
LEMMA DropCarries ==
    ASSUME SInv, NEW D \in SUBSET {c \in Chunks : status[c] \in Allocated}, DropCopies(D),
           UNCHANGED <<status, ram>>
    PROVE  Content' = Content
  <1>1. \A d \in Chunks : d \notin D => disk'[d] = disk[d]
    BY DEF DropCopies
  <1>2. \A d \in Chunks : (Carried(d))' = Carried(d)
    BY <1>1 DEF Carried, Allocated, Unused, InUse
  <1> QED BY <1>2, ContentByChunk

\* A chunk that is unloaded is in its page copy, or still in memory while it is written.
LEMMA EvictCarries ==
    ASSUME SInv, NEW t \in Threads, Evict(t)
    PROVE  Content' = Content
  <1>0. /\ \A n : Cleanups(n) \subseteq SUBSET Cached
        /\ Cached \subseteq {c \in Chunks : status[c] \in Allocated}
        /\ {} \subseteq Cached
    BY DEF Cleanups, Cached
  <1>1. CASE EvictNothing(t) \/ EvictSelect(t) \/ UnloadDone(t)
    BY <1>1, Untouching DEF EvictNothing, EvictSelect, UnloadDone
  <1>2. CASE EvictSwapFull(t)
    BY <1>0, <1>2, DropCarries DEF EvictSwapFull
  <1>3. ASSUME NEW c \in Chunks, UnloadNot(t, c)
        PROVE  Content' = Content
    BY <1>3, Untouching DEF UnloadNot
  <1>4. ASSUME NEW c \in Chunks, UnloadCached(t, c)
        PROVE  Content' = Content
    <2>1. disk[c] = ram[c] /\ status[c] \in Allocated
      BY <1>4 DEF UnloadCached, Cached, SInv, ContentInv, CopyCoherent
    <2>2. /\ status' = [status EXCEPT ![c] = "SWAPPED"] /\ ram' = [ram EXCEPT ![c] = None]
          /\ disk' = disk
      BY <1>4 DEF UnloadCached
    <2>3. \A d \in Chunks : (Carried(d))' = Carried(d)
      BY <2>1, <2>2, ContentFacts DEF Carried, Allocated, Unused, InUse
    <2> QED BY <2>3, ContentByChunk
  <1>5. ASSUME NEW c \in Chunks, UnloadWrite(t, c)
        PROVE  Content' = Content
    <2>1. ASSUME NEW D \in SUBSET Cached, ScheduleWrite(c, D)
          PROVE  Content' = Content
      <3>1. /\ status' = [status EXCEPT ![c] = "SWAPOUT"] /\ ram' = ram
            /\ \A d \in Chunks : d \notin D => disk'[d] = disk[d]
            /\ status[c] \in Allocated
        BY <1>5, <2>1 DEF ScheduleWrite, UnloadWrite
      <3>2. \A d \in Chunks : (Carried(d))' = Carried(d)
        BY <1>0, <3>1, ContentFacts DEF Carried, Allocated, Unused, InUse
      <3> QED BY <3>2, ContentByChunk
    <2>2. ASSUME NEW D \in SUBSET Cached, DropCopies(D), UNCHANGED <<status, ram>>
          PROVE  Content' = Content
      BY <1>0, <2>2, DropCarries
    <2> QED BY <1>0, <1>5, <2>1, <2>2 DEF UnloadWrite
  <1> QED BY <1>1, <1>2, <1>3, <1>4, <1>5 DEF Evict

\* Making room carries the contents; a new chunk is a new object.
LEMMA SpaceCarries ==
    ASSUME SInv, NEW t \in Threads, EnsureEnoughSpace(t)
    PROVE  \/ Content' = Content
           \/ /\ call[t].op = "mmalloc" /\ call[t].chunk \in Chunks
              /\ Content[call[t].chunk] = {}
              /\ \E v \in Vals : Content' = [Content EXCEPT ![call[t].chunk] = {v}]
  <1>0. ControlInv
    BY DEF SInv, IInv
  <1>1. CASE SpaceFound(t)
    <2>1. pc[t] = "space" /\ call[t].op \in SpaceOps
      BY <1>0, <1>1, At DEF SpaceFound
    <2>2. PICK c \in Chunks : c = call[t].chunk
      BY <2>1, SpaceStatus
    <2>3. CASE call[t].op = "mmalloc"
      <3>1. Allocate(t, c) /\ status[c] = "NONE"
        BY <1>1, <2>1, <2>2, <2>3, SpaceStatus DEF SpaceFound
      <3>2. PICK v \in Vals : ram' = [ram EXCEPT ![c] = v]
        BY <3>1 DEF Allocate
      <3>3. status' = [status EXCEPT ![c] = "ALLOCATED"] /\ disk' = disk
        BY <3>1 DEF Allocate
      <3>4. Carried(c) = {} /\ (Carried(c))' = {v}
        BY <2>2, <3>1, <3>2, <3>3, ContentFacts DEF Carried
      <3>5. \A d \in Chunks : d # c => (Carried(d))' = Carried(d)
        BY <2>2, <3>2, <3>3, ContentFacts DEF Carried
      <3>6. Content[c] = {} /\ Content' = [Content EXCEPT ![c] = {v}]
        BY <3>4, <3>5, ContentByChunk
      <3> QED BY <2>2, <2>3, <3>6
    <2>4. CASE call[t].op # "mmalloc" /\ swapBuf[c]
      <3>1. status[c] = "SWAPPED"
        BY <1>1, <2>1, <2>2, <2>4, SpaceStatus DEF SpaceFound, Present
      <3>2. ScheduleRead(t, c)
        BY <1>1, <2>2, <2>4 DEF SpaceFound
      <3>3. /\ status' = [status EXCEPT ![c] = "SWAPIN"] /\ ram' = [ram EXCEPT ![c] = None]
            /\ disk' = disk
        BY <3>2 DEF ScheduleRead
      <3>4. \A d \in Chunks : (Carried(d))' = Carried(d)
        BY <2>2, <3>1, <3>3, ContentFacts DEF Carried
      <3> QED BY <3>4, ContentByChunk
    <2>5. CASE call[t].op # "mmalloc" /\ ~swapBuf[c]
      BY <1>1, <2>2, <2>5, Untouching DEF SpaceFound
    <2> QED BY <2>3, <2>4, <2>5
  <1>2. CASE AlreadyThere(t) \/ SpaceMissing(t) \/ EvictHelped(t) \/ OutOfMemory(t)
    BY <1>2, Untouching DEF AlreadyThere, SpaceMissing, EvictHelped, OutOfMemory
  <1>3. CASE LastResort(t) \/ KeepTrying(t)
    <2>1. DropCopies(Cached) /\ UNCHANGED <<status, ram>>
      BY <1>3 DEF LastResort, KeepTrying
    <2> QED BY <2>1, DropCarries DEF Cached
  <1> QED BY <1>1, <1>2, <1>3 DEF EnsureEnoughSpace

\* A pointer is given out: the page copy that a writer drops is not needed.
LEMMA GrantCarries ==
    ASSUME SInv, NEW t \in Threads, NEW c \in Chunks, NEW s \in InUse, Grant(t, c, s),
           status[c] \in Allocated
    PROVE  Content' = Content
  <1>1. PICK D \in SUBSET {c} : DropCopies(D)
    BY DEF Grant, Invalidated
  <1>2. PICK u \in InUse : status' = [status EXCEPT ![c] = u]
    BY DEF Grant, InUse
  <1>3. ram' = ram /\ \A d \in Chunks : d # c => disk'[d] = disk[d]
    BY <1>1 DEF Grant, DropCopies
  <1>4. \A d \in Chunks : (Carried(d))' = Carried(d)
    BY <1>2, <1>3, ContentFacts DEF Carried, Allocated, Unused, InUse
  <1> QED BY <1>4, ContentByChunk

\* The other operations carry the contents; a chunk that is freed is an object deleted.
LEMMA CallCarries ==
    ASSUME SInv, NEW t \in Threads,
           \/ PrepareUse(t) \/ SetUse(t) \/ WaitForSwapout(t) \/ WaitForSwapin(t)
           \/ UnsetUse(t) \/ Untouched(t) \/ Mfree(t) \/ Pffree(t)
           \/ SetMemoryLimit(t) \/ LimitEvicted(t)
    PROVE  \/ Content' = Content
           \/ /\ call[t].op = "mfree" /\ call[t].chunk \in Chunks /\ pc[t] # "idle"
              /\ status[call[t].chunk] # "NONE"
              /\ Content' = [Content EXCEPT ![call[t].chunk] = {}]
  <1>0. ControlInv
    BY DEF SInv, IInv
  <1>1. CASE PrepareUse(t) \/ WaitForSwapout(t) \/ Untouched(t) \/ SetMemoryLimit(t)
             \/ LimitEvicted(t)
    BY <1>1, Untouching DEF PrepareUse, WaitForSwapout, Untouched, SetMemoryLimit, LimitEvicted
  <1>2. CASE SetUse(t)
    <2>1. PICK c \in Chunks : c = call[t].chunk
      BY <1>0, <1>2, At DEF SetUse, UseOps
    <2>2. CASE status[c] \in Allocated
      <3>1. PICK s \in InUse : Grant(t, c, s)
        BY <1>2, <2>1, <2>2 DEF SetUse, Allocated, Unused, InUse
      <3> QED BY <2>1, <2>2, <3>1, GrantCarries
    <2>3. CASE status[c] \notin Allocated
      BY <1>2, <2>1, <2>3, Untouching DEF SetUse
    <2> QED BY <2>2, <2>3
  <1>3. CASE WaitForSwapin(t)
    <2>1. PICK c \in Chunks : c = call[t].chunk
      BY <1>0, <1>3, At DEF WaitForSwapin, UseOps
    <2>2. CASE status[c] \in Allocated
      <3>1. Grant(t, c, "INUSE_READ")
        BY <1>3, <2>1, <2>2 DEF WaitForSwapin
      <3> QED BY <2>1, <2>2, <3>1, GrantCarries DEF InUse
    <2>3. CASE status[c] \notin Allocated
      BY <1>3, <2>1, <2>3, Untouching DEF WaitForSwapin
    <2> QED BY <2>2, <2>3
  <1>4. CASE UnsetUse(t)
    <2>1. PICK c \in Chunks : c = call[t].chunk
      BY <1>0, <1>4, At DEF UnsetUse, UseOps
    <2>2. /\ UNCHANGED <<ram, disk>>
          /\ \/ status' = status
             \/ status[c] \in Allocated /\ status' = [status EXCEPT ![c] = "ALLOCATED"]
      BY <1>4, <2>1, ContentFacts DEF UnsetUse
    <2>3. \A d \in Chunks : (Carried(d))' = Carried(d)
      BY <2>1, <2>2, ContentFacts DEF Carried, Allocated, Unused, InUse
    <2> QED BY <2>3, ContentByChunk
  <1>5. CASE Mfree(t) \/ Pffree(t)
    <2>1. call[t].op = "mfree" /\ pc[t] # "idle" /\ call[t].chunk \in Chunks
      BY <1>0, <1>5, At DEF Mfree, Pffree, UseOps
    <2>0. PICK c \in Chunks : c = call[t].chunk
      BY <2>1
    <2>2. CASE Erase(t, c)
      <3>1. /\ status' = [status EXCEPT ![c] = "NONE"]
            /\ \A d \in Chunks : d # c => ram'[d] = ram[d] /\ disk'[d] = disk[d]
        BY <2>2, ContentFacts DEF Erase, DropCopies
      <3>2. /\ (Carried(c))' = {} /\ \A d \in Chunks : d # c => (Carried(d))' = Carried(d)
        BY <2>1, <3>1, ContentFacts DEF Carried
      <3>3. status[c] # "NONE"
        BY <2>0, <2>1 DEF SInv, ThreadInv, AliveOK, Busy
      <3>4. Content' = [Content EXCEPT ![c] = {}]
        BY <3>2, ContentByChunk
      <3> QED BY <2>0, <2>1, <3>3, <3>4
    <2>3. CASE UNCHANGED <<status, ram, disk>>
      BY <2>3, Untouching
    <2> QED BY <1>5, <2>0, <2>2, <2>3 DEF Mfree, Pffree
  <1> QED BY <1>1, <1>2, <1>3, <1>4, <1>5

\* A transfer that has arrived leaves the content where its status says.
LEMMA AioCarries ==
    ASSUME SInv, NEW p \in Procs, CheckForAIO(p)
    PROVE  Content' = Content
  <1>1. CASE \/ AioBusy(p) \/ AioNothing(p) \/ AioPoll(p) \/ EventsDone(p) \/ Woken(p)
             \/ AioFetch(p) \/ GetEvents(p)
    BY <1>1, Untouching DEF AioBusy, AioNothing, AioPoll, EventsDone, Woken, AioFetch, GetEvents
  <1>2. ASSUME NEW c \in Chunks, Arrived(p, c)
        PROVE  Content' = Content
    <2>1. status[c] \in {"SWAPIN", "SWAPOUT"}
      BY <1>2, GotInFlight DEF Arrived
    <2>2. CASE status[c] = "SWAPIN"
      <3>1. /\ \E s \in {"ALLOCATED", "INUSE_READ"} : status' = [status EXCEPT ![c] = s]
            /\ ram' = [ram EXCEPT ![c] = disk[c]] /\ disk' = disk
        BY <1>2, <2>2 DEF Arrived, ReadArrived
      <3>2. \A d \in Chunks : (Carried(d))' = Carried(d)
        BY <2>2, <3>1, ContentFacts DEF Carried
      <3> QED BY <3>2, ContentByChunk
    <2>3. CASE status[c] = "SWAPOUT"
      <3>1. /\ status' = [status EXCEPT ![c] = "SWAPPED"]
            /\ disk' = [disk EXCEPT ![c] = ram[c]] /\ ram' = [ram EXCEPT ![c] = None]
        BY <1>2, <2>3 DEF Arrived, WriteArrived
      <3>2. \A d \in Chunks : (Carried(d))' = Carried(d)
        BY <2>3, <3>1, ContentFacts DEF Carried
      <3> QED BY <3>2, ContentByChunk
    <2> QED BY <2>1, <2>2, <2>3
  <1> QED BY <1>1, <1>2 DEF CheckForAIO
-----------------------------------------------------------------------------
(* The refinement *)

\* What a thread does inside the manager is a step of the store, or nothing to it.
LEMMA InsideImplements ==
    ASSUME SInv, SInv', NEW p \in Procs, CheckForAIO(p) \/ (p \in Threads /\ Manager(p))
    PROVE  [Store0!Next]_Store0!vars
  <1>0. ControlInv
    BY DEF SInv, IInv
  <1>1. CASE CheckForAIO(p)
    <2>1. Does(p)
      BY <1>0, <1>1, AioStepMoves, AioRuns DEF Does
    <2> QED BY <1>1, <2>1, AioCarries, InsideFollows
  <1>2. CASE p \in Threads /\ Manager(p)
    <2>1. Does(p)
      <3>1. Moves(p)
        BY <1>0, <1>2, EvictMoves, SpaceMoves, CallMoves DEF Manager
      <3>2. Runs(p) /\ Flow(p) /\ Effect(p) /\ Turn(p) /\ Uses(p)
        BY <1>2, EvictRuns, SpaceRuns, CallRuns DEF Manager
      <3> QED BY <3>1, <3>2 DEF Does
    <2>2. \/ Content' = Content
          \/ /\ call[p].op = "mmalloc" /\ call[p].chunk \in Chunks
             /\ Content[call[p].chunk] = {}
             /\ \E v \in Vals : Content' = [Content EXCEPT ![call[p].chunk] = {v}]
          \/ /\ call[p].op = "mfree" /\ call[p].chunk \in Chunks /\ pc[p] # "idle"
             /\ status[call[p].chunk] # "NONE"
             /\ Content' = [Content EXCEPT ![call[p].chunk] = {}]
      BY <1>2, EvictCarries, SpaceCarries, CallCarries DEF Manager
    <2>3. ASSUME call[p].op \in {"mmalloc", "mfree"}
          PROVE  Writable' = Writable
      <3>1. \A t \in Threads, d \in Chunks : (Granted(t, d))' = Granted(t, d)
        BY <2>1, <2>3, WritersKept DEF UseOps
      <3> QED BY <3>1 DEF Writable
    <2>4. ASSUME NEW c \in Chunks, call[p].op = "mmalloc", Content[c] = {}, NEW v \in Vals,
                 Content' = [Content EXCEPT ![c] = {v}]
          PROVE  [Store0!Next]_Store0!vars
      <3>1. Store0!Create(c)
        BY <2>3, <2>4 DEF Store0!Create
      <3> QED BY <3>1 DEF Store0!Next
    <2>5. ASSUME NEW c \in Chunks, call[p].op = "mfree", c = call[p].chunk, pc[p] # "idle",
                 status[c] # "NONE", Content' = [Content EXCEPT ![c] = {}]
          PROVE  [Store0!Next]_Store0!vars
      <3>1. Content[c] # {}
        BY <2>5, ContentByChunk DEF Carried
      <3>2. \A t \in Threads : loaded[t][c] = {}
        BY <1>2, <2>5 DEF SInv, IInv, UsesInv, FreeOK
      <3>3. c \notin Writable
        BY <3>2, GrantedCounted DEF Writable
      <3>4. Store0!Delete(c)
        BY <2>3, <2>5, <3>1, <3>3 DEF Store0!Delete
      <3> QED BY <3>4 DEF Store0!Next
    <2> QED BY <2>1, <2>2, <2>4, <2>5, InsideFollows
  <1> QED BY <1>1, <1>2

\* What a client does outside the manager: it writes what it may write, and gives its
\* pointer up when its adhereTo goes.
LEMMA ClientImplements ==
    ASSUME SInv, SInv', NEW t \in Threads, Client(t)
    PROVE  [Store0!Next]_Store0!vars
  <1>0. /\ loaded \in [Threads -> [Chunks -> SUBSET {"R", "W"}]]
        /\ pc \in [Procs -> PCs] /\ call \in [Procs -> Calls] /\ t \in Procs
        /\ ContentInv
    BY DEF SInv, IInv, UsesInv, UsesTyped, ControlInv, ThreadsTyped, Procs
  <1>1. ASSUME NEW c \in Chunks, NEW v \in Vals, Store(t, c, v)
        PROVE  [Store0!Next]_Store0!vars
    <2>1. /\ ram' = [ram EXCEPT ![c] = v] /\ status' = status /\ disk' = disk
          /\ pc' = pc /\ call' = call /\ loaded' = loaded
          /\ pc[t] = "idle" /\ "W" \in loaded[t][c]
      BY <1>1 DEF Store
    <2>2. "W" \in Granted(t, c)
      BY <2>1 DEF Granted
    <2>3. c \in Writable /\ status[c] \in InUse
      BY <2>2 DEF Writable, SInv, UseProtects
    <2>4. (Carried(c))' = {v} /\ \A d \in Chunks : d # c => (Carried(d))' = Carried(d)
      BY <2>1, <2>3, ContentFacts DEF Carried, InUse
    <2>5. Content' = [Content EXCEPT ![c] = {v}]
      BY <2>4, ContentByChunk
    <2>6. Writable' = Writable
      BY <2>1 DEF Writable, Granted
    <2>7. Store0!Write(c)
      BY <2>3, <2>5, <2>6 DEF Store0!Write
    <2> QED BY <2>7 DEF Store0!Next
  <1>2. ASSUME NEW op \in Ops, NEW k \in Chunks \cup {None}, Invoke(t, op, k)
        PROVE  /\ Content' = Content
               /\ pc[t] = "idle" /\ pc'[t] = "lock" /\ call'[t] = NewCall(op, k)
               /\ \A u \in Threads : u # t => pc'[u] = pc[u] /\ call'[u] = call[u]
    BY <1>0, <1>2, Untouching DEF Invoke, Goto
  <1>3. ASSUME NEW op \in Ops, NEW k \in Chunks \cup {None}, Invoke(t, op, k),
               \/ loaded' = loaded
               \/ k \in Chunks /\ \E m \in {"R", "W"} : loaded' = [loaded EXCEPT ![t][k] = @ \cup {m}]
        PROVE  \A u \in Threads, d \in Chunks : d # k => (Granted(u, d))' = Granted(u, d)
    <2>1. ASSUME NEW u \in Threads, NEW d \in Chunks, d # k
          PROVE  loaded'[u][d] = loaded[u][d]
      BY <1>0, <1>3, <2>1
    <2>2. call'[t].chunk = k
      <3>1. call'[t] = NewCall(op, k)
        BY <1>2, <1>3
      <3> QED BY <3>1 DEF NewCall
    <2> QED BY <1>2, <1>3, <2>1, <2>2 DEF Granted
  <1>4. CASE SetLimit(t)
    <2>1. Invoke(t, "setMemoryLimit", None) /\ loaded' = loaded /\ "setMemoryLimit" \in Ops
      BY <1>4 DEF SetLimit, Ops
    <2>2. \A u \in Threads, d \in Chunks : (Granted(u, d))' = Granted(u, d)
      BY <1>3, <2>1
    <2>3. Writable' = Writable
      BY <2>2 DEF Writable
    <2> QED BY <1>2, <2>1, <2>3, StoreStutters
  <1>5. ASSUME NEW c \in Chunks,
               \/ New(t, c) \/ Adhere(t, c) \/ Drop(t, c) \/ Delete(t, c)
               \/ \E m \in {"R", "W"} : Pull(t, c, m)
        PROVE  [Store0!Next]_Store0!vars
    <2>1. PICK op \in Ops :
             /\ Invoke(t, op, c)
             /\ \/ loaded' = loaded
                \/ \E m \in {"R", "W"} : loaded' = [loaded EXCEPT ![t][c] = @ \cup {m}]
      BY <1>5 DEF New, Adhere, Drop, Delete, Pull, Ops, SpaceOps, UseOps
    <2>2. \A u \in Threads, d \in Chunks : d # c => (Granted(u, d))' = Granted(u, d)
      BY <1>3, <2>1
    <2>3. \A d \in Chunks : d # c => (d \in Writable' <=> d \in Writable)
      BY <2>2 DEF Writable
    <2>4. Content' = Content
      BY <1>2, <2>1
    <2> QED BY <2>3, <2>4, StoreFollows
  <1> QED BY <1>1, <1>4, <1>5 DEF Client

\* Getting the mutex, and what the arrival thread does outside, concerns no object.
LEMMA OutsideImplements ==
    ASSUME SInv, SInv', (\E p \in Procs : Lock(p)) \/ ArriverStart \/ ArriverDone \/ UNCHANGED vars
    PROVE  [Store0!Next]_Store0!vars
  <1>0. /\ pc \in [Procs -> PCs] /\ call \in [Procs -> Calls]
        /\ Threads \subseteq Procs /\ Arriver \in Procs /\ Arriver \notin Threads
    BY DEF SInv, IInv, ControlInv, ThreadsTyped, Procs
  <1>1. Content' = Content
    BY Untouching DEF Lock, ArriverStart, ArriverDone
  <1>2. \A t \in Threads : /\ call'[t] = call[t] /\ loaded'[t] = loaded[t]
                           /\ (pc'[t] = "idle" <=> pc[t] = "idle")
    <2>1. CASE ArriverStart \/ ArriverDone
      BY <1>0, <2>1 DEF ArriverStart, ArriverDone, Return, Goto
    <2>2. ASSUME NEW p \in Procs, Lock(p)
          PROVE  /\ call' = call /\ loaded' = loaded
                 /\ \A t \in Threads : pc'[t] = "idle" <=> pc[t] = "idle"
      <3>1. mutex' = p /\ pc[p] = "lock" /\ call' = call /\ loaded' = loaded
            /\ \A t \in Threads : t # p => pc'[t] = pc[t]
        BY <1>0, <2>2 DEF Lock, Goto
      <3>2. pc'[p] \in Holding
        BY <3>1 DEF SInv, ThreadInv, MutexOK
      <3> QED BY <3>1, <3>2, HoldingPlaces
    <2> QED BY <2>1, <2>2
  <1>3. \A t \in Threads, d \in Chunks : (Granted(t, d))' = Granted(t, d)
    BY <1>2 DEF Granted
  <1>4. Writable' = Writable
    BY <1>3 DEF Writable
  <1> QED BY <1>1, <1>4, StoreStutters

\* Nothing exists and nobody may write when the manager is constructed.
LEMMA StoreInit == Init => Store0!Init
  <1> SUFFICES ASSUME Init PROVE Store0!Init
    OBVIOUS
  <1>1. \A c \in Chunks : Content[c] = {}
    BY ContentByChunk DEF Carried, Init
  <1>2. \A t \in Threads, c \in Chunks : Granted(t, c) = {}
    BY DEF Granted, Init, Procs
  <1>3. Content = [c \in Chunks |-> {}] /\ Writable = {}
    BY <1>1, <1>2, ContentByChunk DEF Writable
  <1> QED BY <1>3 DEF Store0!Init

\* Every step of the manager is a step of the store, or does nothing to it.
LEMMA StoreNext ==
    ASSUME SInv, SInv', [Next]_vars
    PROVE  [Store0!Next]_Store0!vars
  <1>1. Threads \subseteq Procs
    BY DEF Procs
  <1> QED BY <1>1, InsideImplements, ClientImplements, OutsideImplements DEF Next

\* rambrain keeps its promise: the content of a managed object changes only when a client
\* that holds a pointer to write through writes it, wherever transfers, page copies and
\* threads take it in between.
THEOREM StoreRefined ==
    ASSUME NoRace
    PROVE  Spec => StoreImplemented
  <1>1. SInv /\ SInv' /\ [Next]_vars => [Store0!Next]_Store0!vars
    BY StoreNext
  <1> QED BY StoreInit, <1>1, SInvHolds, PTL DEF Spec, StoreImplemented, Store0!Spec
=============================================================================
