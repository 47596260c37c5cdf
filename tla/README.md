# Rambrain: models, checks and proofs

Rambrain (`src/src/`) keeps C++ objects in *chunks* of memory that it moves between RAM and
page files. A user holds a chunk through a `managedPtr`, and gets at its content by making an
`adhereTo` and pulling a pointer out of it; the chunk then stays in RAM until the `adhereTo`
is destroyed. This directory holds TLA+ models of the program, TLC configurations that check
them on small instances, and TLAPS proofs for all instances. Line numbers refer to `src/src/`.

## 1. The system

| Component | State | Operations | Reached by |
|---|---|---|---|
| `managedMemory` | `memChunks`, `memory_used`, `memory_tobefreed`, `memory_max`, `outOfSwapIsFatal`; the process-wide `stateChangeMutex` and `swappingCond` | `mmalloc`, `mfree`, `prepareUse`, `setUse`, `unsetUse`, `setMemoryLimit`, `ensureEnoughSpace`, `waitForAIO`, `waitForSwapin`, `waitForSwapout` | `managedPtr`, `adhereTo`, `rambrainConfig` |
| `managedMemoryChunk` | `status`, `useCnt`, `locPtr`, `swapBuf`, `schedBuf`, `preemptiveLoaded` | none: whoever holds the mutex writes it | everybody |
| `cyclicManagedMemory` | a ring of chunks with `active`, `counterActive`, `preemptiveStart`; `preemptiveBytes`; `cyclicTopoLock` | `schedulerRegister`, `schedulerDelete`, `touch`, `untouch`, `swapIn`, `swapOut`, `decay`, `checkCycle` | `managedMemory` (virtual calls) |
| `managedSwap`, `managedFileSwap` (chunks) | `swapFree`, `swapUsed`, policy | `swapIn`, `swapOut`, `swapDelete`, `cleanupCachedElements`, `invalidateCacheFor`, `extendSwap` | the scheduler and `managedMemory` |
| `managedFileSwap` (page locations) | `free_space`, `all_space` | `pfmalloc`, `allocInFree`, `pffree` | the above |
| `managedFileSwap` (asynchronous IO) | `pendingAios`, `totalSwapActionsQueued`, a queue of requests, `aioWaiterLock`, a tracker per transfer | `scheduleCopy`, the submit workers, the arrival worker, `checkForAIO`, `asyncIoArrived`, `completeTransactionOn` | the swap, waiting threads, two kinds of threads of its own |
| `managedPtr`, `adhereTo` | reference count, `loadedReadable`, `loadedWritable` | construction, copy, pull, destruction | the user's threads |
| `rambrainGlobalCriticalSectionControl` | one mutex | start, stop | the user's threads |
| `managedDummySwap`, `dummyManagedMemory` | synchronous stand-ins | the same interfaces | tests |
| `PARENTAL_CONTROL` tree (off by default), stack of managers, `rambrainConfig`, `configReader`, `regexMatcher`, `Timer`, exceptions | | | |

Calls go down this table. Results come back up by `status`, the counters and the broadcast of
`swappingCond`: a thread that needs a transfer schedules it under `stateChangeMutex` and then
calls `waitForAIO` in a loop, in which one thread (the holder of `aioWaiterLock`) collects the
kernel's events *for all of them*, with the mutex released, and the others sleep on the
condition variable.

What is hard about it:

* **Interleaving.** The mutex is given away in the middle of `ensureEnoughSpace`, `setUse`,
  `prepareUse` and `pffree`. Whatever was read before such a point may be wrong after it.
* **Shared state with two meanings.** A chunk in RAM may still own pages (a *cached copy*,
  kept when it was only read). Such copies are not counted in `swapUsed`, but they fill the
  page file; they make unloading free of cost, and wrong if they are stale.
* **Failure.** Running out of memory, of swap or of candidates ends in C++ exceptions thrown
  with one or two mutexes held; each throw site unlocks by hand.
* **Waiting.** Every thread can be the one that the others depend on for collecting events.

## 2. Modules

| Module | Contents |
|---|---|
| `ObjectStore` | What the user is promised: the content of an object changes only while a client holds a pointer to write through. |
| `ManagedMemory` | The core: client threads, manager, victim selection, swap file at the level of chunks, collection of transfers. Also its properties and fairness. Implements `ObjectStore`. |
| `CyclicRing` | The scheduler: the ring's links and pointers, guesses, and the choices `ManagedMemory` leaves open. |
| `PageFile` | The swap file's locations: where the bytes of a chunk are. Implements `SwapSpace`. |
| `SwapSpace` | What a swap promises the manager: bytes of its own for each chunk that is out. |
| `PointerUse` | The user's side: `managedPtr` with its tracker, `adhereTo` with its flags. |
| `MCManagedMemory`, `MCCyclicRing`, `MCPageFile`, `MCPointerUse` | Sizes, modes and symmetry sets for TLC. |
| `ManagedMemory_proofs` | Where threads can be, types, use counts; then transfers, page copies, pointers held; the implementation of `ObjectStore`. |
| `ManagedMemory_bytes_proofs` | The byte counters, the page file, the limit, threads that get stuck. |
| `PageFile_proofs` | What the operators of `PageFile` do: the tiling, pieces of chunks, the loops as walks. |
| `PageFile_safety_proofs` | The inductive invariant of the page files, the safety properties, the implementation of `SwapSpace`. |
| `CyclicRing_proofs` | The ring without guesses: what each operation does to it, its invariants, and its order where swaps transfer at once. |
| `PointerUse_proofs` | Trackers, use counts, deletions, addresses handed out. |
| `Sums`, `Walks` | Sums over finite sets; loops along a sequence. For the modules above. |

The four detailed modules are four views of one program, cut where the code has an interface:
`PointerUse` sees of the manager that chunks in use stay; `ManagedMemory` sees of its clients
that they take and give uses, of the scheduler some set of victims, of the page file a number
of bytes; `CyclicRing` sees of the swap chunks that go and come; `PageFile` sees of the manager
chunks that are to go and come in any order. Each abstracts the others by nondeterminism: what
it assumes is weaker than what the other module shows.

### How `ManagedMemory` corresponds to the code

*Threads.* `pc[p]` is where a thread is, `call[p]` what it does: the operation, its chunk and
where to go on after `waitForAIO`. A client thread is `idle` outside the manager. `mutex` is
`stateChangeMutex`. A call is cut into steps where the code branches, loops or unlocks. Other
threads can step in between only at `lock`, `cond`, `woken` and `getevents`, which is where
the code does not hold the mutex.

| Places | Code |
|---|---|
| `lock` | `pthread_mutex_lock` at the entry of a call |
| `space`, `evicted` | the loop of `ensureEnoughSpace` (`managedMemory.cpp` 185-232) |
| `evict`, `unload` | `cyclicManagedMemory::swapOut` and the loop over its list (898-1093) |
| `prepareUse`, `readUse`, `writeUse`, `unsetUse`, `mfree`, `setMemoryLimit` | the entry of these functions |
| `waitOut`, `waitIn`, `pffree` | `waitForSwapout`, `waitForSwapin`, the wait in `pffree` |
| `aio`, `getevents`, `events`, `cond`, `woken` | `waitForAIO` and `checkForAIO` |
| `stuck` | a thread that keeps the mutex for ever: an exception nobody unlocks for, or an endless loop |

*Chunks.* `status` and `useCnt` are the members of that name; `"NONE"` is a chunk that does
not exist. `swapBuf` tells whether a page location belongs to the chunk, `ram` is what `locPtr`
points to and `disk` what the location holds. `reading` and `writing` are the transfers in
`pendingAios`. Deleting a chunk and creating a new one may use the same identity again.

*Sizes.* `Size` gives padded bytes. `memory_used`, `memory_tobefreed` and `swapUsed` are
integers; that they never go below zero, where the code's unsigned counters would wrap,
follows from `Accounting`. The fractions `swapOutFrac` and `swapInFrac` are exact: 8/10 and
1/10 of the limit, rounded down as the conversion to an integer does.

*Left open.* `Selections` contains every set of victims that the backward walk can choose for
*some* order of the ring; `Cleanups` every set of cached copies that the walk over `memChunks`
can drop. Checks over these sets hold whatever order the scheduler has established. The page
file is a number of bytes: any free bytes can hold any chunk, as the fragmented allocation of
`pfmalloc` intends (`PartsSuffice` of `PageFile` is that intention). That abstracts the padding
of parts.

*Fixed.* Preemptive swap-in is off (`setPreemptiveLoading(false)`; `CyclicRing` has it), the swap
policy is `fixed` (`PageFile` has the other), the page file has no errors, `malloc` succeeds, each
chunk is transferred in one part. The threads do not share an `adhereTo` and do not copy one
(`PointerUse` does); the constructor of a `managedPtr` calls `setUse` and `unsetUse` after
`mmalloc`, which are later `Pull` and `Drop` steps here. `pthread_cond_wait` has no spurious
wake-ups; every use of it in the code is inside a loop that a wake-up only runs once more.

*Told otherwise.* `UnsetUse` has no test for a use count below zero (`managedMemory.cpp` 422-430): it
would go below zero, which `TypeOK` sees. `SwapClaim` goes by the status, where `swapDelete` looks
at `locPtr` (`managedFileSwap.cpp` 510); the two agree for every chunk that is deleted. `Revisits`
lets the walk of `swapOut` meet a victim twice; with two deletions waiting and a ring of few chunks
it could meet one a third time.

*After a double transfer.* When one chunk is read and written at once (finding 2) the program's
behaviour depends on which of the two completes first; the model keeps going with the status
alone, and nothing is claimed about what follows.

### The constants

`OutOfSwapIsFatal`, `PreemptiveUnloading` are the switches of the manager, `Limits` the
arguments of `setMemoryLimit` (empty: never called), `Prefetch` lets clients construct an
`adhereTo` with `loadImmediately`, `FreeWhileLoading` lets them delete a chunk that is being
read in. The last two exclude, in the passing runs, the behaviours of findings 1 and 2.

### How `CyclicRing` corresponds to the code

`sched` is one record: the members of the manager and of its chunks. Everything the scheduler
does happens under `stateChangeMutex`, so `Touch`, `SwapOut`, `Decay`, `SwapIn` and the others
are operators from one such record to the next, named as the code's functions, and an action is
what a thread does until it waits or returns: `Mmalloc`, `SetUse`, `UnsetUse`, `Mfree`, their
continuations after a wait (`MmallocAgain`, `RoomAgain`, `SwappedIn`, `SwappedOut`, `MfreeDone`)
and the end of a transfer, `Arrive`.

`next` and `prev` are the links, written pairwise by `Connect` (`MUTUAL_CONNECT`); `NULL` in
`next` means that the chunk is not registered. `copies` are the chunks with a page copy, `users`
the threads that have the chunk in use, `consecutive` and `sinceLast` count up to 2, after which
the code's conditions (a power of 0.1 compared with 0.01) stay as they are. The shares of
`memory_max` are computed in floats and rounded down; `MemMax` is chosen so that none is whole.
A walk that would not end puts its thread in `"stuck"`, from which nothing leads on, so TLC would
report it as a deadlock.

`Modes` are the swaps and switches: `asynchronous` stands for `managedFileSwap` (chunks pass
through `SWAPOUT` and `SWAPIN`, and keep page copies), its absence for `managedDummySwap`;
`preemptiveSwapIn` switches guesses on; `most` bounds the chunks there are.

`corners` is a history variable. It records the two corner cases after which the code itself
does not keep the order of the ring, and which are steps like all others:

* `"deleteSole"`: deleting the chunk to which both `active` and `counterActive` point moves them
  apart in opposite directions (`cyclicManagedMemory.cpp` 115-121), to the two ends of the swapped
  stretch. The chunk allocated next comes before it, and `checkCycle` then finds "Swapped elements
  in active section!".
* `"unloadAll"`: with guesses on, `swapOut` unloads every chunk in memory that is no guess. It steps
  `active` back, onto a guess or a chunk that goes as well (1000-1002), and what it repairs
  afterwards (1050-1062) leaves `counterActive` on a guess, or guesses without `preemptiveStart`.

The properties say up to where they hold: `BorderTracked`, `GuessesTogether` and `GuessesBounded`
until a corner case happens, `RingIntact` and `EvictsAllItCan` for ever without guesses (the run
goes on after a deletion) and until a corner case with them (`Orderly`). The step in which the
corner case happens is taken, and with guesses the state after it is where TLC stops following
(`CONSTRAINT Followed` in `CR_ring.cfg`): rings may be torn from there on. Unloading
guesses, and `active` while another chunk that is no guess stays, is no corner case and is followed
to the end. The findings have an instance of each case.

With guesses, an asynchronous swap breaks the ring whatever is left out: see `V_ring_torn`. The
passing run therefore has the three other modes, and shows the guesses with the dummy swap.

Left out: the page file has room for everything (`SwapSize`), guesses are not switched off when
it is nearly full, chunks are not deleted while they are read in (`V_free_while_loading`),
immediate loading, printing.
`Arrive` makes a chunk `ALLOCATED` also if it has users, who are there to protect it (the code sets
`MEM_ALLOCATED_INUSE_READ`, `managedFileSwap.cpp` 729). `FilterChain` has no element `end` before
the head of what it separates (`cyclicManagedMemory.cpp` 236-237); it would be seen only if
`insertBefore` got a place inside the chain that was filtered, as it does on the way to
`V_ring_torn`'s torn ring.

### How `PageFile` corresponds to the code

`swap` is again one record. A location is known by its offset in the range of all files
(`determineGlobalOffset`); `all_space` and `free_space` are the maps of the code. `parts` is the
chain `swapBuf`, `glob_off_next`, ...; `pending` the locations whose `aio_lock` is set; `tracker`
the shared counter of a transfer. `swapFree` is computed modulo `2^Width`. Operators are named as
the functions. `pffree` is the only one that waits: `SwapDelete` runs it as far as it gets, and
`PffreeAgain` when the location it waits for has arrived; in between other actions happen.
`AllocInFree` never returns `NULL` for want of padding (408-410): free locations are aligned.

The manager asks for anything at any time: `SwapOut` of any chunk that is loaded, preceded by
what `cyclicManagedMemory::swapOut` does to the swap first (`MakeRoom`), `SwapIn` of any that is
out, `InvalidateCacheFor`, `CleanCache`, `Mmalloc`, `Mfree`. `thrown` records an exception out of
`pfmalloc`, after which the mutex stays locked and nothing happens any more.

### How `PointerUse` corresponds to the code

`chunk[p]` is the member of that name (`NULL`: size 0, `None`: no object in this place), `tracker`
the count behind the shared pointer. `glue[g]` is an `adhereTo`: `data`, its two flags, and
`loc`, the chunk whose address it has handed out. The manager is reduced to `SwapOut` of chunks
that are not in use, `SetUse` and `SwapIn`. Calls that have several steps (`Create`, `Destroy`,
`Assign`, `Pull`, `CopyAdhereTo`, ...) go through the places in `call[t].at`.

The classes are documented as not thread-safe, their copies as free to cross threads (`managedPtr.h`
71-77, 380-386). So calls on *one* object do not overlap here, except for pulls of one `adhereTo`
when `SharedGlue` is set. Further rules for programs: no `managedPtr` is destroyed while an
`adhereTo` refers to it, none is assigned to while one has a pulled pointer (a test,
`Unit_OverwriteWhileUsing`, expects an exception then, which the code throws for a last owner
only), no `adhereTo` is assigned to itself. `setUse` does not fail, loading is one step.
The tracker of an empty `managedPtr` that is assigned over is leaked by the code; it is not
modelled.

## 3. Properties

| Property | Says | Why it could fail |
|---|---|---|
| `TypeOK` | types, use counts included | `useCnt` is lowered by callers who must have raised it |
| `Accounting` | `memory_used`, `memory_tobefreed`, `swapUsed` are the sums over the chunks by status | seven places add and subtract, some after waiting; `checkCycle` asserts the same |
| `LimitRespected` | with a fixed limit, RAM in use never exceeds it | room is made and used in different critical sections |
| `LimitKept` | once what is being written is gone, memory fits into the limit, also after it was lowered; the only step that may break this is named | `setMemoryLimit` changes what other threads' loops compare with; its walk counts what it will free before it frees it |
| `SwapBounded` | locations given out, and the counter, fit the page file | cached copies occupy pages the counter calls free |
| `TransferMatchesStatus` | a transfer pends exactly for the chunks marked so | a chunk may be unloaded while another thread is about to load it |
| `CopyCoherent` | a cached copy equals the chunk | write access must invalidate on every path |
| `UseProtects` | a pointer held points to loaded memory; a writer's chunk has no copy | victims are selected while others wait to use them |
| `UseCntExact` | the use count is the number of uses taken, calls under way and failed calls included | two kinds of pulls, one release, exceptions |
| `NeverStuck` | no call leaves the mutex locked: what `swapFree` admits `pfmalloc` can place, dropping copies if it must, and every event fits the status of its chunk | `swapFree` counts copies as free and `pfmalloc` throws when those it drops are not enough; `completeTransactionOn` throws as well |
| `StoreImplemented` | contents behave as in `ObjectStore`: they change only under a writer | all of the above |
| `TransfersEnd`, `WaitsEnd` | transfers and waits end | one thread collects events for all |
| `LockGranted`, `CallsReturn` | calls get the mutex and come back | exceptions, loops under the mutex |

`CyclicRing`:

| Property | Says | Why it could fail |
|---|---|---|
| `RingIntact` | links are mutual, one round meets every registered chunk, the pointers are into the ring; with guesses until a corner case (`corners`, section 2) | five functions cut and rejoin the ring, with special cases for short ones |
| `BorderTracked` | up to `counterActive` nothing is out; behind it one stretch of swapped chunks | chunks become `SWAPPED` later, and loading, deleting and unloading move the border. Stated for the dummy swap (see `V_ring_torn`) until a corner case |
| `GuessesTogether` | the unused guesses are what lies from `preemptiveStart` to `active`, until a corner case | a guess leaves by use, unloading, deletion or `decay` |
| `GuessesBounded` | `preemptiveBytes` is their size and stays within its share, until a corner case | it is unsigned and changed in six places |
| `EvictsAllItCan` | an allocation fails only if unloading everything unused would not help; with guesses until a corner case | the walk has a bounded number of steps from a pointer that moves |
| `AllElementsAccessed` | the ring has every registered chunk, without condition; violated in `V_ring_torn` | the same functions |

`PageFile`:

| Property | Says | Why it could fail |
|---|---|---|
| `SpaceTiled` | locations cover the files; what is lost behind one is less than padding and record | splitting, padding, merging over unusable rests |
| `ChainsWhole` | used locations belong to one chunk each, whose parts hold all of it | cached copies are freed by four callers; `pffree` stops halfway |
| `SwapFreeExact` | `swapFree` is the free bytes and what copies could give back, less what waiting deletions claim. `sigStat` (`managedFileSwap.cpp` 919) compares it with the free bytes alone and prints "insane" when there is a copy | padding is taken off in one function and found again in another |
| `TransfersWhole` | a chunk is in transition exactly while parts of it are | parts arrive in any order while others are given back |
| `PartsSuffice` | `pfmalloc` never runs off the free list | it adds up sizes first, and distributes with alignment after |
| `SpaceImplemented` | it implements `SwapSpace`: no shared bytes, and those of a chunk that is out stay the same | all of the above |

`PointerUse`:

| Property | Says | Why it could fail |
|---|---|---|
| `TrackerExact` | the tracker is the number of owners, a chunk exists as long as an owner or its deleter | several threads copy, assign and destroy |
| `UseExact` | the use count is the flags of all `adhereTo`s, less what is not yet taken, and running constructors | flags and uses change in different steps and classes |
| `PointersHold` | memory handed out is neither unloaded nor freed | copying takes the flags first and the uses later |
| `DeletedOnce` | `mfree` never meets a chunk in use; elements are destroyed once, before | the deletion itself uses the chunk |

The helper `Granted(t, c)` is the set of modes whose pointer a client may use: pulled, not
being pulled and not being dropped. `Holders(c)` are the uses that have been counted.

## 4. Runs

Sizes are 5 unless noted; `max` is the memory limit, `swap` the size of the page file.

| Run | Instance | Checks | Distinct states |
|---|---|---|---|
| `MM_threads` | 2 threads, 3 chunks, max 10, swap 12, preemptive unloading | `TypeOK Accounting SwapBounded LimitRespected UseProtects UseCntExact NeverStuck` | 1.0 million |
| `MM_store` | 2 threads, 2 chunks, 2 contents, limits 3, 5 and 10, swap 10, lack of memory not fatal | `CopyCoherent LimitKept StoreImplemented` | 806 000 |
| `MM_live` | 2 threads, 2 chunks, max 5, fairness | `TransfersEnd WaitsEnd LockGranted` | 93 000 |
| `MM_calls` | 1 thread, 3 chunks, max 10, swap 10, immediate loading, preemptive unloading, fairness | `TransferMatchesStatus CallsReturn` | 59 000 |
| `CR_ring` | 2 threads, chunks of 20, 1, 1, 1, max 22; file swap without guesses, dummy swap without and with guesses | `TypeOK RingIntact BorderTracked GuessesTogether GuessesBounded EvictsAllItCan` | 904 000 |
| `PF_space` | chunks of 3, 4, 6, files of 12, one or two, alignment 1 or 4, records of 2 | `TypeOK SpaceTiled ChainsWhole SwapFreeExact TransfersWhole PartsSuffice SpaceImplemented` | 947 000 |
| `PU_use` | 2 threads, 3 `managedPtr`s, 3 `adhereTo`s, 2 chunks, one of a class | `TypeOK TrackerExact UseExact PointersHold DeletedOnce` | 354 000 |

All of them also look for deadlock. The bounds are chosen so that the interesting things happen.

* *ManagedMemory*: one chunk more than fits into RAM forces evictions; a page file of 12 bytes
  for chunks of 5 leaves a remainder of 2 that is not enough for a chunk, so that cached copies have
  to go, and `pfmalloc` throws if they do not make up for what is missing (`MM_threads`); one of 10
  is full to the last byte when two chunks are out (`MM_calls`); two threads are enough for a thread
  to collect another's transfers (the arrival thread is a third), to find the other's chunk in each
  state, and to wait for what the other holds. A second content distinguishes stale copies.
* *CyclicRing*: with a memory of 22 a guess can take 2 bytes, so two small chunks can be guessed
  at a time and a third waits; the large one does not fit beside the three others, makes `swapOut`
  take several, and is unloaded together with small ones. Rings of every length from 0 to 4 occur,
  with every special case of insertion at the ends. Each thread has one chunk in use at once
  (`MaxUses`). By hand also checked: chunks of 20, 10, 1, 1, 1, with four at a time over the file
  swap and all five over the dummy swap (4.7 million states); guesses with three large and three
  small chunks, two large and four small, and up to three uses of one thread.
* *PageFile*: 13 bytes of chunks in a file of 12 need fragments, deleted copies and a second
  file. Alignment 1 with records of 2 makes rests that cannot be recorded; alignment 4 pads every
  part. `MaxFiles` bounds the disk, `Width` is wide enough for all sums and shows a wrap.
* *PointerUse*: three places allow a copy to be made while another is assigned and a third
  destroyed. A third chunk adds 1.1 million states and no error.

The other five runs are the findings.

| Run | Property violated | What happens |
|---|---|---|
| `V_free_while_loading` | `Accounting` | `mfree` decides by `status == MEM_ALLOCATED` before `pffree` waits for the read; the chunk's memory and its bytes in `memory_used` leak (`managedMemory.cpp` 511). |
| `V_prefetch_race` | `TransferMatchesStatus` | `prepareUse` of an `adhereTo` has no use count while it waits for room; the chunk may be on its way *out* when `managedFileSwap::swapIn` (516-537) gets it, which refuses only chunks that are in or coming in. It is then read and written at once. |
| `V_ring_torn` | `AllElementsAccessed` | `swapIn` repairs `counterActive` only if its chunk is `MEM_SWAPPED` (`cyclicManagedMemory.cpp` 590, 616); with asynchronous writes it may be `MEM_SWAPOUT`, the border is left behind, and a later `swapIn` rejoins the ring without some of its chunks. This is the default configuration. One thread, 2 large and 2 small chunks; deletions of the only chunk in memory, which tear the ring too, are not followed (`CONSTRAINT NoneDeleted`). Without guesses the ring survives (`CR_ring`), but the border does not: drop a chunk of 20, so that it and one of 1 are unloaded, and use it again when it is written and the other is not; `counterActive` stays on the chunk that is being written, inside the active section (an error of `checkCycle`, 711). |
| `V_swap_free_wraps` | `NothingOverclaimed` | a deleted chunk's first part is free before its claim is returned, since `pffree` waits for the second (`managedFileSwap.cpp` 448); another chunk passes the test of `swapOut`, its padding and size are claimed, and the unsigned `swapFree` wraps. |
| `V_shared_pull` | `WaiterIsServed` | the loser of the compare-and-swap on a shared `adhereTo` goes round in `managedPtr::waitForSwapin` (`managedPtr.h` 352) with `stateChangeMutex`, which the winner needs to bring the chunk in. |

### Known limits of the code

Met while modelling, and not among the runs:

* With `setOutOfSwapIsFatal(false)` a thread that needs memory loops in `ensureEnoughSpace` with
  the mutex held when no transfer is queued (`managedMemory.cpp` 211-226): `checkForAIO` then
  returns at once. Nobody can release memory, so `LockGranted` needs `OutOfSwapIsFatal`.
* `setUse` sets the read state after waiting for a swap-in even when a writer has been there
  before (`managedMemory.cpp` 355). The page copy is gone by then, so contents stay right.
* `cleanedUp > minimum_size` (`managedFileSwap.cpp` 941) is false when exactly enough has been
  freed: `pfmalloc` throws, with both mutexes locked, though the chunk would fit and the comment
  above it (308-312) says "delete cached files and look again". The sizes of the runs exclude an
  exact fit; `NobodyStuck` says when it cannot happen. Instance (a finding): chunks of 3, 5 and 5,
  memory 8, page file 10; allocate all, the third unloads the others; read the one of 3, its copy
  stays; use the one of 5 that is out. `pfmalloc` also returns no location when no location is free
  at all, without deleting copies (line 316).
* `sigStat` prints "insane" whenever there is a page copy (a finding): it compares `free_space` with
  `swapFree`, which counts copies as free.
* The corner cases of the ring, section 2: two findings.
* With guesses and a swap that waits, `swapIn` keeps a pointer to `counterActive`'s element
  (`oldBorder`, `cyclicManagedMemory.cpp` 405) while it waits for room; another thread's `mfree` can
  delete the element. `V_ring_torn` has one thread.
* `setMemoryLimit` can report success and leave more in memory than the new limit allows, with
  nothing under way. The walk of `swapOut` takes as many steps as there are chunks in `memChunks`
  (`cyclicManagedMemory.cpp` 942); while another thread's `mfree` waits for a transfer its chunk is
  in there and not in the ring, so the walk meets a victim twice and its size counts twice
  (`managedFileSwap.cpp` 556). Instance: two threads, three chunks of 5, limit 15 lowered to 3. The
  comment in `managedMemory.h` 85-91 promises that the call returns whether the limit could be
  reached. `LimitKept` names this one step and excludes every other.

### Fairness

`FairSpec` assumes of the environment and the scheduler:

* `SF_vars(Step(p))` for every thread: a thread inside the manager that can move again and
  again does so. Strong fairness is needed because a step may be taking the mutex, which other
  threads take and release in between. It stands for a mutex that does not starve a thread.
* `SF_vars(Reported(c))` for every chunk: when a transfer of `c` is pending and events are
  asked for again and again, the kernel reports it. The code has no timeouts on transfers and
  cannot do without this.
* `WF_vars` of the arrival thread's own steps: it polls every millisecond (`io_arrrive_worker`).

Clients are under no obligation: they may hold pointers for ever. Therefore no property says
that a call of one thread returns while other threads have the chunks it needs to go. `MM_live`
has `OutOfSwapIsFatal` set: then such a call ends in an exception.

## 5. Proofs

Every safety property that the runs of `ManagedMemory`, `PointerUse` and `PageFile` check is also a
theorem, for any finite sets of threads, chunks, `managedPtr`s and `adhereTo`s, any sizes, limits,
page files, alignments and values of the switches, except where a hypothesis is named. So are the
two refinements. The constants have no assumptions but the `ConstantsAssumption` of each module:
sets are finite, sizes are positive, `None` and the arrival thread are nobody else. For `PageFile`,
the size of a page file is a multiple of the alignment, as `managedFileSwap`'s constructor makes
it, a location's record takes at least a byte, twice the most bytes there can be fit
into a `global_bytesize`, and (`NamesAssumption`) no chunk has the name of another outcome recorded
in `thrown`.

| Theorem | Property | Hypothesis |
|---|---|---|
| `TypeCorrect`, `UseCountsExact` | `TypeOK`, `UseCntExact` | |
| `TransfersMatch`, `CopiesCoherent`, `UsesProtect` | `TransferMatchesStatus`, `CopyCoherent`, `UseProtects` | `NoRace` |
| `StoreRefined` | `StoreImplemented`: `ObjectStore` is implemented | `NoRace` |
| `CountersExact`, `SwapNeverOvercommitted` | `Accounting`, `SwapBounded` | `NoRace` |
| `LimitIsRespected`, `LimitIsKept` | `LimitRespected`, `LimitKept` | `NoRace` |
| `NobodyStuck` | `NeverStuck` | `NoRace`, `NoExactFit` |
| `TrackerIsExact`, `TypesHold`, `UsesAreExact`, `ChunksDeletedOnce` | `TrackerExact`, `TypeOK`, `UseExact`, `DeletedOnce` of `PointerUse` | |
| `PointersAreHeld` | `PointersHold` | `~SharedGlue` |
| `Typed`, `Tiling`, `Chains`, `Transfers` | `TypeOK`, `SpaceTiled`, `ChainsWhole`, `TransfersWhole` of `PageFile` | |
| `Exactness`, `Sufficing` | `SwapFreeExact`, `PartsSuffice` | |
| `Implementation` | `SpaceImplemented`: `SwapSpace` is implemented | |
| `RingTyped`, `RingWhole`, `RingEvictsAllItCan` | `TypeOK`, `RingIntact`, `EvictsAllItCan` of `CyclicRing` | no guesses |
| `RingBorderTracked` | `BorderTracked` | no guesses; the property itself says dummy swap and until a corner case |

`NoRace` is `Prefetch => ~FreeWhileLoading /\ \A t, u \in Threads : t = u`: clients do not construct
an `adhereTo` with `loadImmediately`, or there is one client, which does not delete a chunk that
is being read in. Without prefetching it says nothing about `Threads` and `FreeWhileLoading`. It
cannot be dropped: `V_prefetch_race` and `V_free_while_loading` are counterexamples with two
threads, and with one. It is exactly what the passing runs satisfy.

### Types and use counts (`ManagedMemory_proofs`)

The interesting conjunct of `TypeOK` is `useCnt \in [Chunks -> Nat]`, which needs that whoever
lowers a count has raised it, that is `UseCntExact`. That in turn needs to know which calls a
thread can be in. So

    IInv == ControlInv /\ DataTyped /\ UsesInv

* `ControlInv`: the types of `pc`, `call` and `loaded`, and `PlaceOK`: each operation is only
  ever at its own places (`Inside(op)`), and comes back from `waitForAIO` to one of them.
* `DataTyped`: the types of the rest.
* `UsesInv`: `FlagOK` (a use call has its flag set, a release has some), `FreeOK` (nobody has a
  use of a chunk that is being deleted or created) and `UseCntExact`.

The proof has one lemma for each group of actions and each part. `Moves(p)` says that a step
takes thread `p` from one place to another its operation allows and leaves the other threads
where they are, up to waking; the lemmas `...Moves` show it for the manager's actions, and
`MovesPlace` and `MovesFlags` draw the conclusions once. `QuietSteps` collects the actions that
touch neither counts nor flags; `SetUseCount`, `UnsetUseCount` and `MfreeCount` do the counting
for the three that do, with `Cardinality` of `Holders(c)` before and after.

### Safety (`ManagedMemory_proofs`, second part)

    SInv == IInv /\ ThreadInv /\ ContentInv /\ UseProtects

The difficulty is the mutex that is given away in the middle of calls. `ThreadInv` says what
survives there. `MutexOK`: who is between two such points has the mutex, and nobody else does.
`AloneOK`, `AliveOK`: a chunk that is being made or freed has one thread, and any other chunk
that a call or a flag refers to exists. `WantedOK`: nobody unloads the chunk for which a thread
makes room, because that thread has counted its use already; for `prepareUse`, which has not,
this is where `NoRace` is needed. `FreeingOK`: a chunk whose pages are waited for by `mfree` stays
as it is. `ReaderOK`: a chunk that comes in has somebody waiting for it. `VictimsOK`: nobody uses
a victim between its selection and its unloading. `ContentInv` relates transfers, copies and
contents to the status.

`Does(p)` is what a step of a thread inside the manager can do: one `Flow` for each way in which a
status changes (`Making`, `Granting`, `Releasing`, `Unloading`, `Reading`, `Arriving`, `Freeing`),
with the place in which it happens. Each action is shown to be a `Does(p)` once; each conjunct of
`SInv` is then preserved by `Does(p)`, whatever the action was. Clients' steps are few and done
directly.

**Refinement.** `StoreRefined` shows `Spec => StoreImplemented` step by step. The mapping takes the
content of a chunk from `ram` or `disk` by its status. A step that moves a content from one to the
other (unloading, arrival) maps to a stutter, by `ContentInv`; `Writable` changes for one chunk
only (`WritersKept`), when a write call ends or its client drops it; making and freeing a chunk are
`Create` and `Delete`. Each of these lemmas ends in `StoreFollows` or `StoreStutters`.

### Bytes (`ManagedMemory_bytes_proofs`)

    BInv == Accounting /\ SwapBounded /\ LimitRespected /\ AskedOK /\ PromiseOK

A counter is the sum of a set of chunks; a step changes the set by the chunk whose status it
changes (`Recounted`), and may not change both of two counters or none. `SwapBounded` needs what
`pfmalloc` can find: if the bytes nobody has taken do not suffice, the copies dropped make up for
the rest. For the limit, `ensureEnoughSpace` compares before each return with the mutex held. For
`LimitKept` one also has to know, while `setMemoryLimit` runs `swapOut`, that what it has counted so
far covers what is too much (`PromiseOK`). This holds as long as ring and `memChunks` agree, and
the one case in which they do not is what `LimitKept` excepts; see the known limits.

`NobodyStuck` adds that whoever waits for its chunk to be read in has a pending read (`ReadyOK`),
so that no end of a transfer finds a chunk in the wrong state, and `NoExactFit`: chunks have one
size, or the page file has room for all of them. Otherwise `pfmalloc` may drop exactly the bytes it
misses, and throws.

### Owners, uses and addresses (`PointerUse_proofs`)

The first invariant is about owners:

    IInv == Typed /\ Shapes /\ Jobs /\ Apart /\ Counted /\ Adhering

* `Typed`: the types of all variables but `useCnt` and `built`, which the tracker does not need;
  `tracker \in [Chunks -> Nat]` holds because whoever lets go of a chunk is counted.
* `Shapes`: which members a call has by what it is for, and where it can be.
* `Jobs`, `Apart`: the `managedPtr` of a call keeps its chunk until the call ends, the right hand
  side of an assignment keeps another one, and no two calls work on one `managedPtr`.
* `Counted`: `TrackerExact` with the deleter named instead of counted; `CountedExact` draws the
  conclusion.
* `Adhering`: an `adhereTo` refers to a living `managedPtr`. A thread that brings a chunk in
  through it therefore revives no deleted chunk (`CalledChunkIsThere`), the one way in which
  `adhereTo`s could break the count.

Steps that leave the `managedPtr`s alone are dealt with by `QuietKeeps` and `QuietPtrsKeep`.
`RebindKeeps` covers all that change what one `managedPtr` refers to in a single step (`CreateEmpty`,
`Copy`, `Destroy` and `Assign` of one that is not the last), `MDeleteKeeps` those that begin a
deletion. `OwnersChange` says what one owner more or less does to the cardinality.

The second is about uses, `UInv == IInv /\ UsesOK /\ RoomsOK /\ Lefts /\ Voids /\ RunsOK /\ Builds`. The
flags of an `adhereTo` are set before its uses are taken, one at a time, possibly by several
threads. `Waiting(g)` is the sum over all calls of the uses they have still to take for `g`;
`Taken(g, c)` is what `g` has marked, less that; `Held(c)` the sum of these over all `adhereTo`s; and
`UsesOK` says that `useCnt[c]` is `Held(c)` plus the constructors and destructors running for `c`.
Every action changes the call of one thread and one `adhereTo` (`OneCall`, `UsesMove`). The other
conjuncts say how many uses a call has left at each place, that an `adhereTo` that does not exist
has no marks, that constructors and destructors run on loaded chunks, and which elements exist.
`UseExact` counts the same uses by threads instead of by `adhereTo`s, and follows by exchanging the
order of summation (`AwaitedByGlueAndThread`).

The third, `PInv == UInv /\ Alone /\ LocsOK`, is for addresses: if no two calls work on one
`adhereTo`, one that shows an address has taken at least one use. With shared ones this is false
(a second pull may find the mark of a first that has not taken its use), and `V_shared_pull` shows
what comes of it. All the counts and deletions are exact nevertheless.

All these invariants were checked with TLC on the instances of the runs before they were proved.

### The page files (`PageFile_proofs`, `PageFile_safety_proofs`)

The six invariants of `PageFile` need each other: a location is given back correctly only if it is
used and belongs to the chunk alone, a copy is worth its size in `swapFree` only if its chain is
whole, and pffree meets the right locations only if nothing of the chunk is on its way. The
inductive invariant is

    Good(s, del) == /\ Sane(s) /\ Ended(s) /\ Tracked(s) /\ Listed(s) /\ Accounted(s)
                    /\ Whole(s, del) /\ Waiting(s, del) /\ ...

* `Sane`: types, `Tiled` (`SpaceTiled` with `IsNext(s, off, nx)` for the next key instead of the
  minimum of a set), `Chained` (each used location is in one place of one chain) and pending
  locations are used.
* `Ended`, `Tracked`, `Listed`: the mark of the last location; trackers, and the status that goes
  with them; `memChunks` has each living chunk once.
* `Accounted`: `swapFree = Wrap(AllBytes(s) - Claimed(s))`. This is not `SwapFreeExact` but what
  makes it inductive: what all locations hold, free or used, less what chunks *claim* by their
  status. `allocInFree` and `pffree` change only the first (`Balanced`), the operations on chunks
  only the second.
* `Whole`, `Waiting`: a chunk that claims bytes or has locations, and is not being deleted, holds
  exactly `Size[c]`; one whose deletion waits was out, and has locations left.

`PageFile_proofs` is about single operators. `AllocTiled` and `FreeTiled` show that splitting and
merging keep the tiling, by cases on whether a rest is recorded and on which neighbours are free;
alignment of free sizes is what makes the padding of a location fit into it. `AllocBalanced` and
`FreeBalanced` compare the sums. Relations say what an operation has done to a state (`Alloced`,
`Freed`, `Given`, `Cleaned`, `Taken`, in the other module `Extended`) and compose: `Given(s, r, c, j)`,
that the first `j` locations of `c` have been given back, is proved for one location and then for
one more, `Cleaned(s, r, K)` for one page copy and then for one more. `DistributeIs` shows that
when the free bytes suffice nothing is left over at the end of the list: as long as bytes are left,
each location is used whole, for its size is aligned.

The loops are folds in the model, over the chain of a chunk, over `memChunks`, over the free list.
Induction over sequences is out of reach as a theorem with an operator parameter, so the recursive
function behind `FoldLeft` is taken apart once, in `Walks`: `WalksExist` (there is such a function, by
`SubsetInduction` of `Sums`) and `WalkGoes` give `Course(h, walk, x, base, q, n)`, a sequence of
intermediate states with `h[0]` the first and `h[i]` one step on from `h[i - 1]`. What follows is
`NumberInduction` on `i`. `RanksAre` shows that `FreeList` meets each free location once.

`PageFile_safety_proofs` has a lemma for each operation that `Good` is preserved, and `StepGood`
for the next-state relation. `SwapFreeExact` follows at the end: `HeldSum` adds up the chains to
the used bytes, and `ClaimsAre` says chunk by chunk that what it holds and what its deletion
holds back is what it claims, and its size if it is a page copy.

The conjuncts of `Good` were checked with TLC on the instance of `PF_space`, except for those that
quantify over all numbers, whose place `TypeOK` and `SpaceTiled` take there.

### The space of a chunk (`PageFile_safety_proofs`, last part)

`Implementation` is `Spec => SpaceImplemented`. Locations do not overlap, so chunks have no byte in
common (`BytesApart`), and a chunk has as many bytes as its locations hold (`BytesCount`, by
induction on the set of locations); both hold in every state, by `Good`. For the steps, `Moves`
lists what may happen to a chunk: it stays where it is, it loses locations and is not kept before
or not after, or it is kept from now on. A chunk whose page copy is deleted (`Frees`) is loaded and
so not kept, however many copies `MakeRoom` and `pfmalloc` delete on the way; one that is swapped
out is new among the kept (`Out`); one that is deleted is no longer one of them (`DeleteMoves`).

### The ring (`CyclicRing_proofs`)

The theorems about `CyclicRing` have the hypothesis `~sched.preemptiveSwapIn` for the initial state: managers that
swap nothing in on a guess (`setPreemptiveLoading(false)`; the mode never changes), over either swap.
The ring with guesses over an asynchronous swap breaks (`V_ring_torn`), so there is nothing of this
kind to prove there; with guesses over the dummy swap the same properties are model-checked.

`RingIntact` names the ring as the walk of a certain length from `active`. To follow the links that
the code cuts and joins, that is said without an order:

    OneRing(nx, pv, R) == /\ \A c \in R : nx[c] \in R /\ pv[c] \in R /\ pv[nx[c]] = c /\ nx[pv[c]] = c
                          /\ \A S \in SUBSET R : S # {} /\ (\A c \in S : nx[c] \in S) => S = R

The second part excludes two rings beside each other. `RingPut`, `RingCut` and `RingReordered` show
that putting a chunk in, cutting one out and putting a stretch of the ring into another order leave
one ring. The last is what `swapOut` does: `filterChain` separates the chunks that have gone from
those that stay, links both (`SortedIs`, `JoinedIs`), and `insertBefore` puts the former behind the
latter (`GatherAwayIs`, with a case for a stretch that is the whole ring and one for a stretch of
which nothing stays). `WalkCovers` goes back to the walk: on `OneRing` it meets everything in as many
steps as there are chunks.

Each operator then has a lemma about whole states. `Works(s, r)`: `swapOut`, `touch`, `swapIn` and
`ensureEnoughSpace` keep the ring and its members; `Recast`: registration and deletion change them by
one. The inductive invariant is

    Sound(s, cl) == Whole(s) /\ (mode) /\ (types of calls) /\ (users are of chunks in the ring)
                    /\ (outside the ring are only chunks whose deletion waits) /\ Placed /\ Apart

`Placed` says in which state the chunk of a waiting call can be, `Apart` that no two calls allocate or
delete one chunk. `RingTyped` and `RingWhole` follow.

For `EvictsAllItCan`, `Within` is inductive next to `Sound`: what is in memory or on its way stays
within `memory_max`, which needs that a chunk somebody waits for is there when the wait ends and that
a `swapIn` that waits for room still asks for its chunk's size. Then the page file has room for every
victim (`FileHasRoom`), and the walk of `swapOut`, which takes as many steps as there are chunks,
either gets what it is after or has taken every candidate of the ring (`VictimsMiss`, `MetAll`).

`BorderTracked` is about the order of the ring, and claims something only of a swap that transfers at
once; `RingBorderTracked` therefore has the hypothesis `~sched.asynchronous`, for the initial state
like the other. Inductive next to `Sound` and `Within` is

    Sectioned(s) == ~s.asynchronous /\ (no chunk is on its way) /\ (what is not in the ring is gone)
                    /\ Together(s.next, Resident(s), s.active, s.counterActive)

`Together(nx, A, a, b)`: if no chunk is in `A`, both pointers are at one chunk; else both are in `A`, and
from each chunk of `A` but `b`, `next` leads into `A`. So the chunks in memory are one stretch that
ends in `counterActive`, again without an order being named. The lemmas `SwapOutSections`,
`TouchSections`, `RegisterSections`, `DeleteSections`, `SwapInSections` follow it through the operators.
`swapOut` is the hardest: the stretch that `filterChain` reorders reaches from the last victim to
`counterActive`, and must contain every victim (`Covered`, by `NoReturn`: the backward walk does not meet a
chunk twice before it has met all); then what remains before the new border is what remains in memory
(`JoinsShrinks`). `Within` is needed because a thread that waits for a chunk finds it
there. `"deleteSole"` is the one step that does not preserve `Sectioned`, since the pointers are moved
apart; the theorem's invariant is `Sectioned` until it happens, which is what the property says.

### Sums and loops

The proofs above need sums over sets: `Bytes` over chunks and locations, uses over calls and
`adhereTo`s. The
folds of the community modules are defined by recursion on sets; `Sums` shows what is needed of
them. `SumsExists` and `SumIsSums` say that a function with the two recursive equations exists on
the subsets of a finite set and is the fold. This and all that follows (adding, removing, union,
monotonicity, exchange of the order) is induction over finite sets; it is done without an
induction theorem with an operator parameter, by taking a minimal subset among the
counterexamples, which are a set (`SubsetInduction`, `NumberInduction`).

### Only model-checked

* Liveness under fairness (`TransfersEnd`, `WaitsEnd`, `LockGranted`, `CallsReturn`): out of the
  prover's reach.
* `CyclicRing` with guesses, over the dummy swap: `RingIntact`, `BorderTracked`, `EvictsAllItCan`, and
  `GuessesTogether` and `GuessesBounded`, which say something only there. `decay` and the guesses of
  `swapIn` move chunks at the other end of the stretch that `Together` describes; an inductive invariant
  has to name both ends and follow chunk by chunk what one call decays and guesses.

## 6. Not modelled

`PROJECT.json` lists every component with its status. Left aside for good: the text processing
of `regexMatcher`, `Timer` and statistics, messages, `mrealloc` (it throws), the file system
calls behind the page files, `dummyManagedMemory` (it throws). Not modelled yet: the submit
workers and `close` of the swap, failing `malloc` and disks, exceptions that leave `setUse` in the
middle of a pull or of a destructor (in `ManagedMemory` they unwind the whole `adhereTo`), the
critical section, `PARENTAL_CONTROL`, the stack of managers.

## 7. Plan

1. `ObjectStore`, `ManagedMemory`, `CyclicRing`, `PageFile` with `SwapSpace`, `PointerUse`: done.
2. Proofs of the safety of `ManagedMemory`, `PointerUse` and `PageFile`, and of `CyclicRing` without
   guesses: done. Next the ring with guesses over the dummy swap.
3. `AioPipeline`: queue of requests, submit workers, close; composed with the waiting loops: each
   request is submitted once, close returns.
4. The critical section: pulls of two threads, with room for two chunks.
5. `ParentalControl`, the stack of managers with configuration.
