------------------------------ MODULE PointerUse ------------------------------
(***************************************************************************)
(* The user side of rambrain: managedPtr, which counts its copies in a     *)
(* tracker and deletes the chunk with the last of them, and adhereTo,      *)
(* which takes the chunk of a managedPtr into use when a pointer is pulled *)
(* from it and gives the use back in its destructor.                       *)
(*                                                                         *)
(* The manager is reduced to what these classes see of it: a chunk is in   *)
(* memory or not, is not unloaded while its use count is positive, and     *)
(* comes back some time after setUse has asked for it.  How it does so is  *)
(* modelled in ManagedMemory.                                              *)
(*                                                                         *)
(* Objects of both classes are not thread-safe: a program lets no two      *)
(* threads work on one of them at a time.  Copies of one managedPtr, and   *)
(* adhereTos of one managedPtr, are used by different threads freely.      *)
(***************************************************************************)
EXTENDS Integers, FiniteSets, FiniteSetsExt

CONSTANTS Threads,
          Ptrs,       \* places for a managedPtr
          Glues,      \* places for an adhereTo
          Chunks,     \* identities of managedMemoryChunks
          Classes,    \* chunks whose elements have a destructor
          NULL,       \* no chunk: a managedPtr of size 0
          None,       \* nothing in this place
          SharedGlue  \* BOOLEAN: threads pull from one adhereTo at the same time

ASSUME ConstantsAssumption ==
    /\ IsFiniteSet(Threads) /\ IsFiniteSet(Ptrs) /\ IsFiniteSet(Glues) /\ IsFiniteSet(Chunks)
    /\ Classes \subseteq Chunks
    /\ NULL \notin Chunks /\ None \notin Chunks \cup Ptrs \cup Glues \cup {NULL}
    /\ SharedGlue \in BOOLEAN

VARIABLES
    chunk,      \* chunk of a managedPtr
    tracker,    \* the count all managedPtrs to a chunk share
    glue,       \* adhereTo: data, loadedReadable, loadedWritable, and where it has pointed to
    status,     \* of a chunk
    useCnt,     \* of a chunk
    built,      \* chunks with constructed elements
    call        \* the member function a thread is in

vars == <<chunk, tracker, glue, status, useCnt, built, call>>

NoGlue == [data |-> None, loadedReadable |-> FALSE, loadedWritable |-> FALSE, loc |-> None]

\* at: where the thread is; then: what it wants the use for; left: calls of setUse to come;
\* ref: the right hand side of an assignment.
Idle == [at |-> "idle", then |-> "none", chunk |-> None, ptr |-> None, ref |-> None,
         glue |-> None, left |-> 0]

Modes  == {"loadedReadable", "loadedWritable"}
Stages == {"idle", "prepareUse", "setUse", "room", "construct", "destruct", "mfree", "getLocPtr", "spin"}

TypeOK ==
    /\ chunk \in [Ptrs -> Chunks \cup {NULL, None}]
    /\ tracker \in [Chunks -> Nat] /\ useCnt \in [Chunks -> Nat]
    /\ glue \in [Glues -> [data : Ptrs \cup {None}, loadedReadable : BOOLEAN,
                           loadedWritable : BOOLEAN, loc : Chunks \cup {None}]]
    /\ status \in [Chunks -> {"NONE", "ALLOCATED", "SWAPPED"}]
    /\ built \subseteq Chunks
    /\ call \in [Threads -> [at : Stages, then : {"none", "construct", "destruct", "pull", "copy"},
                            chunk : Chunks \cup {None}, ptr : Ptrs \cup {None},
                            ref : Ptrs \cup {None}, glue : Glues \cup {None}, left : 0..2]]

Init ==
    /\ chunk = [p \in Ptrs |-> None]
    /\ tracker = [c \in Chunks |-> 0] /\ useCnt = [c \in Chunks |-> 0]
    /\ glue = [g \in Glues |-> NoGlue]
    /\ status = [c \in Chunks |-> "NONE"]
    /\ built = {}
    /\ call = [t \in Threads |-> Idle]

-----------------------------------------------------------------------------
Live(p)  == chunk[p] # None
Exists(g) == glue[g].data # None
Loaded(g) == Cardinality({m \in Modes : glue[g][m]})
ChunkOf(g) == chunk[glue[g].data]

\* No thread is in a member function that changes the object; and none reads it either.
Readable(p)   == Live(p) /\ \A t \in Threads : call[t].ptr # p
PtrAtRest(p)  == \A t \in Threads : p \notin {call[t].ptr, call[t].ref}
GlueAtRest(g) == \A t \in Threads : call[t].glue # g

MutexFree == \A t \in Threads : call[t].at # "spin"

Continue(t, r) == call' = [call EXCEPT ![t] = r]
Return(t) == Continue(t, Idle)

-----------------------------------------------------------------------------
(* The manager *)

\* Room is needed for other chunks.
SwapOut(c) ==
    /\ MutexFree /\ status[c] = "ALLOCATED" /\ useCnt[c] = 0
    /\ status' = [status EXCEPT ![c] = "SWAPPED"]
    /\ UNCHANGED <<chunk, tracker, glue, useCnt, built, call>>

\* Call r of t has its chunk in memory and in use; a pull hands out the address.
Granted(t, r) ==
    /\ Continue(t, IF r.left > 0 THEN [r EXCEPT !.at = "setUse"]
                   ELSE IF r.then \in {"construct", "destruct"} THEN [r EXCEPT !.at = r.then]
                   ELSE Idle)
    /\ glue' = IF r.then = "pull" THEN [glue EXCEPT ![r.glue].loc = r.chunk] ELSE glue

\* The use is counted before the chunk is waited for.
SetUse(t) ==
    LET r == [call[t] EXCEPT !.left = @ - 1]
    IN  /\ MutexFree /\ call[t].at = "setUse"
        /\ useCnt' = [useCnt EXCEPT ![r.chunk] = @ + 1]
        /\ IF status[r.chunk] = "SWAPPED" THEN Continue(t, [r EXCEPT !.at = "room"]) /\ UNCHANGED glue
           ELSE Granted(t, r)
        /\ UNCHANGED <<chunk, tracker, status, built>>

\* There is room and the chunk is swapped in.
SwapIn(t) ==
    LET r == call[t]
    IN  /\ MutexFree /\ r.at \in {"room", "prepareUse"}
        /\ status' = [status EXCEPT ![r.chunk] = "ALLOCATED"]
        /\ IF r.at = "room" THEN Granted(t, r) ELSE Return(t) /\ UNCHANGED glue
        /\ UNCHANGED <<chunk, tracker, useCnt, built>>

-----------------------------------------------------------------------------
(* managedPtr *)

\* The constructor, for no elements and for some.  mmalloc gives a chunk in memory that is
\* not in use yet.
CreateEmpty(t, p) ==
    /\ call[t].at = "idle" /\ ~Live(p) /\ PtrAtRest(p)
    /\ chunk' = [chunk EXCEPT ![p] = NULL]
    /\ UNCHANGED <<tracker, glue, status, useCnt, built, call>>

Create(t, p, c) ==
    /\ MutexFree /\ call[t].at = "idle" /\ ~Live(p) /\ PtrAtRest(p) /\ status[c] = "NONE"
    /\ status'  = [status EXCEPT ![c] = "ALLOCATED"]
    /\ tracker' = [tracker EXCEPT ![c] = 1]
    /\ Continue(t, [Idle EXCEPT !.at = "setUse", !.then = "construct", !.left = 1, !.ptr = p, !.chunk = c])
    /\ UNCHANGED <<chunk, glue, useCnt, built>>

Construct(t) ==
    LET c == call[t].chunk
    IN  /\ MutexFree /\ call[t].at = "construct"
        /\ built'  = built \cup {c}
        /\ useCnt' = [useCnt EXCEPT ![c] = @ - 1]
        /\ chunk'  = [chunk EXCEPT ![call[t].ptr] = c]
        /\ Return(t)
        /\ UNCHANGED <<tracker, glue, status>>

Added_Not(count, c) == count                                             \* mutant

\* What the shared count becomes when one managedPtr more refers to chunk c.
Added(count, c) == IF c = NULL THEN count ELSE [count EXCEPT ![c] = @ + 1]

Copy(t, p, q) ==
    /\ call[t].at = "idle" /\ ~Live(p) /\ PtrAtRest(p) /\ Readable(q)
    /\ chunk'   = [chunk EXCEPT ![p] = chunk[q]]
    /\ tracker' = Added(tracker, chunk[q])
    /\ UNCHANGED <<glue, status, useCnt, built, call>>

MDelete_NoDestructors(t, p, q) ==                                        \* mutant
    Continue(t, [Idle EXCEPT !.at = "mfree", !.then = "destruct", !.ptr = p, !.ref = q,
                             !.chunk = chunk[p]])

\* mDelete, from where it first calls the manager.
MDelete(t, p, q) ==
    Continue(t, [Idle EXCEPT !.at = IF chunk[p] \in Classes THEN "setUse" ELSE "mfree",
                             !.then = "destruct", !.left = IF chunk[p] \in Classes THEN 1 ELSE 0,
                             !.ptr = p, !.ref = q, !.chunk = chunk[p]])

\* The destructor.  A program does not destroy a managedPtr that an adhereTo refers to.
Destroy(t, p) ==
    LET c == chunk[p]
    IN  /\ call[t].at = "idle" /\ Live(p) /\ PtrAtRest(p)
        /\ \A g \in Glues : glue[g].data # p
        /\ IF c = NULL THEN chunk' = [chunk EXCEPT ![p] = None] /\ UNCHANGED <<tracker, call>>
           ELSE /\ tracker' = [tracker EXCEPT ![c] = @ - 1]
                /\ IF tracker[c] = 1 THEN MDelete(t, p, None) /\ UNCHANGED chunk
                   ELSE chunk' = [chunk EXCEPT ![p] = None] /\ UNCHANGED call
        /\ UNCHANGED <<glue, status, useCnt, built>>

\* p = q.  Unit_OverwriteWhileUsing has it throw if a pointer is in use; programs do not.
Assign(t, p, q) ==
    LET c    == chunk[p]
        last == c # NULL /\ tracker[c] = 1
        less == IF c = NULL THEN tracker ELSE [tracker EXCEPT ![c] = @ - 1]
    IN  /\ call[t].at = "idle"
        /\ Live(p) /\ PtrAtRest(p) /\ Readable(q) /\ c # chunk[q]
        /\ \A g \in Glues : glue[g].data = p => Loaded(g) = 0 /\ GlueAtRest(g)
        /\ IF last THEN MDelete(t, p, q) /\ tracker' = less /\ UNCHANGED chunk
           ELSE /\ tracker' = Added(less, chunk[q])
                /\ chunk'   = [chunk EXCEPT ![p] = chunk[q]]
                /\ UNCHANGED call
        /\ UNCHANGED <<glue, status, useCnt, built>>

Destruct(t) ==
    LET c == call[t].chunk
    IN  /\ MutexFree /\ call[t].at = "destruct"
        /\ built'  = built \ {c}
        /\ useCnt' = [useCnt EXCEPT ![c] = @ - 1]
        /\ Continue(t, [call[t] EXCEPT !.at = "mfree"])
        /\ UNCHANGED <<chunk, tracker, glue, status>>

\* mfree, and what is left of an assignment.
MFree(t) ==
    LET r   == call[t]
        new == IF r.ref = None THEN None ELSE chunk[r.ref]
    IN  /\ MutexFree /\ r.at = "mfree"
        /\ status'  = [status EXCEPT ![r.chunk] = "NONE"]
        /\ built'   = built \ {r.chunk}
        /\ chunk'   = [chunk EXCEPT ![r.ptr] = new]
        /\ tracker' = IF new = None THEN tracker ELSE Added(tracker, new)
        /\ Return(t)
        /\ UNCHANGED <<glue, useCnt>>

-----------------------------------------------------------------------------
(* adhereTo *)

\* The constructor: prepareUse brings the chunk in without using it.
Adhere(t, g, p, loadImmediately) ==
    /\ MutexFree /\ call[t].at = "idle" /\ ~Exists(g) /\ GlueAtRest(g) /\ Readable(p)
    /\ glue' = [glue EXCEPT ![g] = [NoGlue EXCEPT !.data = p]]
    /\ IF loadImmediately /\ chunk[p] # NULL /\ status[chunk[p]] = "SWAPPED"
       THEN Continue(t, [Idle EXCEPT !.at = "prepareUse", !.glue = g, !.chunk = chunk[p]])
       ELSE UNCHANGED call
    /\ UNCHANGED <<chunk, tracker, status, useCnt, built>>

\* operator T* and operator const T*: the first pull marks the adhereTo, then takes the use.
Pull(t, g, m) ==
    LET r == [Idle EXCEPT !.glue = g, !.chunk = ChunkOf(g), !.then = "pull"]
    IN  /\ call[t].at = "idle" /\ Exists(g) /\ Readable(glue[g].data) /\ ChunkOf(g) # NULL
        /\ GlueAtRest(g) \/ SharedGlue
        /\ IF glue[g][m] THEN Continue(t, [r EXCEPT !.at = "getLocPtr"]) /\ UNCHANGED glue
           ELSE /\ Continue(t, [r EXCEPT !.at = "setUse", !.left = 1])
                /\ glue' = [glue EXCEPT ![g][m] = TRUE]
        /\ UNCHANGED <<chunk, tracker, status, useCnt, built>>

\* Somebody else has marked it: waitForSwapin, which comes back from the manager at once as
\* long as the chunk is swapped out, and tries again with stateChangeMutex held.
GetLocPtr(t) ==
    LET r == call[t]
    IN  /\ r.at = "getLocPtr"
        /\ IF status[r.chunk] = "ALLOCATED" THEN Granted(t, r)
           ELSE MutexFree /\ Continue(t, [r EXCEPT !.at = "spin"]) /\ UNCHANGED glue
        /\ UNCHANGED <<chunk, tracker, status, useCnt, built>>

TakesAfter_FlagsOnly(t, g, h, uses) ==                                   \* mutant
    /\ glue' = [glue EXCEPT ![g] = [glue[h] EXCEPT !.loc = None]]
    /\ useCnt' = uses /\ UNCHANGED call

\* g takes on what h is to its managedPtr; each flag stands for a use of its own.
TakesAfter(t, g, h, uses) ==
    /\ glue' = [glue EXCEPT ![g] = [glue[h] EXCEPT !.loc = None]]
    /\ useCnt' = uses
    /\ IF Loaded(h) = 0 THEN UNCHANGED call
       ELSE Continue(t, [Idle EXCEPT !.at = "setUse", !.then = "copy", !.left = Loaded(h),
                                     !.glue = g, !.chunk = ChunkOf(h)])

CopyAdhereTo(t, g, h) ==
    /\ call[t].at = "idle" /\ ~Exists(g) /\ GlueAtRest(g) /\ Exists(h) /\ GlueAtRest(h)
    /\ TakesAfter(t, g, h, useCnt)
    /\ UNCHANGED <<chunk, tracker, status, built>>

Without_Both(g) ==                                                       \* mutant
    IF Loaded(g) = 0 THEN useCnt ELSE [useCnt EXCEPT ![ChunkOf(g)] = @ - 2]
Without_One(g) ==                                                        \* mutant
    IF Loaded(g) = 0 THEN useCnt ELSE [useCnt EXCEPT ![ChunkOf(g)] = @ - 1]

\* The uses g has had are given back.
Without(g) == IF Loaded(g) = 0 THEN useCnt ELSE [useCnt EXCEPT ![ChunkOf(g)] = @ - Loaded(g)]

\* g = h.  Programs do not assign an adhereTo to itself.
AssignAdhereTo(t, g, h) ==
    /\ MutexFree /\ call[t].at = "idle" /\ g # h
    /\ Exists(g) /\ GlueAtRest(g) /\ Exists(h) /\ GlueAtRest(h)
    /\ TakesAfter(t, g, h, Without(g))
    /\ UNCHANGED <<chunk, tracker, status, built>>

DestroyAdhereTo(t, g) ==
    /\ MutexFree /\ call[t].at = "idle" /\ Exists(g) /\ GlueAtRest(g)
    /\ useCnt' = Without(g)
    /\ glue'   = [glue EXCEPT ![g] = NoGlue]
    /\ UNCHANGED <<chunk, tracker, status, built, call>>

Next ==
    \/ \E c \in Chunks : SwapOut(c)
    \/ \E t \in Threads : SetUse(t) \/ SwapIn(t) \/ Construct(t) \/ Destruct(t) \/ MFree(t) \/ GetLocPtr(t)
    \/ \E t \in Threads, p \in Ptrs : CreateEmpty(t, p) \/ Destroy(t, p)
    \/ \E t \in Threads, p \in Ptrs, c \in Chunks : Create(t, p, c)
    \/ \E t \in Threads, p \in Ptrs, q \in Ptrs : Copy(t, p, q) \/ Assign(t, p, q)
    \/ \E t \in Threads, g \in Glues, p \in Ptrs, load \in BOOLEAN : Adhere(t, g, p, load)
    \/ \E t \in Threads, g \in Glues, m \in Modes : Pull(t, g, m)
    \/ \E t \in Threads, g \in Glues, h \in Glues : CopyAdhereTo(t, g, h) \/ AssignAdhereTo(t, g, h)
    \/ \E t \in Threads, g \in Glues : DestroyAdhereTo(t, g)

Spec == Init /\ [][Next]_vars

-----------------------------------------------------------------------------
(* Properties *)

\* The managedPtrs that have a share in chunk c, those being constructed included; one whose
\* deletion has begun has none any more.
Owners(c) == {p \in Ptrs : chunk[p] = c /\ \A t \in Threads : ~(call[t].then = "destruct" /\ call[t].ptr = p)}
                \cup {call[t].ptr : t \in {u \in Threads : call[u].then = "construct" /\ call[u].chunk = c}}

\* However threads copy, assign and destroy their managedPtrs, the count they share is the
\* number of those there are, and a chunk is there for exactly as long as one of them or the
\* thread that deletes it is; nobody else is left to delete it a second time.
TrackerExact ==
    \A c \in Chunks :
        LET deleters == {t \in Threads : call[t].then = "destruct" /\ call[t].chunk = c}
        IN  /\ tracker[c] = Cardinality(Owners(c))
            /\ Cardinality(deleters) <= 1
            /\ deleters # {} => tracker[c] = 0
            /\ status[c] # "NONE" <=> tracker[c] > 0 \/ deleters # {}

\* The use count of a chunk is what the adhereTos to it have marked as loaded, less what is
\* marked and not yet counted, plus the constructor or destructor that is running.
UseExact ==
    \A c \in Chunks :
        LET of      == {g \in Glues : Exists(g) /\ ChunkOf(g) = c}
            coming  == {t \in Threads : call[t].chunk = c /\ call[t].glue # None}
            running == {t \in Threads : call[t].chunk = c /\ call[t].at \in {"room", "construct", "destruct"}
                                          /\ call[t].then \in {"construct", "destruct"}}
        IN  useCnt[c] = MapThenSumSet(LAMBDA g : Loaded(g), of) - MapThenSumSet(LAMBDA t : call[t].left, coming)
                          + Cardinality(running)

\* The memory that a pulled pointer shows, and that a constructor or destructor works on, is
\* neither unloaded nor freed before its adhereTo has given the use back.
PointersHold ==
    /\ \A g \in Glues : glue[g].loc # None => status[glue[g].loc] = "ALLOCATED" /\ glue[g].loc = ChunkOf(g)
    /\ \A t \in Threads : call[t].at \in {"construct", "destruct"} => status[call[t].chunk] = "ALLOCATED"

\* mfree meets no chunk in use, which it would answer with an exception out of a destructor,
\* and elements are destroyed once, before they are freed.
DeletedOnce ==
    \A t \in Threads :
        LET c == call[t].chunk
        IN  /\ call[t].at = "mfree" => useCnt[c] = 0 /\ (c \in Classes => c \notin built)
            /\ call[t].at = "destruct" => c \in built

\* "It is better to wait indefinitely in this case, as under normal use, the chunk will become
\* available": a thread that goes round in waitForSwapin does so for a chunk somebody can
\* bring in, which needs stateChangeMutex.
WaiterIsServed == \A t \in Threads : call[t].at = "spin" => status[call[t].chunk] = "ALLOCATED"
=============================================================================
