--------------------------- MODULE PointerUse_proofs ---------------------------
(***************************************************************************)
(* Proofs about PointerUse, for every number of threads, managedPtrs,      *)
(* adhereTos and chunks, in three parts.                                   *)
(*                                                                         *)
(* IInv: the count the managedPtrs of a chunk share is exact, and one      *)
(* thread at most deletes the chunk (TrackerExact).  It is preserved       *)
(* because a managedPtr under construction or deletion is nobody else's    *)
(* (Apart) and keeps its chunk until then (Jobs), and because an adhereTo  *)
(* through which a thread waits for a chunk keeps a managedPtr of that     *)
(* chunk alive (Adhering).  The steps that leave the managedPtrs alone are *)
(* dealt with once (QuietKeeps).                                           *)
(*                                                                         *)
(* UInv: the use counts are exact (UseExact), elements are destroyed once  *)
(* (DeletedOnce), and with that the types of all variables (TypeOK).       *)
(*                                                                         *)
(* PInv: addresses handed out are those of loaded chunks (PointersHold),   *)
(* when threads do not share adhereTos.                                    *)
(***************************************************************************)
EXTENDS PointerUse, Sums

USE ConstantsAssumption DEF ConstantsAssumption
-----------------------------------------------------------------------------
(* The inductive invariant *)

GlueTypes == [data : Ptrs \cup {None}, loadedReadable : BOOLEAN,
              loadedWritable : BOOLEAN, loc : Chunks \cup {None}]

Calls == [at : Stages, then : {"none", "construct", "destruct", "pull", "copy"},
          chunk : Chunks \cup {None}, ptr : Ptrs \cup {None},
          ref : Ptrs \cup {None}, glue : Glues \cup {None}, left : 0..2]

Typed ==
    /\ chunk \in [Ptrs -> Chunks \cup {NULL, None}]
    /\ tracker \in [Chunks -> Nat]
    /\ glue \in [Glues -> GlueTypes]
    /\ status \in [Chunks -> {"NONE", "ALLOCATED", "SWAPPED"}]
    /\ call \in [Threads -> Calls]

\* What a call can be, and where it can be in the member function.
NoPtr(r)    == r.then \in {"none", "pull", "copy"} /\ r.ptr = None /\ r.ref = None
Resting(r)  == r.at = "idle" /\ r.then = "none" /\ r.glue = None /\ NoPtr(r)
Using(r)    == /\ NoPtr(r) /\ r.glue \in Glues /\ r.chunk \in Chunks
               /\ IF r.then = "none" THEN r.at = "prepareUse"
                  ELSE r.at \in {"setUse", "room", "getLocPtr", "spin"}
Building(r) == /\ r.then = "construct" /\ r.at \in {"setUse", "room", "construct"}
               /\ r.ptr \in Ptrs /\ r.ref = None /\ r.glue = None /\ r.chunk \in Chunks
Deleting(r) == /\ r.then = "destruct" /\ r.at \in {"setUse", "room", "destruct", "mfree"}
               /\ r.ptr \in Ptrs /\ r.glue = None /\ r.chunk \in Chunks

Shapes ==
    \A t \in Threads :
        /\ \/ Resting(call[t]) \/ Using(call[t])
           \/ Building(call[t]) \/ Deleting(call[t])
        /\ call[t].at = "setUse" => call[t].left > 0

\* The managedPtr of a call has its chunk from the end of its construction to the end of its
\* deletion; what it is assigned from has another chunk and keeps it.
Jobs ==
    \A t \in Threads :
        /\ call[t].then = "construct" => chunk[call[t].ptr] = None
        /\ call[t].then = "destruct" =>
              /\ chunk[call[t].ptr] = call[t].chunk
              /\ call[t].ref # None =>
                    chunk[call[t].ref] # None /\ chunk[call[t].ref] # call[t].chunk

\* No thread touches a managedPtr that another constructs, deletes or assigns to.
Apart ==
    \A t, u \in Threads :
        t # u /\ call[t].ptr # None => call[t].ptr # call[u].ptr /\ call[t].ptr # call[u].ref

Deletes(t, c) == call[t].then = "destruct" /\ call[t].chunk = c

\* TrackerExact, with the deleter named instead of counted.
Counted ==
    \A c \in Chunks :
        /\ tracker[c] = Cardinality(Owners(c))
        /\ \A t, u \in Threads : Deletes(t, c) /\ Deletes(u, c) => t = u
        /\ \A t \in Threads : Deletes(t, c) => tracker[c] = 0
        /\ status[c] # "NONE" <=>
              tracker[c] > 0 \/ \E t \in Threads : Deletes(t, c)

Marked(g) == glue[g].loadedReadable \/ glue[g].loadedWritable

\* The managedPtr of an adhereTo lives; while it is assigned to, the adhereTo holds no use
\* of it and no thread takes one, and it is not destroyed at all.
Adhering ==
    /\ \A g \in Glues : Exists(g) =>
          /\ Live(glue[g].data)
          /\ Marked(g) => ChunkOf(g) # NULL
    /\ \A t \in Threads : call[t].glue # None =>
          Exists(call[t].glue) /\ ChunkOf(call[t].glue) = call[t].chunk
    /\ \A g \in Glues, t \in Threads :
          Exists(g) /\ call[t].then = "destruct" /\ call[t].ptr = glue[g].data =>
              ~Marked(g) /\ call[t].ref # None /\ GlueAtRest(g)

IInv == Typed /\ Shapes /\ Jobs /\ Apart /\ Counted /\ Adhering
-----------------------------------------------------------------------------
(* Lemmas *)

\* Loaded counts the marks of an adhereTo.
LEMMA LoadedMarked ==
    ASSUME Typed, NEW g \in Glues
    PROVE  /\ Loaded(g) \in 0..2
           /\ Loaded(g) = 0 <=> ~Marked(g)
<1> DEFINE S == {m \in Modes : glue[g][m]}
<1>1. IsFiniteSet(Modes) /\ Cardinality(Modes) = 2
  <2>1. Modes = {"loadedReadable"} \cup {"loadedWritable"}  BY DEF Modes
  <2>2. IsFiniteSet({"loadedReadable"}) /\ Cardinality({"loadedReadable"}) = 1  BY FS_Singleton
  <2>3. \A T, x : IsFiniteSet(T) /\ x \notin T =>
          IsFiniteSet(T \cup {x}) /\ Cardinality(T \cup {x}) = Cardinality(T) + 1
    BY FS_AddElement
  <2> QED  BY <2>1, <2>2, <2>3
<1>2. IsFiniteSet(S) /\ Cardinality(S) \in Nat /\ Cardinality(S) <= 2
  BY <1>1, FS_Subset, FS_CardinalityType
<1>3. S = {} <=> ~Marked(g)  BY DEF Typed, GlueTypes, Modes, Marked
<1> QED  BY <1>2, <1>3, FS_EmptySet DEF Loaded

\* The same after a step.
LEMMA LoadedMarkedNext ==
    ASSUME Typed', NEW g \in Glues
    PROVE  /\ Loaded(g)' \in 0..2
           /\ Loaded(g)' = 0 <=> ~Marked(g)'
<1> DEFINE S == {m \in Modes : glue'[g][m]}
<1>1. IsFiniteSet(Modes) /\ Cardinality(Modes) = 2
  <2>1. Modes = {"loadedReadable"} \cup {"loadedWritable"}  BY DEF Modes
  <2>2. IsFiniteSet({"loadedReadable"}) /\ Cardinality({"loadedReadable"}) = 1  BY FS_Singleton
  <2>3. \A T, x : IsFiniteSet(T) /\ x \notin T =>
          IsFiniteSet(T \cup {x}) /\ Cardinality(T \cup {x}) = Cardinality(T) + 1
    BY FS_AddElement
  <2> QED  BY <2>1, <2>2, <2>3
<1>2. IsFiniteSet(S) /\ Cardinality(S) \in Nat /\ Cardinality(S) <= 2
  BY <1>1, FS_Subset, FS_CardinalityType
<1>3. S = {} <=> ~Marked(g)'  BY DEF Typed, GlueTypes, Modes, Marked
<1> QED  BY <1>2, <1>3, FS_EmptySet DEF Loaded

\* Owners, said of each place for a managedPtr.
Owns(p, c) ==
    \/ chunk[p] = c /\ \A t \in Threads : ~(call[t].then = "destruct" /\ call[t].ptr = p)
    \/ \E t \in Threads : call[t].then = "construct" /\ call[t].chunk = c /\ call[t].ptr = p

\* The owners of a chunk, as the places that own it; they are finitely many.
LEMMA OwnersFinite ==
    ASSUME Shapes, NEW c \in Chunks
    PROVE  /\ Owners(c) = {p \in Ptrs : Owns(p, c)}
           /\ IsFiniteSet(Owners(c))
           /\ Cardinality(Owners(c)) \in Nat
           /\ \A p \in Ptrs : Owns(p, c) => Cardinality(Owners(c)) > 0
<1>1. Owners(c) = {p \in Ptrs : Owns(p, c)}
  BY DEF Owners, Owns, Shapes, Resting, Using, Building, Deleting, NoPtr
<1>2. IsFiniteSet(Owners(c))  BY <1>1, FS_Subset
<1>3. Cardinality(Owners(c)) \in Nat  BY <1>2, FS_CardinalityType
<1>4. ASSUME NEW p \in Ptrs, Owns(p, c) PROVE Cardinality(Owners(c)) > 0
  <2>1. Owners(c) # {}  BY <1>1, <1>4
  <2> QED  BY <1>2, <1>3, <2>1, FS_EmptySet
<1> QED  BY <1>1, <1>2, <1>3, <1>4

\* A chunk a call works on is there.
LEMMA CalledChunkIsThere ==
    ASSUME IInv, NEW t \in Threads, call[t].at # "idle"
    PROVE  call[t].chunk \in Chunks /\ status[call[t].chunk] # "NONE"
<1> DEFINE c == call[t].chunk
<1>1. c \in Chunks  BY DEF IInv, Shapes, Resting, Using, Building, Deleting
<1>2. CASE call[t].then = "destruct"  BY <1>1, <1>2 DEF IInv, Counted, Deletes
<1>3. CASE call[t].then = "construct"
  <2>1. call[t].ptr \in Ptrs /\ Owns(call[t].ptr, c)
    BY <1>3 DEF IInv, Shapes, Resting, Using, Building, Deleting, NoPtr, Owns
  <2> QED  BY <1>1, <2>1, OwnersFinite DEF IInv, Counted, Deletes
<1>4. CASE call[t].then \notin {"construct", "destruct"}
  <2> DEFINE p == glue[call[t].glue].data
  <2>1. call[t].glue \in Glues
    BY <1>4 DEF IInv, Shapes, Resting, Using, Building, Deleting
  <2>2. p \in Ptrs /\ chunk[p] = c
    BY <2>1 DEF IInv, Typed, GlueTypes, Adhering, Exists, ChunkOf
  <2>3. \A u \in Threads : ~(call[u].then = "destruct" /\ call[u].ptr = p)
    BY <2>1 DEF IInv, Adhering, GlueAtRest
  <2>4. Owns(p, c)  BY <2>2, <2>3 DEF Owns
  <2> QED  BY <1>1, <2>2, <2>4, OwnersFinite DEF IInv, Counted, Deletes
<1> QED  BY <1>1, <1>2, <1>3, <1>4
-----------------------------------------------------------------------------
(* Steps that leave the managedPtrs alone *)

\* No managedPtr, count or chunk comes or goes, and whoever constructs or deletes goes on.
QuietPtrs ==
    /\ chunk' = chunk /\ tracker' = tracker
    /\ \A c \in Chunks : status'[c] = "NONE" <=> status[c] = "NONE"
    /\ \A t \in Threads :
          \/ NoPtr(call[t]) /\ NoPtr(call'[t])
          \/ /\ call'[t].then = call[t].then /\ call'[t].chunk = call[t].chunk
             /\ call'[t].ptr = call[t].ptr /\ call'[t].ref = call[t].ref

\* Steps that leave the managedPtrs alone keep the owners and the count.
LEMMA QuietPtrsKeep ==
    ASSUME IInv, Typed', Shapes', QuietPtrs
    PROVE  Jobs' /\ Apart' /\ Counted'
<1>1. Jobs'  BY DEF IInv, Jobs, QuietPtrs, NoPtr
<1>2. Apart'  BY DEF IInv, Apart, QuietPtrs, NoPtr
<1>3. ASSUME NEW c \in Chunks PROVE Owners(c)' = Owners(c)
  <2>1. \A p \in Ptrs : Owns(p, c)' <=> Owns(p, c)
    BY DEF Owns, QuietPtrs, NoPtr
  <2>2. Owners(c) = {p \in Ptrs : Owns(p, c)}  BY OwnersFinite DEF IInv
  <2>3. Owners(c)' = {p \in Ptrs : Owns(p, c)'}
    BY DEF Owners, Owns, Shapes, Resting, Using, Building, Deleting, NoPtr
  <2> QED  BY <2>1, <2>2, <2>3
<1>4. Counted'
  <2> SUFFICES ASSUME NEW c \in Chunks
               PROVE  /\ tracker'[c] = Cardinality(Owners(c)')
                      /\ \A t, u \in Threads :
                            Deletes(t, c)' /\ Deletes(u, c)' => t = u
                      /\ \A t \in Threads :
                            Deletes(t, c)' => tracker'[c] = 0
                      /\ status'[c] # "NONE" <=>
                            tracker'[c] > 0
                              \/ \E t \in Threads : Deletes(t, c)'
    BY DEF Counted, Deletes
  <2>1. \A t \in Threads : Deletes(t, c)'
                             <=> Deletes(t, c)
    BY DEF Deletes, QuietPtrs, NoPtr
  <2> QED  BY <1>3, <2>1 DEF IInv, Counted, Deletes, QuietPtrs
<1> QED  BY <1>1, <1>2, <1>4

\* The adhereTos refer to what they did, and no thread begins to wait through one.
QuietGlues ==
    /\ \A g \in Glues : /\ glue'[g].data = glue[g].data
                        /\ glue'[g].loadedReadable = glue[g].loadedReadable
                        /\ glue'[g].loadedWritable = glue[g].loadedWritable
    /\ \A t \in Threads : \/ call'[t].glue = None
                          \/ call'[t].glue = call[t].glue /\ call'[t].chunk = call[t].chunk

\* A stutter keeps the ownership invariant.
LEMMA QuietKeeps ==
    ASSUME IInv, Typed', Shapes', QuietPtrs, QuietGlues
    PROVE  IInv'
<1>1. Jobs' /\ Apart' /\ Counted'  BY QuietPtrsKeep
<1>2. Adhering'
  <2>1. \A g \in Glues : Exists(g)' =>
          /\ Live(glue[g].data)'
          /\ Marked(g)' => ChunkOf(g)' # NULL
    BY DEF IInv, Adhering, QuietPtrs, QuietGlues, Exists, Live, Marked, ChunkOf
  <2>2. \A t \in Threads : (call[t].glue # None =>
          Exists(call[t].glue) /\ ChunkOf(call[t].glue) = call[t].chunk)'
    BY DEF IInv, Typed, Calls, Adhering, QuietPtrs, QuietGlues, Exists, ChunkOf
  <2>3. \A g \in Glues, t \in Threads :
          Exists(g)' /\ call'[t].then = "destruct" /\ call'[t].ptr = glue'[g].data =>
              ~Marked(g)' /\ call'[t].ref # None /\ GlueAtRest(g)'
    BY DEF IInv, Adhering, QuietPtrs, QuietGlues, Exists, Marked, GlueAtRest, NoPtr
  <2> QED  BY <2>1, <2>2, <2>3 DEF Adhering
<1> QED  BY <1>1, <1>2 DEF IInv

\* Unloading a chunk keeps the ownership invariant.
LEMMA SwapOutKeeps ==
    ASSUME IInv, NEW c \in Chunks, SwapOut(c)
    PROVE  IInv'
<1>1. Typed' /\ Shapes'  BY DEF IInv, Typed, Shapes, SwapOut, Resting, Using, Building, Deleting, NoPtr
<1>2. QuietPtrs  BY DEF IInv, Typed, SwapOut, QuietPtrs
<1>3. QuietGlues  BY DEF IInv, Typed, SwapOut, QuietGlues
<1> QED  BY <1>1, <1>2, <1>3, QuietKeeps

\* Idle is a call that rests.
LEMMA IdleTyped == Idle \in Calls /\ Resting(Idle)
BY DEF Idle, Calls, Stages, Resting, NoPtr

\* A call that goes to another place is a call.
LEMMA CallsMoved ==
    ASSUME NEW r \in Calls, NEW a \in Stages, NEW l \in 0..2
    PROVE  [r EXCEPT !.at = a, !.left = l] \in Calls
BY DEF Calls

\* What the end of setUse makes of call r, which is that of thread t moved on.
LEMMA GrantedQuiet ==
    ASSUME IInv, NEW t \in Threads, NEW r \in Calls, Granted(t, r),
           Using(r) \/ Building(r) \/ Deleting(r),
           r.at \in {"setUse", "room", "getLocPtr"},
           \A m \in {"then", "chunk", "ptr", "ref", "glue"} : r[m] = call[t][m]
    PROVE  /\ call' \in [Threads -> Calls] /\ glue' \in [Glues -> GlueTypes]
           /\ Shapes'
           /\ QuietGlues
           /\ \A u \in Threads :
                 \/ NoPtr(call[u]) /\ NoPtr(call'[u])
                 \/ /\ call'[u].then = call[u].then /\ call'[u].chunk = call[u].chunk
                    /\ call'[u].ptr = call[u].ptr /\ call'[u].ref = call[u].ref
<1>1. /\ r.then = call[t].then /\ r.chunk = call[t].chunk /\ r.ptr = call[t].ptr
      /\ r.ref = call[t].ref /\ r.glue = call[t].glue
  OBVIOUS
<1>2. PICK n \in Calls : /\ call' = [call EXCEPT ![t] = n]
                         /\ \/ n = [r EXCEPT !.at = "setUse"] /\ r.left > 0
                            \/ n = [r EXCEPT !.at = r.then] /\ r.then \in {"construct", "destruct"}
                            \/ n = Idle /\ r.then \notin {"construct", "destruct"}
  <2> DEFINE m == IF r.left > 0 THEN [r EXCEPT !.at = "setUse"]
                  ELSE IF r.then \in {"construct", "destruct"} THEN [r EXCEPT !.at = r.then]
                  ELSE Idle
  <2>1. call' = [call EXCEPT ![t] = m]  BY DEF Granted, Continue
  <2>2. CASE r.left > 0  BY <2>1, <2>2 DEF Calls, Stages
  <2>3. CASE ~(r.left > 0) /\ r.then \in {"construct", "destruct"}
    BY <2>1, <2>3 DEF Calls, Stages
  <2>4. CASE ~(r.left > 0) /\ r.then \notin {"construct", "destruct"}
    BY <2>1, <2>4, IdleTyped
  <2> QED  BY <2>2, <2>3, <2>4
<1>3. \/ Resting(n) /\ r.then \notin {"construct", "destruct"} /\ n.at = "idle"
      \/ /\ n.then = r.then /\ n.chunk = r.chunk /\ n.ptr = r.ptr /\ n.ref = r.ref /\ n.glue = r.glue
         /\ Using(n) \/ Building(n) \/ Deleting(n)
         /\ n.at = "setUse" => n.left > 0
  <2>1. CASE n = [r EXCEPT !.at = "setUse"] /\ r.left > 0
    BY <2>1 DEF Calls, Using, Building, Deleting, NoPtr
  <2>2. CASE n = [r EXCEPT !.at = r.then] /\ r.then \in {"construct", "destruct"}
    BY <2>2 DEF Calls, Using, Building, Deleting, NoPtr
  <2>3. CASE n = Idle /\ r.then \notin {"construct", "destruct"}
    BY <2>3 DEF Idle, Resting, NoPtr
  <2> QED  BY <1>2, <2>1, <2>2, <2>3
<1>4. /\ call'[t] = n
      /\ \A u \in Threads : u # t => call'[u] = call[u]
  BY <1>2 DEF IInv, Typed
<1>5. call' \in [Threads -> Calls]  BY <1>2 DEF IInv, Typed
<1>6. glue' \in [Glues -> GlueTypes] /\ \A g \in Glues : /\ glue'[g].data = glue[g].data
                        /\ glue'[g].loadedReadable = glue[g].loadedReadable
                        /\ glue'[g].loadedWritable = glue[g].loadedWritable
  BY DEF IInv, Typed, GlueTypes, Granted, Using, Building, Deleting
<1>7. Shapes'  BY <1>3, <1>4 DEF IInv, Shapes
<1>8. QuietGlues  BY <1>1, <1>3, <1>4, <1>6 DEF QuietGlues, Resting
<1>9. \A u \in Threads :
         \/ NoPtr(call[u]) /\ NoPtr(call'[u])
         \/ /\ call'[u].then = call[u].then /\ call'[u].chunk = call[u].chunk
            /\ call'[u].ptr = call[u].ptr /\ call'[u].ref = call[u].ref
  BY <1>1, <1>3, <1>4 DEF Resting, Using, Building, Deleting, NoPtr
<1> QED  BY <1>5, <1>6, <1>7, <1>8, <1>9

\* Taking a use keeps the ownership invariant.
LEMMA SetUseKeeps ==
    ASSUME IInv, NEW t \in Threads, SetUse(t)
    PROVE  IInv'
<1> DEFINE r == [call[t] EXCEPT !.left = @ - 1]
<1>1. /\ call[t] \in Calls /\ call[t].left > 0
      /\ Using(call[t]) \/ Building(call[t]) \/ Deleting(call[t])
  BY DEF IInv, Typed, Shapes, SetUse, Resting
<1>2. /\ r \in Calls /\ r.at = "setUse"
      /\ Using(r) \/ Building(r) \/ Deleting(r)
      /\ \A m \in {"then", "chunk", "ptr", "ref", "glue"} : r[m] = call[t][m]
  BY <1>1 DEF Calls, SetUse, Using, Building, Deleting, NoPtr
<1>3. CASE status[r.chunk] = "SWAPPED"
  <2> DEFINE n == [r EXCEPT !.at = "room"]
  <2>1. call' = [call EXCEPT ![t] = n] /\ UNCHANGED <<chunk, tracker, glue, status>>
    BY <1>3 DEF SetUse, Continue
  <2>2. /\ n \in Calls /\ n.at = "room"
        /\ Using(n) \/ Building(n) \/ Deleting(n)
        /\ n.then = call[t].then /\ n.chunk = call[t].chunk /\ n.ptr = call[t].ptr
        /\ n.ref = call[t].ref /\ n.glue = call[t].glue
    BY <1>1, <1>2 DEF Calls, Stages, Using, Building, Deleting, NoPtr, SetUse
  <2> HIDE DEF n
  <2>3. Typed' /\ Shapes'  BY <2>1, <2>2 DEF IInv, Typed, Shapes
  <2>4. QuietPtrs  BY <2>1, <2>2 DEF IInv, Typed, QuietPtrs
  <2>5. QuietGlues  BY <2>1, <2>2 DEF IInv, Typed, QuietGlues
  <2> QED  BY <2>3, <2>4, <2>5, QuietKeeps
<1>4. CASE status[r.chunk] # "SWAPPED"
  <2>1. Granted(t, r) /\ UNCHANGED <<chunk, tracker, status>>
    BY <1>4 DEF SetUse
  <2> HIDE DEF r
  <2>2. /\ call' \in [Threads -> Calls] /\ glue' \in [Glues -> GlueTypes] /\ Shapes' /\ QuietGlues
        /\ QuietPtrs
    BY <1>2, <2>1, GrantedQuiet DEF QuietPtrs
  <2>3. Typed'  BY <2>1, <2>2 DEF IInv, Typed
  <2> QED  BY <2>2, <2>3, QuietKeeps
<1> QED  BY <1>3, <1>4

\* Bringing a chunk in keeps the ownership invariant.
LEMMA SwapInKeeps ==
    ASSUME IInv, NEW t \in Threads, SwapIn(t)
    PROVE  IInv'
<1> DEFINE r == call[t]
<1>1. r \in Calls /\ (Using(r) \/ Building(r) \/ Deleting(r))
  BY DEF IInv, Typed, Shapes, SwapIn, Resting
<1>2. r.chunk \in Chunks /\ status[r.chunk] # "NONE"
  BY CalledChunkIsThere DEF SwapIn
<1>3. /\ status' \in [Chunks -> {"NONE", "ALLOCATED", "SWAPPED"}]
      /\ \A c \in Chunks : status'[c] = "NONE" <=> status[c] = "NONE"
  BY <1>2 DEF IInv, Typed, SwapIn
<1>4. CASE r.at = "room"
  <2>1. Granted(t, r) /\ UNCHANGED <<chunk, tracker>>  BY <1>4 DEF SwapIn
  <2>2. \A m \in {"then", "chunk", "ptr", "ref", "glue"} : r[m] = call[t][m]  OBVIOUS
  <2>3. /\ call' \in [Threads -> Calls] /\ glue' \in [Glues -> GlueTypes] /\ Shapes' /\ QuietGlues
        /\ QuietPtrs
    BY <1>1, <1>3, <1>4, <2>1, GrantedQuiet DEF QuietPtrs
  <2>4. Typed'  BY <1>3, <2>1, <2>3 DEF IInv, Typed
  <2> QED  BY <2>3, <2>4, QuietKeeps
<1>5. CASE r.at = "prepareUse"
  <2>1. call' = [call EXCEPT ![t] = Idle] /\ UNCHANGED <<chunk, tracker, glue>>
    BY <1>5 DEF SwapIn, Return, Continue
  <2>2. NoPtr(r)  BY <1>1, <1>5 DEF Using, Building, Deleting
  <2>3. Typed' /\ Shapes'
    BY <1>3, <2>1 DEF IInv, Typed, Shapes, Idle, Calls, Stages, Resting, NoPtr
  <2>4. QuietPtrs  BY <1>3, <2>1, <2>2 DEF IInv, Typed, QuietPtrs, Idle, NoPtr
  <2>5. QuietGlues  BY <2>1 DEF IInv, Typed, QuietGlues, Idle
  <2> QED  BY <2>3, <2>4, <2>5, QuietKeeps
<1> QED  BY <1>4, <1>5 DEF SwapIn

\* Handing out the address keeps the ownership invariant.
LEMMA GetLocPtrKeeps ==
    ASSUME IInv, NEW t \in Threads, GetLocPtr(t)
    PROVE  IInv'
<1> DEFINE r == call[t]
<1>1. r \in Calls /\ (Using(r) \/ Building(r) \/ Deleting(r))
  BY DEF IInv, Typed, Shapes, GetLocPtr, Resting
<1>2. CASE status[r.chunk] = "ALLOCATED"
  <2>1. Granted(t, r) /\ r.at = "getLocPtr" /\ UNCHANGED <<chunk, tracker, status>>
    BY <1>2 DEF GetLocPtr
  <2>2. \A m \in {"then", "chunk", "ptr", "ref", "glue"} : r[m] = call[t][m]  OBVIOUS
  <2>3. /\ call' \in [Threads -> Calls] /\ glue' \in [Glues -> GlueTypes] /\ Shapes' /\ QuietGlues
        /\ QuietPtrs
    BY <1>1, <2>1, <2>2, GrantedQuiet DEF QuietPtrs
  <2>4. Typed'  BY <2>1, <2>3 DEF IInv, Typed
  <2> QED  BY <2>3, <2>4, QuietKeeps
<1>3. CASE status[r.chunk] # "ALLOCATED"
  <2> DEFINE n == [r EXCEPT !.at = "spin"]
  <2>1. call' = [call EXCEPT ![t] = n] /\ UNCHANGED <<chunk, tracker, glue, status>>
    BY <1>3 DEF GetLocPtr, Continue
  <2>2. /\ n \in Calls /\ n.at = "spin" /\ Using(n)
        /\ n.then = r.then /\ n.chunk = r.chunk /\ n.ptr = r.ptr /\ n.ref = r.ref /\ n.glue = r.glue
    BY <1>1 DEF Calls, Stages, Using, Building, Deleting, NoPtr, GetLocPtr
  <2> HIDE DEF n
  <2>3. Typed' /\ Shapes'  BY <2>1, <2>2 DEF IInv, Typed, Shapes
  <2>4. QuietPtrs  BY <2>1, <2>2 DEF IInv, Typed, QuietPtrs
  <2>5. QuietGlues  BY <2>1, <2>2 DEF IInv, Typed, QuietGlues
  <2> QED  BY <2>3, <2>4, <2>5, QuietKeeps
<1> QED  BY <1>2, <1>3

\* The destructor of the elements keeps the ownership invariant.
LEMMA DestructKeeps ==
    ASSUME IInv, NEW t \in Threads, Destruct(t)
    PROVE  IInv'
<1> DEFINE r == call[t]
           n == [r EXCEPT !.at = "mfree"]
<1>1. call' = [call EXCEPT ![t] = n] /\ UNCHANGED <<chunk, tracker, glue, status>>
  BY DEF Destruct, Continue
<1>2. r \in Calls /\ Deleting(r)
  BY DEF IInv, Typed, Shapes, Destruct, Resting, Using, Building
<1>3. /\ n \in Calls /\ n.at = "mfree" /\ Deleting(n)
      /\ n.then = r.then /\ n.chunk = r.chunk /\ n.ptr = r.ptr /\ n.ref = r.ref /\ n.glue = r.glue
  BY <1>2 DEF Calls, Stages, Deleting
<1> HIDE DEF n
<1>4. Typed' /\ Shapes'  BY <1>1, <1>3 DEF IInv, Typed, Shapes
<1>5. QuietPtrs  BY <1>1, <1>3 DEF IInv, Typed, QuietPtrs
<1>6. QuietGlues  BY <1>1, <1>3 DEF IInv, Typed, QuietGlues
<1> QED  BY <1>4, <1>5, <1>6, QuietKeeps
-----------------------------------------------------------------------------
(* Steps of adhereTo *)

\* Making an adhereTo keeps the ownership invariant.
LEMMA AdhereKeeps ==
    ASSUME IInv, NEW t \in Threads, NEW g \in Glues, NEW p \in Ptrs, NEW load \in BOOLEAN,
           Adhere(t, g, p, load)
    PROVE  IInv'
<1> DEFINE n == [Idle EXCEPT !.at = "prepareUse", !.glue = g, !.chunk = chunk[p]]
           e == [NoGlue EXCEPT !.data = p]
<1>1. /\ e \in GlueTypes /\ e.data = p /\ ~e.loadedReadable /\ ~e.loadedWritable
      /\ glue' = [glue EXCEPT ![g] = e]
      /\ UNCHANGED <<chunk, tracker, status>>
      /\ call[t].at = "idle" /\ Live(p) /\ ~Exists(g) /\ \A u \in Threads : call[u].ptr # p
      /\ \A u \in Threads : call[u].glue # g
  BY DEF Adhere, NoGlue, GlueTypes, Readable, GlueAtRest
<1>2. NoPtr(call[t]) /\ Resting(call[t])
  BY <1>1 DEF IInv, Shapes, Resting, Using, Building, Deleting
<1>3. \/ UNCHANGED call
      \/ /\ call' = [call EXCEPT ![t] = n] /\ chunk[p] # NULL
         /\ n \in Calls /\ Using(n) /\ n.at = "prepareUse" /\ n.glue = g /\ n.chunk = chunk[p]
  <2>1. \/ UNCHANGED call
        \/ call' = [call EXCEPT ![t] = n] /\ chunk[p] # NULL
    BY DEF Adhere, Continue
  <2>2. chunk[p] # NULL => chunk[p] \in Chunks  BY <1>1 DEF IInv, Typed, Live
  <2>3. chunk[p] \in Chunks => n \in Calls  BY IdleTyped DEF Calls, Stages
  <2>4. n.at = "prepareUse" /\ n.glue = g /\ n.chunk = chunk[p] /\ NoPtr(n) /\ n.then = "none"
    BY DEF Idle, NoPtr
  <2> QED  BY <2>1, <2>2, <2>3, <2>4 DEF Using
<1> HIDE DEF n, e
<1>4. Typed' /\ Shapes'  BY <1>1, <1>3 DEF IInv, Typed, Shapes
<1>5. QuietPtrs  BY <1>1, <1>2, <1>3 DEF IInv, Typed, QuietPtrs, Using
<1>6. Adhering'
  <2>1. \A h \in Glues : Exists(h)' => Live(glue[h].data)' /\ (Marked(h)' => ChunkOf(h)' # NULL)
    BY <1>1 DEF IInv, Typed, Adhering, Exists, Live, Marked, ChunkOf
  <2>2. \A u \in Threads : (call[u].glue # None => Exists(call[u].glue) /\ ChunkOf(call[u].glue) = call[u].chunk)'
    <3> SUFFICES ASSUME NEW u \in Threads, call'[u].glue # None
                 PROVE  (Exists(call[u].glue) /\ ChunkOf(call[u].glue) = call[u].chunk)'
      OBVIOUS
    <3>1. CASE call'[u] = call[u]
      BY <1>1, <3>1 DEF IInv, Typed, Calls, Adhering, Exists, ChunkOf
    <3>2. CASE call'[u] # call[u]
      <4>1. call'[u].glue = g /\ call'[u].chunk = chunk[p]  BY <1>3, <3>2 DEF IInv, Typed
      <4> QED  BY <1>1, <4>1 DEF IInv, Typed, Exists, ChunkOf
    <3> QED  BY <3>1, <3>2
  <2>3. \A h \in Glues, u \in Threads :
          Exists(h)' /\ call'[u].then = "destruct" /\ call'[u].ptr = glue'[h].data =>
              ~Marked(h)' /\ call'[u].ref # None /\ GlueAtRest(h)'
    BY <1>1, <1>3 DEF IInv, Typed, Calls, Adhering, Exists, Marked, GlueAtRest, Using, NoPtr
  <2> QED  BY <2>1, <2>2, <2>3 DEF Adhering
<1> QED  BY <1>4, <1>5, <1>6, QuietPtrsKeep DEF IInv

\* Marking an adhereTo keeps its type and its managedPtr.
LEMMA GlueMarked ==
    ASSUME NEW e \in GlueTypes
    PROVE  /\ [e EXCEPT !.loadedReadable = TRUE] \in GlueTypes
           /\ [e EXCEPT !.loadedReadable = TRUE].data = e.data
           /\ [e EXCEPT !.loadedWritable = TRUE] \in GlueTypes
           /\ [e EXCEPT !.loadedWritable = TRUE].data = e.data
BY DEF GlueTypes

\* Pulling through an adhereTo keeps the ownership invariant.
LEMMA PullKeeps ==
    ASSUME IInv, NEW t \in Threads, NEW g \in Glues, NEW m \in Modes, Pull(t, g, m)
    PROVE  IInv'
<1> DEFINE r == [Idle EXCEPT !.glue = g, !.chunk = ChunkOf(g), !.then = "pull"]
           p == glue[g].data
<1>1. /\ call[t].at = "idle" /\ Exists(g) /\ ChunkOf(g) # NULL
      /\ p \in Ptrs /\ Live(p) /\ ChunkOf(g) \in Chunks
      /\ \A u \in Threads : call[u].ptr # p
      /\ UNCHANGED <<chunk, tracker, status>>
  BY DEF Pull, Readable, IInv, Typed, GlueTypes, Live, ChunkOf, Exists
<1>2. NoPtr(call[t])
  BY <1>1 DEF IInv, Shapes, Resting, Using, Building, Deleting
<1>3. PICK n : /\ call' = [call EXCEPT ![t] = n]
               /\ n \in Calls /\ Using(n) /\ n.glue = g /\ n.chunk = ChunkOf(g)
               /\ n.at = "setUse" => n.left > 0
  <2>1. r \in Calls  BY <1>1, IdleTyped DEF Calls
  <2>2. /\ r.then = "pull" /\ r.ptr = None /\ r.ref = None /\ r.glue = g /\ r.chunk = ChunkOf(g)
    BY DEF Idle
  <2> HIDE DEF r
  <2>3. CASE glue[g][m]
    <3> DEFINE n == [r EXCEPT !.at = "getLocPtr"]
    <3>1. call' = [call EXCEPT ![t] = n]  BY <2>3 DEF Pull, Continue, r
    <3>2. n \in Calls /\ Using(n) /\ n.glue = g /\ n.chunk = ChunkOf(g) /\ n.at # "setUse"
      BY <1>1, <2>1, <2>2 DEF Calls, Stages, Using, NoPtr
    <3> QED  BY <3>1, <3>2
  <2>4. CASE ~glue[g][m]
    <3> DEFINE n == [r EXCEPT !.at = "setUse", !.left = 1]
    <3>1. call' = [call EXCEPT ![t] = n]  BY <2>4 DEF Pull, Continue, r
    <3>2. n \in Calls
      <4>1. "setUse" \in Stages /\ 1 \in 0..2  BY DEF Stages
      <4> QED  BY <2>1, <4>1, CallsMoved
    <3>3. Using(n) /\ n.glue = g /\ n.chunk = ChunkOf(g) /\ n.left > 0
      BY <1>1, <2>1, <2>2 DEF Calls, Using, NoPtr
    <3> QED  BY <3>1, <3>2, <3>3
  <2> QED  BY <2>3, <2>4
<1>4. /\ glue' \in [Glues -> GlueTypes]
      /\ \A h \in Glues : glue'[h].data = glue[h].data /\ (h # g => glue'[h] = glue[h])
  <2>1. glue' = glue \/ glue' = [glue EXCEPT ![g][m] = TRUE]  BY DEF Pull
  <2>2. m = "loadedReadable" \/ m = "loadedWritable"  BY DEF Modes
  <2> DEFINE read  == [glue[g] EXCEPT !.loadedReadable = TRUE]
             write == [glue[g] EXCEPT !.loadedWritable = TRUE]
  <2>3. CASE glue' = glue  BY <2>3 DEF IInv, Typed
  <2>6. glue[g] \in GlueTypes  BY DEF IInv, Typed
  <2>7. read \in GlueTypes /\ read.data = glue[g].data  BY <2>6, GlueMarked
  <2>8. write \in GlueTypes /\ write.data = glue[g].data  BY <2>6, GlueMarked
  <2>4. CASE glue' = [glue EXCEPT ![g]["loadedReadable"] = TRUE]
    <3>1. glue' = [glue EXCEPT ![g] = read]  BY <2>4
    <3> HIDE DEF read
    <3> QED  BY <2>7, <3>1 DEF IInv, Typed
  <2>5. CASE glue' = [glue EXCEPT ![g]["loadedWritable"] = TRUE]
    <3>1. glue' = [glue EXCEPT ![g] = write]  BY <2>5
    <3> HIDE DEF write
    <3> QED  BY <2>8, <3>1 DEF IInv, Typed
  <2> QED  BY <2>1, <2>2, <2>3, <2>4, <2>5
<1>5. Typed' /\ Shapes'  BY <1>1, <1>3, <1>4 DEF IInv, Typed, Shapes
<1>6. QuietPtrs  BY <1>1, <1>2, <1>3 DEF IInv, Typed, QuietPtrs, Using
<1>7. Adhering'
  <2>1. \A h \in Glues : Exists(h)' => Live(glue[h].data)' /\ (Marked(h)' => ChunkOf(h)' # NULL)
    BY <1>1, <1>4 DEF IInv, Typed, Adhering, Exists, Live, Marked, ChunkOf
  <2>2. \A u \in Threads : (call[u].glue # None => Exists(call[u].glue) /\ ChunkOf(call[u].glue) = call[u].chunk)'
    BY <1>1, <1>3, <1>4 DEF IInv, Typed, Calls, Adhering, Exists, ChunkOf
  <2>3. ASSUME NEW h \in Glues, NEW u \in Threads,
               Exists(h)', call'[u].then = "destruct", call'[u].ptr = glue'[h].data
        PROVE  ~Marked(h)' /\ call'[u].ref # None /\ GlueAtRest(h)'
    <3>1. call'[u] = call[u] /\ u # t
      BY <1>3, <2>3 DEF IInv, Typed, Using, NoPtr
    <3>2. h # g  BY <1>1, <1>4, <2>3, <3>1
    <3>3. Exists(h) /\ glue'[h] = glue[h]  BY <1>4, <2>3, <3>2 DEF Exists
    <3> QED  BY <1>3, <2>3, <3>1, <3>2, <3>3 DEF IInv, Typed, Adhering, Marked, GlueAtRest
  <2> QED  BY <2>1, <2>2, <2>3 DEF Adhering
<1> QED  BY <1>5, <1>6, <1>7, QuietPtrsKeep DEF IInv

\* Copying or assigning an adhereTo keeps the ownership invariant.
LEMMA TakesAfterKeeps ==
    ASSUME IInv, NEW t \in Threads, NEW g \in Glues, NEW h \in Glues, NEW uses,
           TakesAfter(t, g, h, uses),
           call[t].at = "idle", GlueAtRest(g), Exists(h),
           UNCHANGED <<chunk, tracker, status>>
    PROVE  IInv'
<1> DEFINE n == [Idle EXCEPT !.at = "setUse", !.then = "copy", !.left = Loaded(h),
                             !.glue = g, !.chunk = ChunkOf(h)]
           e == [glue[h] EXCEPT !.loc = None]
           p == glue[h].data
<1>1. /\ e \in GlueTypes /\ e.data = p
      /\ e.loadedReadable = glue[h].loadedReadable /\ e.loadedWritable = glue[h].loadedWritable
      /\ glue' = [glue EXCEPT ![g] = e]
      /\ p \in Ptrs /\ p # None /\ Live(p)
  BY DEF TakesAfter, IInv, Typed, GlueTypes, Adhering, Exists
<1>2. NoPtr(call[t])
  BY DEF IInv, Shapes, Resting, Using, Building, Deleting
<1>3. \/ UNCHANGED call
      \/ /\ call' = [call EXCEPT ![t] = n] /\ Marked(h)
         /\ n \in Calls /\ Using(n) /\ n.left > 0 /\ n.glue = g /\ n.chunk = ChunkOf(h)
  <2>1. \/ UNCHANGED call
        \/ call' = [call EXCEPT ![t] = n] /\ Loaded(h) # 0
    BY DEF TakesAfter, Continue
  <2>2. Loaded(h) # 0 => /\ Marked(h) /\ ChunkOf(h) \in Chunks
    BY <1>1, LoadedMarked DEF IInv, Typed, Adhering, ChunkOf, Live
  <2>3. Loaded(h) \in 0..2 /\ (Loaded(h) # 0 => Loaded(h) > 0)  BY LoadedMarked DEF IInv
  <2>4. ASSUME ChunkOf(h) \in Chunks PROVE n \in Calls
    <3>1. [Idle EXCEPT !.then = "copy", !.glue = g, !.chunk = ChunkOf(h)] \in Calls
      BY <2>4, IdleTyped DEF Calls
    <3>2. n = [[Idle EXCEPT !.then = "copy", !.glue = g, !.chunk = ChunkOf(h)]
                 EXCEPT !.at = "setUse", !.left = Loaded(h)]
      BY DEF Idle
    <3>3. "setUse" \in Stages  BY DEF Stages
    <3> QED  BY <2>3, <3>1, <3>2, <3>3, CallsMoved
  <2>5. /\ n.at = "setUse" /\ n.then = "copy" /\ n.glue = g /\ n.chunk = ChunkOf(h)
        /\ n.left = Loaded(h) /\ n.ptr = None /\ n.ref = None
    BY DEF Idle
  <2> QED  BY <2>1, <2>2, <2>3, <2>4, <2>5 DEF Using, NoPtr
<1> HIDE DEF n, e
<1>4. Typed' /\ Shapes'  BY <1>1, <1>3 DEF IInv, Typed, Shapes
<1>5. QuietPtrs  BY <1>1, <1>2, <1>3 DEF IInv, Typed, QuietPtrs, Using
<1>6. Adhering'
  <2>1. \A x \in Glues : Exists(x)' => Live(glue[x].data)' /\ (Marked(x)' => ChunkOf(x)' # NULL)
    BY <1>1 DEF IInv, Typed, Adhering, Exists, Live, Marked, ChunkOf
  <2>2. \A u \in Threads : (call[u].glue # None => Exists(call[u].glue) /\ ChunkOf(call[u].glue) = call[u].chunk)'
    <3> SUFFICES ASSUME NEW u \in Threads, call'[u].glue # None
                 PROVE  (Exists(call[u].glue) /\ ChunkOf(call[u].glue) = call[u].chunk)'
      OBVIOUS
    <3>1. CASE call'[u] = call[u]
      BY <1>1, <3>1 DEF IInv, Typed, Calls, Adhering, Exists, ChunkOf, GlueAtRest
    <3>2. CASE call'[u] # call[u]
      <4>1. call'[u].glue = g /\ call'[u].chunk = ChunkOf(h)  BY <1>3, <3>2 DEF IInv, Typed
      <4> QED  BY <1>1, <4>1 DEF IInv, Typed, Exists, ChunkOf
    <3> QED  BY <3>1, <3>2
  <2>3. ASSUME NEW x \in Glues, NEW u \in Threads,
               Exists(x)', call'[u].then = "destruct", call'[u].ptr = glue'[x].data
        PROVE  ~Marked(x)' /\ call'[u].ref # None /\ GlueAtRest(x)'
    <3>1. call'[u] = call[u]  BY <1>3, <2>3 DEF IInv, Typed, Using, NoPtr
    <3>2. CASE x = g
      <4>1. ~Marked(h) /\ call[u].ref # None
        BY <1>1, <2>3, <3>1, <3>2 DEF IInv, Typed, Adhering
      <4> QED  BY <1>1, <1>3, <3>1, <3>2, <4>1 DEF IInv, Typed, Marked, GlueAtRest
    <3>3. CASE x # g
      <4>1. glue'[x] = glue[x]  BY <1>1, <3>3 DEF IInv, Typed
      <4>2. ~Marked(x) /\ call[u].ref # None /\ GlueAtRest(x)
        BY <2>3, <3>1, <4>1 DEF IInv, Adhering, Exists
      <4> QED  BY <1>3, <3>1, <3>3, <4>1, <4>2 DEF IInv, Typed, Marked, GlueAtRest
    <3> QED  BY <3>2, <3>3
  <2> QED  BY <2>1, <2>2, <2>3 DEF Adhering
<1> QED  BY <1>4, <1>5, <1>6, QuietPtrsKeep DEF IInv

\* Destroying an adhereTo keeps the ownership invariant.
LEMMA DestroyAdhereToKeeps ==
    ASSUME IInv, NEW t \in Threads, NEW g \in Glues, DestroyAdhereTo(t, g)
    PROVE  IInv'
<1>1. /\ NoGlue \in GlueTypes /\ NoGlue.data = None
      /\ glue' = [glue EXCEPT ![g] = NoGlue]
      /\ GlueAtRest(g) /\ UNCHANGED <<chunk, tracker, status, call>>
  BY DEF DestroyAdhereTo, NoGlue, GlueTypes
<1>2. Typed' /\ Shapes' /\ QuietPtrs
  BY <1>1 DEF IInv, Typed, Shapes, QuietPtrs, Resting, Using, Building, Deleting, NoPtr
<1>3. Adhering'
  BY <1>1 DEF IInv, Typed, Calls, Adhering, Exists, Live, Marked, ChunkOf, GlueAtRest
<1> QED  BY <1>2, <1>3, QuietPtrsKeep DEF IInv
-----------------------------------------------------------------------------
(* Steps of managedPtr *)

\* The owners of a chunk after a step, as the places that own it then.
LEMMA OwnersNext ==
    ASSUME Shapes', NEW c \in Chunks
    PROVE  Owners(c)' = {p \in Ptrs : Owns(p, c)'}
BY DEF Owners, Owns, Shapes, Resting, Using, Building, Deleting, NoPtr

\* The owners of a chunk stay, or q is a new one, or q ceases to be one.
LEMMA OwnersChange ==
    ASSUME IInv, Shapes', NEW c \in Chunks, NEW q \in Ptrs
    PROVE  /\ (\A p \in Ptrs : Owns(p, c)' <=> Owns(p, c))
                => Cardinality(Owners(c)') = tracker[c]
           /\ ~Owns(q, c) /\ (\A p \in Ptrs : Owns(p, c)' <=> Owns(p, c) \/ p = q)
                => Cardinality(Owners(c)') = tracker[c] + 1
           /\ Owns(q, c) /\ (\A p \in Ptrs : Owns(p, c)' <=> Owns(p, c) /\ p # q)
                => Cardinality(Owners(c)') = tracker[c] - 1 /\ tracker[c] > 0
<1> DEFINE S == Owners(c)
           T == Owners(c)'
<1>1. S = {p \in Ptrs : Owns(p, c)} /\ IsFiniteSet(S) /\ tracker[c] = Cardinality(S)
  BY OwnersFinite DEF IInv, Counted, Deletes
<1>2. T = {p \in Ptrs : Owns(p, c)'}  BY OwnersNext
<1>3. ASSUME \A p \in Ptrs : Owns(p, c)' <=> Owns(p, c)
      PROVE  Cardinality(T) = tracker[c]
  <2>1. T = S  BY <1>1, <1>2, <1>3
  <2> QED  BY <1>1, <2>1
<1>4. ASSUME ~Owns(q, c), \A p \in Ptrs : Owns(p, c)' <=> Owns(p, c) \/ p = q
      PROVE  Cardinality(T) = tracker[c] + 1
  <2>1. T = S \cup {q} /\ q \notin S  BY <1>1, <1>2, <1>4
  <2> HIDE DEF S, T
  <2>2. Cardinality(S \cup {q}) = Cardinality(S) + 1  BY <1>1, <2>1, FS_AddElement
  <2> QED  BY <1>1, <2>1, <2>2
<1>5. ASSUME Owns(q, c), \A p \in Ptrs : Owns(p, c)' <=> Owns(p, c) /\ p # q
      PROVE  Cardinality(T) = tracker[c] - 1 /\ tracker[c] > 0
  <2>1. T = S \ {q} /\ q \in S  BY <1>1, <1>2, <1>5
  <2>2. tracker[c] > 0  BY <1>5, OwnersFinite DEF IInv, Counted, Deletes
  <2> QED  BY <1>1, <2>1, <2>2, FS_RemoveElement
<1> QED  BY <1>3, <1>4, <1>5

\* An owned chunk is there and is not being deleted.
LEMMA OwnedIsThere ==
    ASSUME IInv, NEW c \in Chunks, NEW p \in Ptrs, Owns(p, c)
    PROVE  /\ tracker[c] > 0 /\ status[c] # "NONE"
           /\ \A t \in Threads : ~Deletes(t, c)
BY OwnersFinite DEF IInv, Counted, Deletes

\* An idle thread has no managedPtr in its call.
LEMMA IdleHasNoPtr ==
    ASSUME IInv, NEW t \in Threads, call[t].at = "idle"
    PROVE  NoPtr(call[t]) /\ call[t].glue = None
BY DEF IInv, Shapes, Resting, Using, Building, Deleting

\* The call that Create begins.
LEMMA CreateCall ==
    ASSUME NEW p \in Ptrs, NEW c \in Chunks
    PROVE  [Idle EXCEPT !.at = "setUse", !.then = "construct", !.left = 1, !.ptr = p, !.chunk = c] \in Calls
<1>1. [Idle EXCEPT !.then = "construct", !.ptr = p, !.chunk = c] \in Calls
  BY IdleTyped DEF Calls
<1>2. [Idle EXCEPT !.at = "setUse", !.then = "construct", !.left = 1, !.ptr = p, !.chunk = c]
        = [[Idle EXCEPT !.then = "construct", !.ptr = p, !.chunk = c] EXCEPT !.at = "setUse", !.left = 1]
  BY DEF Idle
<1>3. "setUse" \in Stages /\ 1 \in 0..2  BY DEF Stages
<1> QED  BY <1>1, <1>2, <1>3, CallsMoved

\* The call that mDelete begins.
LEMMA DeletionCall ==
    ASSUME NEW p \in Ptrs, NEW q \in Ptrs \cup {None}, NEW c \in Chunks
    PROVE  [Idle EXCEPT !.at = IF c \in Classes THEN "setUse" ELSE "mfree",
                        !.then = "destruct", !.left = IF c \in Classes THEN 1 ELSE 0,
                        !.ptr = p, !.ref = q, !.chunk = c] \in Calls
<1> DEFINE n == [Idle EXCEPT !.at = IF c \in Classes THEN "setUse" ELSE "mfree",
                             !.then = "destruct", !.left = IF c \in Classes THEN 1 ELSE 0,
                             !.ptr = p, !.ref = q, !.chunk = c]
           b == [Idle EXCEPT !.then = "destruct", !.ptr = p, !.ref = q, !.chunk = c]
<1>1. b \in Calls  BY IdleTyped DEF Calls
<1>2. PICK a \in Stages, l \in 0..2 : n = [b EXCEPT !.at = a, !.left = l]
  <2>1. "setUse" \in Stages /\ "mfree" \in Stages /\ 1 \in 0..2 /\ 0 \in 0..2  BY DEF Stages
  <2>2. CASE c \in Classes
    <3>1. n = [b EXCEPT !.at = "setUse", !.left = 1]  BY <2>2 DEF Idle
    <3> HIDE DEF n, b
    <3> QED  BY <2>1, <3>1
  <2>3. CASE c \notin Classes
    <3>1. n = [b EXCEPT !.at = "mfree", !.left = 0]  BY <2>3 DEF Idle
    <3> HIDE DEF n, b
    <3> QED  BY <2>1, <3>1
  <2> QED  BY <2>2, <2>3
<1> HIDE DEF n, b
<1> QED  BY <1>1, <1>2, CallsMoved DEF n

\* Making a managedPtr keeps the ownership invariant.
LEMMA CreateKeeps ==
    ASSUME IInv, NEW t \in Threads, NEW p \in Ptrs, NEW c \in Chunks, Create(t, p, c)
    PROVE  IInv'
<1> DEFINE n == [Idle EXCEPT !.at = "setUse", !.then = "construct", !.left = 1, !.ptr = p, !.chunk = c]
<1>1. /\ chunk' = chunk /\ glue' = glue /\ chunk[p] = None
      /\ status[c] = "NONE" /\ status' = [status EXCEPT ![c] = "ALLOCATED"]
      /\ tracker' = [tracker EXCEPT ![c] = 1]
      /\ call[t].at = "idle" /\ call' = [call EXCEPT ![t] = n]
      /\ \A u \in Threads : p # call[u].ptr /\ p # call[u].ref
  BY DEF Create, Live, PtrAtRest, Continue
<1>2. /\ n.then = "construct" /\ n.at = "setUse" /\ n.left > 0
      /\ n.ptr = p /\ n.ref = None /\ n.glue = None /\ n.chunk = c
  BY DEF Idle
<1>3. n \in Calls  BY CreateCall
<1> HIDE DEF n
<1>4. NoPtr(call[t]) /\ call[t].glue = None  BY <1>1, IdleHasNoPtr
<1>5. /\ call'[t] = n
      /\ \A u \in Threads : u # t => call'[u] = call[u]
  BY <1>1 DEF IInv, Typed
<1>6. Typed' /\ Shapes'
  BY <1>1, <1>2, <1>3, <1>5 DEF IInv, Typed, Shapes, Building
<1>7. Jobs'  BY <1>1, <1>2, <1>5 DEF IInv, Jobs
<1>8. Apart'  BY <1>1, <1>2, <1>5 DEF IInv, Apart
<1>9. Counted'
  <2>1. tracker[c] = 0 /\ \A u \in Threads : ~Deletes(u, c)
    BY <1>1 DEF IInv, Typed, Counted, Deletes
  <2>2. tracker'[c] = Cardinality(Owners(c)')
    <3>1. ~Owns(p, c) /\ \A q \in Ptrs : Owns(q, c)' <=> Owns(q, c) \/ q = p
      BY <1>1, <1>2, <1>4, <1>5 DEF Owns, NoPtr
    <3> QED  BY <1>1, <1>6, <2>1, <3>1, OwnersChange DEF IInv, Typed
  <2>3. ASSUME NEW d \in Chunks, d # c PROVE tracker'[d] = Cardinality(Owners(d)')
    <3>1. \A q \in Ptrs : Owns(q, d)' <=> Owns(q, d)
      BY <1>1, <1>2, <1>4, <1>5, <2>3 DEF Owns, NoPtr
    <3> QED  BY <1>1, <1>6, <2>3, <3>1, OwnersChange DEF IInv, Typed
  <2>4. ASSUME NEW u \in Threads, call'[u].then = "destruct"
        PROVE  u # t /\ call'[u] = call[u] /\ call[u].chunk # c
    BY <1>2, <1>5, <2>1, <2>4 DEF Deletes
  <2>5. \A u \in Threads : call[u].then = "destruct" => call'[u] = call[u]
    BY <1>4, <1>5 DEF NoPtr
  <2>6. \A d \in Chunks : status'[d] # "NONE" <=>
            tracker'[d] > 0 \/ \E u \in Threads : Deletes(u, d)'
    BY <1>1, <2>4, <2>5 DEF IInv, Typed, Counted, Deletes
  <2> QED  BY <1>1, <2>2, <2>3, <2>4, <2>6 DEF IInv, Typed, Counted, Deletes
<1>10. Adhering'
  BY <1>1, <1>2, <1>4, <1>5 DEF IInv, Typed, GlueTypes, Calls, Adhering, Exists, Live, Marked, ChunkOf, GlueAtRest
<1> QED  BY <1>6, <1>7, <1>8, <1>9, <1>10 DEF IInv

\* p, which no thread works on, gets another chunk or none, and its last owner keeps each chunk.
LEMMA RebindKeeps ==
    ASSUME IInv, NEW p \in Ptrs, NEW new \in Chunks \cup {NULL, None},
           PtrAtRest(p), new # chunk[p],
           chunk' = [chunk EXCEPT ![p] = new], UNCHANGED <<glue, status, call>>,
           tracker' = [c \in Chunks |-> IF c = chunk[p] THEN tracker[c] - 1
                                        ELSE IF c = new THEN tracker[c] + 1 ELSE tracker[c]],
           chunk[p] \in Chunks => tracker[chunk[p]] # 1,
           new \in Chunks => \E q \in Ptrs : Owns(q, new),
           \A g \in Glues : glue[g].data = p =>
               new # None /\ (Exists(g) => ~Marked(g) /\ GlueAtRest(g))
    PROVE  IInv'
<1>1. \A u \in Threads : p # call[u].ptr /\ p # call[u].ref  BY DEF PtrAtRest
<1>2. Shapes'
  BY DEF IInv, Shapes, Resting, Using, Building, Deleting, NoPtr
<1>3. chunk[p] \in Chunks => Owns(p, chunk[p])  BY <1>1 DEF Owns
<1>4. ASSUME NEW c \in Chunks
      PROVE  /\ tracker'[c] = Cardinality(Owners(c)') /\ tracker'[c] \in Nat
             /\ tracker'[c] > 0 <=> tracker[c] > 0
             /\ tracker'[c] # tracker[c] => tracker[c] > 0
  <2>1. tracker[c] \in Nat  BY DEF IInv, Typed
  <2>2. CASE c = chunk[p]
    <3>1. Owns(p, c) /\ \A q \in Ptrs : Owns(q, c)' <=> Owns(q, c) /\ q # p
      BY <1>1, <1>3, <2>2 DEF IInv, Typed, Owns
    <3>2. Cardinality(Owners(c)') = tracker[c] - 1 /\ tracker[c] > 0
      BY <1>2, <3>1, OwnersChange
    <3> QED  BY <2>1, <2>2, <3>2
  <2>3. CASE c # chunk[p] /\ c = new
    <3>1. ~Owns(p, c) /\ \A q \in Ptrs : Owns(q, c)' <=> Owns(q, c) \/ q = p
      BY <1>1, <2>3 DEF IInv, Typed, Owns
    <3>2. Cardinality(Owners(c)') = tracker[c] + 1  BY <1>2, <3>1, OwnersChange
    <3>3. tracker[c] > 0  BY <2>3, OwnedIsThere
    <3> QED  BY <2>1, <2>3, <3>2, <3>3
  <2>4. CASE c # chunk[p] /\ c # new
    <3>1. \A q \in Ptrs : Owns(q, c)' <=> Owns(q, c)
      BY <1>1, <2>4 DEF IInv, Typed, Owns
    <3>2. Cardinality(Owners(c)') = tracker[c]  BY <1>2, <3>1, OwnersChange
    <3> QED  BY <2>1, <2>4, <3>2
  <2> QED  BY <2>2, <2>3, <2>4
<1>5. Typed'
  <2>1. tracker' \in [Chunks -> Nat]  BY <1>4
  <2> QED  BY <2>1 DEF IInv, Typed
<1>6. Jobs'
  BY <1>1 DEF IInv, Typed, Jobs, Shapes, Calls, Resting, Using, Building, Deleting, NoPtr
<1>7. Apart'  BY DEF IInv, Apart
<1>8. Counted'  BY <1>4 DEF IInv, Counted, Deletes
<1>9. Adhering'
  <2>1. \A h \in Glues : Exists(h)' => Live(glue[h].data)' /\ (Marked(h)' => ChunkOf(h)' # NULL)
    BY DEF IInv, Typed, GlueTypes, Adhering, Exists, Live, Marked, ChunkOf
  <2>2. \A u \in Threads : (call[u].glue # None => Exists(call[u].glue) /\ ChunkOf(call[u].glue) = call[u].chunk)'
    <3> SUFFICES ASSUME NEW u \in Threads, call[u].glue # None
                 PROVE  (Exists(call[u].glue) /\ ChunkOf(call[u].glue) = call[u].chunk)'
      OBVIOUS
    <3> DEFINE g == call[u].glue
    <3>1. g \in Glues /\ Exists(g) /\ ChunkOf(g) = call[u].chunk
      BY DEF IInv, Typed, Calls, Adhering
    <3>2. glue[g].data \in Ptrs /\ glue[g].data # p
      BY <3>1 DEF IInv, Typed, GlueTypes, Exists, GlueAtRest
    <3> QED  BY <3>1, <3>2 DEF IInv, Typed, Exists, ChunkOf
  <2>3. \A h \in Glues, u \in Threads :
          Exists(h)' /\ call'[u].then = "destruct" /\ call'[u].ptr = glue'[h].data =>
              ~Marked(h)' /\ call'[u].ref # None /\ GlueAtRest(h)'
    BY DEF IInv, Adhering, Exists, Marked, GlueAtRest
  <2> QED  BY <2>1, <2>2, <2>3 DEF Adhering
<1> QED  BY <1>2, <1>5, <1>6, <1>7, <1>8, <1>9 DEF IInv

\* Making an empty managedPtr keeps the ownership invariant.
LEMMA CreateEmptyKeeps ==
    ASSUME IInv, NEW t \in Threads, NEW p \in Ptrs, CreateEmpty(t, p)
    PROVE  IInv'
<1>1. PtrAtRest(p) /\ chunk[p] = None /\ chunk' = [chunk EXCEPT ![p] = NULL]
      /\ UNCHANGED <<tracker, glue, status, call>>
  BY DEF CreateEmpty, Live
<1>2. tracker = [c \in Chunks |-> tracker[c]]  BY DEF IInv, Typed
<1>3. \A g \in Glues : glue[g].data # p
  BY <1>1 DEF IInv, Adhering, Exists, Live
<1> QED  BY <1>1, <1>2, <1>3, RebindKeeps

\* A managedPtr somebody refers to owns its chunk.
LEMMA ReadableOwns ==
    ASSUME IInv, NEW q \in Ptrs, Readable(q)
    PROVE  chunk[q] \in Chunks \cup {NULL} /\ Owns(q, chunk[q])
BY DEF IInv, Typed, Readable, Live, Owns

\* Copying a managedPtr keeps the ownership invariant.
LEMMA CopyKeeps ==
    ASSUME IInv, NEW t \in Threads, NEW p \in Ptrs, NEW q \in Ptrs, Copy(t, p, q)
    PROVE  IInv'
<1>1. /\ PtrAtRest(p) /\ chunk[p] = None /\ Readable(q)
      /\ chunk' = [chunk EXCEPT ![p] = chunk[q]] /\ tracker' = Added(tracker, chunk[q])
      /\ UNCHANGED <<glue, status, call>>
  BY DEF Copy, Live
<1>2. chunk[q] \in Chunks \cup {NULL} /\ Owns(q, chunk[q])  BY <1>1, ReadableOwns
<1>3. tracker' = [c \in Chunks |-> IF c = chunk[p] THEN tracker[c] - 1
                                   ELSE IF c = chunk[q] THEN tracker[c] + 1 ELSE tracker[c]]
  BY <1>1, <1>2 DEF IInv, Typed, Added
<1>4. \A g \in Glues : glue[g].data # p
  BY <1>1 DEF IInv, Adhering, Exists, Live
<1>5. chunk[p] \notin Chunks /\ chunk[q] # chunk[p] /\ \E x \in Ptrs : Owns(x, chunk[q])
  BY <1>1, <1>2
<1>6. chunk[q] \in Chunks \cup {NULL, None}  BY <1>2
<1> QED  BY <1>1, <1>3, <1>4, <1>5, <1>6, RebindKeeps

\* Thread t, the last to have let go of the chunk of p, begins to delete it, to free p or to
\* have it take over the chunk of q.
LEMMA MDeleteKeeps ==
    ASSUME IInv, NEW t \in Threads, NEW p \in Ptrs, NEW q \in Ptrs \cup {None},
           call[t].at = "idle", PtrAtRest(p), chunk[p] \in Chunks, tracker[chunk[p]] = 1,
           MDelete(t, p, q), tracker' = [tracker EXCEPT ![chunk[p]] = @ - 1],
           UNCHANGED <<chunk, glue, status>>,
           q # None => Readable(q) /\ chunk[q] # chunk[p],
           \A g \in Glues : glue[g].data = p => q # None /\ ~Marked(g) /\ GlueAtRest(g)
    PROVE  IInv'
<1> DEFINE c == chunk[p]
           n == [Idle EXCEPT !.at = IF chunk[p] \in Classes THEN "setUse" ELSE "mfree",
                             !.then = "destruct", !.left = IF chunk[p] \in Classes THEN 1 ELSE 0,
                             !.ptr = p, !.ref = q, !.chunk = chunk[p]]
<1>1. call' = [call EXCEPT ![t] = n]  BY DEF MDelete, Continue
<1>2. /\ n.then = "destruct" /\ n.ptr = p /\ n.ref = q /\ n.glue = None /\ n.chunk = c
      /\ n.at \in {"setUse", "mfree"}
      /\ n.at = "setUse" => n.left > 0
  BY DEF Idle
<1>3. n \in Calls  BY DeletionCall
<1> HIDE DEF n
<1>4. /\ NoPtr(call[t]) /\ call[t].glue = None
      /\ \A u \in Threads : p # call[u].ptr /\ p # call[u].ref
      /\ \A u \in Threads : q # None => q # call[u].ptr
  BY IdleHasNoPtr DEF PtrAtRest, Readable
<1>5. /\ call'[t] = n
      /\ \A u \in Threads : u # t => call'[u] = call[u]
  BY <1>1 DEF IInv, Typed
<1>6. Typed' /\ Shapes'
  <2>1. tracker' \in [Chunks -> Nat]  BY DEF IInv, Typed
  <2>2. Deleting(n)  BY <1>2 DEF Deleting
  <2> QED  BY <1>1, <1>2, <1>3, <1>5, <2>1, <2>2 DEF IInv, Typed, Shapes
<1>7. Jobs'  BY <1>2, <1>5 DEF IInv, Jobs, Readable, Live
<1>8. Apart'  BY <1>2, <1>4, <1>5 DEF IInv, Apart
<1>9. Counted'
  <2>1. Owns(p, c)  BY <1>4 DEF Owns
  <2>2. \A u \in Threads : ~Deletes(u, c)
    BY <2>1, OwnedIsThere
  <2>3. tracker'[c] = Cardinality(Owners(c)') /\ tracker'[c] = 0
    <3>1. \A x \in Ptrs : Owns(x, c)' <=> Owns(x, c) /\ x # p
      BY <1>2, <1>4, <1>5 DEF Owns, NoPtr
    <3> QED  BY <1>6, <2>1, <3>1, OwnersChange DEF IInv, Typed
  <2>4. ASSUME NEW d \in Chunks, d # c
        PROVE  tracker'[d] = Cardinality(Owners(d)') /\ tracker'[d] = tracker[d]
    <3>1. \A x \in Ptrs : Owns(x, d)' <=> Owns(x, d)
      BY <1>2, <1>4, <1>5, <2>4 DEF Owns, NoPtr
    <3> QED  BY <1>6, <2>4, <3>1, OwnersChange DEF IInv, Typed
  <2>5. ASSUME NEW u \in Threads, u # t
        PROVE  call'[u] = call[u] /\ (call[u].then = "destruct" => call[u].chunk # c)
    BY <1>5, <2>2, <2>5 DEF Deletes
  <2>6. call[t].then # "destruct" /\ Deletes(t, c)'
    BY <1>2, <1>4, <1>5 DEF NoPtr, Deletes
  <2>7. status[c] # "NONE"  BY <2>1, OwnedIsThere
  <2>8. ASSUME NEW d \in Chunks
        PROVE  /\ \A u, v \in Threads : Deletes(u, d)' /\ Deletes(v, d)' => u = v
               /\ \A u \in Threads : Deletes(u, d)' => tracker'[d] = 0
               /\ status[d] # "NONE" <=>
                     tracker'[d] > 0 \/ \E u \in Threads : Deletes(u, d)'
    <3>1. CASE d = c
      <4>1. \A u \in Threads : Deletes(u, c)' => u = t
        BY <2>5 DEF Deletes
      <4> QED  BY <2>3, <2>6, <2>7, <3>1, <4>1
    <3>2. CASE d # c  BY <2>4, <2>5, <2>6, <3>2 DEF IInv, Counted, Deletes
    <3> QED  BY <3>1, <3>2
  <2> QED  BY <2>3, <2>4, <2>8 DEF Counted, Deletes
<1>10. Adhering'
  BY <1>2, <1>4, <1>5 DEF IInv, Typed, GlueTypes, Calls, Adhering, Exists, Live, Marked, ChunkOf, GlueAtRest
<1> QED  BY <1>6, <1>7, <1>8, <1>9, <1>10 DEF IInv

\* Destroying a managedPtr keeps the ownership invariant.
LEMMA DestroyKeeps ==
    ASSUME IInv, NEW t \in Threads, NEW p \in Ptrs, Destroy(t, p)
    PROVE  IInv'
<1> DEFINE c == chunk[p]
<1>1. /\ call[t].at = "idle" /\ Live(p) /\ PtrAtRest(p) /\ \A g \in Glues : glue[g].data # p
      /\ UNCHANGED <<glue, status>>
  BY DEF Destroy
<1>2. c \in Chunks \cup {NULL}  BY <1>1 DEF IInv, Typed, Live
<1>3. CASE c # NULL /\ tracker[c] = 1
  <2>1. MDelete(t, p, None) /\ UNCHANGED chunk /\ tracker' = [tracker EXCEPT ![c] = @ - 1]
    BY <1>3 DEF Destroy
  <2> QED  BY <1>1, <1>2, <1>3, <2>1, MDeleteKeeps
<1>4. CASE ~(c # NULL /\ tracker[c] = 1)
  <2>1. chunk' = [chunk EXCEPT ![p] = None] /\ UNCHANGED call
    BY <1>4 DEF Destroy
  <2>2. tracker' = [d \in Chunks |-> IF d = c THEN tracker[d] - 1
                                     ELSE IF d = None THEN tracker[d] + 1 ELSE tracker[d]]
    BY <1>2, <1>4 DEF Destroy, IInv, Typed
  <2>3. None # c /\ (c \in Chunks => tracker[c] # 1)  BY <1>2, <1>4
  <2>4. None \in Chunks \cup {NULL, None} /\ None \notin Chunks  OBVIOUS
  <2> QED  BY <1>1, <2>1, <2>2, <2>3, <2>4, RebindKeeps
<1> QED  BY <1>3, <1>4

\* Assigning a managedPtr keeps the ownership invariant.
LEMMA AssignKeeps ==
    ASSUME IInv, NEW t \in Threads, NEW p \in Ptrs, NEW q \in Ptrs, Assign(t, p, q)
    PROVE  IInv'
<1> DEFINE c == chunk[p]
           less == IF c = NULL THEN tracker ELSE [tracker EXCEPT ![c] = @ - 1]
<1>1. /\ call[t].at = "idle" /\ Live(p) /\ PtrAtRest(p) /\ Readable(q) /\ c # chunk[q]
      /\ UNCHANGED <<glue, status>>
  BY DEF Assign
<1>2. c \in Chunks \cup {NULL}  BY <1>1 DEF IInv, Typed, Live
<1>3. chunk[q] \in Chunks \cup {NULL} /\ Owns(q, chunk[q])  BY <1>1, ReadableOwns
<1>4. \A g \in Glues : glue[g].data = p => ~Marked(g) /\ GlueAtRest(g)
  BY LoadedMarked DEF Assign, IInv
<1>5. CASE c # NULL /\ tracker[c] = 1
  <2>1. MDelete(t, p, q) /\ UNCHANGED chunk /\ tracker' = [tracker EXCEPT ![c] = @ - 1]
    BY <1>5 DEF Assign
  <2>2. c \in Chunks /\ q \in Ptrs \cup {None} /\ q # None  BY <1>2, <1>5
  <2> QED  BY <1>1, <1>4, <1>5, <2>1, <2>2, MDeleteKeeps
<1>6. CASE ~(c # NULL /\ tracker[c] = 1)
  <2>1. chunk' = [chunk EXCEPT ![p] = chunk[q]] /\ UNCHANGED call /\ tracker' = Added(less, chunk[q])
    BY <1>6 DEF Assign
  <2>2. tracker' = [d \in Chunks |-> IF d = c THEN tracker[d] - 1
                                     ELSE IF d = chunk[q] THEN tracker[d] + 1 ELSE tracker[d]]
    BY <1>1, <1>2, <1>3, <2>1 DEF IInv, Typed, Added
  <2>3. chunk[q] # c /\ (c \in Chunks => tracker[c] # 1)  BY <1>1, <1>2, <1>6
  <2>4. chunk[q] \in Chunks \cup {NULL, None} /\ chunk[q] # None /\ \E x \in Ptrs : Owns(x, chunk[q])
    BY <1>3
  <2> QED  BY <1>1, <1>4, <2>1, <2>2, <2>3, <2>4, RebindKeeps
<1> QED  BY <1>5, <1>6

\* The constructor of the elements keeps the ownership invariant.
LEMMA ConstructKeeps ==
    ASSUME IInv, NEW t \in Threads, Construct(t)
    PROVE  IInv'
<1> DEFINE c == call[t].chunk
           p == call[t].ptr
<1>1. Building(call[t]) /\ chunk[p] = None /\ p # None
  BY DEF Construct, IInv, Shapes, Jobs, Resting, Using, Building, Deleting
<1>2. /\ chunk' = [chunk EXCEPT ![p] = c] /\ call' = [call EXCEPT ![t] = Idle]
      /\ UNCHANGED <<tracker, glue, status>>
  BY DEF Construct, Return, Continue
<1>3. c \in Chunks /\ p \in Ptrs /\ call[t].then = "construct" /\ call[t].glue = None /\ call[t].ref = None
  BY <1>1 DEF Building
<1>4. /\ call'[t] = Idle
      /\ \A u \in Threads : u # t => call'[u] = call[u] /\ call[u].ptr # p /\ call[u].ref # p
  BY <1>1, <1>2 DEF IInv, Typed, Apart
<1>5. Idle \in Calls /\ Resting(Idle) /\ NoPtr(Idle) /\ Idle.at # "setUse"
  BY IdleTyped DEF Resting
<1>6. Typed' /\ Shapes'
  BY <1>2, <1>3, <1>4, <1>5 DEF IInv, Typed, Shapes
<1>7. Jobs'
  BY <1>2, <1>3, <1>4, <1>5 DEF IInv, Typed, Jobs, NoPtr, Shapes, Calls, Resting, Using, Building, Deleting
<1>8. Apart'  BY <1>4, <1>5 DEF IInv, Apart, NoPtr
<1>9. Counted'
  <2>1. ASSUME NEW d \in Chunks PROVE tracker[d] = Cardinality(Owners(d)')
    <3>1. \A q \in Ptrs : Owns(q, d)' <=> Owns(q, d)
      BY <1>1, <1>2, <1>3, <1>4, <1>5 DEF IInv, Typed, Owns, NoPtr
    <3> QED  BY <1>3, <1>6, <3>1, OwnersChange
  <2>2. ASSUME NEW u \in Threads, NEW d \in Chunks PROVE Deletes(u, d)' <=> Deletes(u, d)
    BY <1>3, <1>4, <1>5 DEF Deletes, NoPtr
  <2> QED  BY <1>2, <2>1, <2>2 DEF IInv, Counted
<1>10. Adhering'
  <2>1. \A g \in Glues : Exists(g) => glue[g].data # p
    BY <1>1 DEF IInv, Adhering, Live
  <2> QED
    BY <1>2, <1>3, <1>4, <1>5, <2>1
    DEF IInv, Typed, GlueTypes, Calls, Adhering, Exists, Live, Marked, ChunkOf, GlueAtRest, NoPtr, Resting
<1> QED  BY <1>6, <1>7, <1>8, <1>9, <1>10 DEF IInv

\* mfree keeps the ownership invariant.
LEMMA MFreeKeeps ==
    ASSUME IInv, NEW t \in Threads, MFree(t)
    PROVE  IInv'
<1> DEFINE c == call[t].chunk
           p == call[t].ptr
           q == call[t].ref
           new == IF q = None THEN None ELSE chunk[q]
<1>1. Deleting(call[t])
  BY DEF MFree, IInv, Shapes, Resting, Using, Building, Deleting
<1>2. /\ chunk' = [chunk EXCEPT ![p] = new] /\ call' = [call EXCEPT ![t] = Idle]
      /\ status' = [status EXCEPT ![c] = "NONE"]
      /\ tracker' = IF new = None THEN tracker ELSE Added(tracker, new)
      /\ UNCHANGED glue
  BY DEF MFree, Return, Continue
<1>3. /\ c \in Chunks /\ p \in Ptrs /\ p # None /\ chunk[p] = c
      /\ call[t].then = "destruct" /\ call[t].glue = None /\ q \in Ptrs \cup {None}
      /\ new # c /\ new \in Chunks \cup {NULL, None} /\ (q # None => new # None)
  BY <1>1 DEF Deleting, IInv, Typed, Jobs, Calls
<1>4. /\ call'[t] = Idle
      /\ \A u \in Threads : u # t => /\ call'[u] = call[u] /\ call[u].ptr # p /\ call[u].ref # p
                                     /\ q # None => call[u].ptr # q
  BY <1>2, <1>3 DEF IInv, Typed, Apart
<1>5. Idle \in Calls /\ Resting(Idle) /\ NoPtr(Idle) /\ Idle.at # "setUse"
  BY IdleTyped DEF Resting
<1>6. tracker' = [d \in Chunks |-> IF d = new THEN tracker[d] + 1 ELSE tracker[d]]
  <2>1. tracker \in [Chunks -> Nat] /\ None \notin Chunks  BY DEF IInv, Typed
  <2> HIDE DEF new
  <2>2. CASE new = None \/ new = NULL  BY <1>2, <2>1, <2>2 DEF Added
  <2>3. CASE new \in Chunks  BY <1>2, <2>1, <2>3 DEF Added
  <2> QED  BY <1>3, <2>2, <2>3
<1>7. Typed' /\ Shapes'
  <2> HIDE DEF new
  <2> QED  BY <1>2, <1>3, <1>4, <1>5, <1>6 DEF IInv, Typed, Shapes
<1>8. Jobs'
  <2> HIDE DEF new
  <2> QED
    BY <1>2, <1>3, <1>4, <1>5
    DEF IInv, Typed, Jobs, NoPtr, Shapes, Calls, Resting, Using, Building, Deleting
<1>9. Apart'  BY <1>4, <1>5 DEF IInv, Apart, NoPtr
<1>10. new \in Chunks => Owns(q, new) /\ q \in Ptrs
  BY <1>3, <1>4 DEF Owns
<1>11. Counted'
  <2> HIDE DEF new
  <2>1. tracker[c] = 0 /\ Deletes(t, c) /\ \A u \in Threads : u # t => ~Deletes(u, c)
    BY <1>3 DEF IInv, Counted, Deletes
  <2>2. \A u \in Threads, d \in Chunks : Deletes(u, d)' <=> Deletes(u, d) /\ u # t
    BY <1>4, <1>5 DEF Deletes, NoPtr
  <2>3. new \in Chunks => /\ tracker[new] > 0 /\ status[new] # "NONE"
                          /\ \A u \in Threads : ~Deletes(u, new)
    BY <1>10, OwnedIsThere
  <2>4. ASSUME NEW d \in Chunks PROVE tracker'[d] = Cardinality(Owners(d)')
    <3>1. \A x \in Ptrs : x # p => (Owns(x, d)' <=> Owns(x, d))
      BY <1>2, <1>3, <1>4, <1>5 DEF IInv, Typed, Owns, NoPtr
    <3>2. \A x \in Ptrs : x = p => ~Owns(x, d)  BY <1>3, <1>4 DEF Owns
    <3>3. \A x \in Ptrs : x = p => (Owns(x, d)' <=> d = new)
      <4>1. chunk'[p] = new  BY <1>2, <1>3 DEF IInv, Typed
      <4>2. \A u \in Threads : ~(call'[u].then \in {"construct", "destruct"} /\ call'[u].ptr = p)
        BY <1>4, <1>5 DEF NoPtr
      <4> QED  BY <4>1, <4>2 DEF Owns
    <3>4. CASE d = new
      <4>1. \A x \in Ptrs : Owns(x, d)' <=> Owns(x, d) \/ x = p  BY <3>1, <3>2, <3>3, <3>4
      <4> QED  BY <1>3, <1>6, <1>7, <3>2, <3>4, <4>1, OwnersChange
    <3>5. CASE d # new
      <4>1. \A x \in Ptrs : Owns(x, d)' <=> Owns(x, d)  BY <3>1, <3>2, <3>3, <3>5
      <4> QED  BY <1>3, <1>6, <1>7, <3>5, <4>1, OwnersChange
    <3> QED  BY <3>4, <3>5
  <2>5. ASSUME NEW d \in Chunks
        PROVE  /\ \A u, v \in Threads : Deletes(u, d)' /\ Deletes(v, d)' => u = v
               /\ \A u \in Threads : Deletes(u, d)' => tracker'[d] = 0
               /\ status'[d] # "NONE" <=> tracker'[d] > 0 \/ \E u \in Threads : Deletes(u, d)'
    <3>1. \A u, v \in Threads : Deletes(u, d)' /\ Deletes(v, d)' => u = v
      BY <2>2 DEF IInv, Counted
    <3>2. \A u \in Threads : Deletes(u, d)' => tracker'[d] = 0
      BY <1>6, <2>2, <2>3 DEF IInv, Counted
    <3>3. status'[d] # "NONE" <=> tracker'[d] > 0 \/ \E u \in Threads : Deletes(u, d)'
      <4>1. CASE d = c  BY <1>2, <1>3, <1>6, <2>1, <2>2, <4>1 DEF IInv, Typed
      <4>2. CASE d = new  BY <1>2, <1>3, <1>6, <2>3, <4>2 DEF IInv, Typed
      <4>3. CASE d # c /\ d # new
        <5>1. status'[d] = status[d] /\ tracker'[d] = tracker[d]
          BY <1>2, <1>6, <4>3 DEF IInv, Typed
        <5>2. \A u \in Threads : Deletes(u, d)' <=> Deletes(u, d)
          BY <1>3, <2>2, <4>3 DEF Deletes
        <5> QED  BY <5>1, <5>2 DEF IInv, Counted
      <4> QED  BY <4>1, <4>2, <4>3
    <3> QED  BY <3>1, <3>2, <3>3
  <2> QED  BY <2>4, <2>5 DEF Counted
<1>12. Adhering'
  <2>1. \A g \in Glues : Exists(g) /\ glue[g].data = p => ~Marked(g) /\ q # None /\ GlueAtRest(g)
    BY <1>3 DEF IInv, Adhering
  <2> HIDE DEF new
  <2> QED
    BY <1>2, <1>3, <1>4, <1>5, <2>1
    DEF IInv, Typed, GlueTypes, Calls, Adhering, Exists, Live, Marked, ChunkOf, GlueAtRest, NoPtr, Resting
<1> QED  BY <1>7, <1>8, <1>9, <1>11, <1>12 DEF IInv
-----------------------------------------------------------------------------
(* The theorem *)

\* The ownership invariant holds initially.
LEMMA InitIInv == Init => IInv
<1> SUFFICES ASSUME Init PROVE IInv  OBVIOUS
<1>1. /\ chunk = [p \in Ptrs |-> None] /\ tracker = [c \in Chunks |-> 0]
      /\ glue = [g \in Glues |-> NoGlue] /\ status = [c \in Chunks |-> "NONE"]
      /\ call = [t \in Threads |-> Idle]
  BY DEF Init
<1>2. NoGlue \in GlueTypes /\ NoGlue.data = None  BY DEF NoGlue, GlueTypes
<1>3. Idle \in Calls /\ Resting(Idle) /\ NoPtr(Idle) /\ Idle.at # "setUse" /\ Idle.glue = None
  BY IdleTyped DEF Resting
<1>4. Typed  BY <1>1, <1>2, <1>3 DEF Typed
<1>5. Shapes  BY <1>1, <1>3 DEF Shapes
<1>6. Jobs /\ Apart  BY <1>1, <1>3 DEF Jobs, Apart, NoPtr
<1>7. Counted
  <2>1. ASSUME NEW c \in Chunks PROVE Cardinality(Owners(c)) = 0
    <3>1. \A p \in Ptrs : ~Owns(p, c)  BY <1>1, <1>3 DEF Owns, NoPtr
    <3>2. Owners(c) = {}  BY <1>5, <3>1, OwnersFinite
    <3> QED  BY <3>2, FS_EmptySet
  <2>2. \A t \in Threads, c \in Chunks : ~Deletes(t, c)  BY <1>1, <1>3 DEF Deletes, NoPtr
  <2> QED  BY <1>1, <2>1, <2>2 DEF Counted
<1>8. Adhering  BY <1>1, <1>2, <1>3 DEF Adhering, Exists, NoPtr
<1> QED  BY <1>4, <1>5, <1>6, <1>7, <1>8 DEF IInv

\* Every step keeps the ownership invariant.
LEMMA NextIInv == IInv /\ [Next]_vars => IInv'
<1> SUFFICES ASSUME IInv, [Next]_vars PROVE IInv'  OBVIOUS
<1>1. CASE UNCHANGED vars
  <2>1. /\ chunk' = chunk /\ tracker' = tracker /\ glue' = glue /\ status' = status /\ call' = call
    BY <1>1 DEF vars
  <2>2. Typed' /\ Shapes'
    BY <2>1 DEF IInv, Typed, Shapes, Resting, Using, Building, Deleting, NoPtr
  <2>3. QuietPtrs /\ QuietGlues  BY <2>1 DEF QuietPtrs, QuietGlues
  <2> QED  BY <2>2, <2>3, QuietKeeps
<1>2. ASSUME NEW c \in Chunks, SwapOut(c) PROVE IInv'  BY <1>2, SwapOutKeeps
<1>3. ASSUME NEW t \in Threads,
             SetUse(t) \/ SwapIn(t) \/ Construct(t) \/ Destruct(t) \/ MFree(t) \/ GetLocPtr(t)
      PROVE  IInv'
  BY <1>3, SetUseKeeps, SwapInKeeps, ConstructKeeps, DestructKeeps, MFreeKeeps, GetLocPtrKeeps
<1>4. ASSUME NEW t \in Threads, NEW p \in Ptrs, CreateEmpty(t, p) \/ Destroy(t, p)
      PROVE  IInv'
  BY <1>4, CreateEmptyKeeps, DestroyKeeps
<1>5. ASSUME NEW t \in Threads, NEW p \in Ptrs, NEW c \in Chunks, Create(t, p, c)
      PROVE  IInv'
  BY <1>5, CreateKeeps
<1>6. ASSUME NEW t \in Threads, NEW p \in Ptrs, NEW q \in Ptrs, Copy(t, p, q) \/ Assign(t, p, q)
      PROVE  IInv'
  BY <1>6, CopyKeeps, AssignKeeps
<1>7. ASSUME NEW t \in Threads, NEW g \in Glues, NEW p \in Ptrs, NEW load \in BOOLEAN,
             Adhere(t, g, p, load)
      PROVE  IInv'
  BY <1>7, AdhereKeeps
<1>8. ASSUME NEW t \in Threads, NEW g \in Glues, NEW m \in Modes, Pull(t, g, m)
      PROVE  IInv'
  BY <1>8, PullKeeps
<1>9. ASSUME NEW t \in Threads, NEW g \in Glues, NEW h \in Glues,
             CopyAdhereTo(t, g, h) \/ AssignAdhereTo(t, g, h)
      PROVE  IInv'
  BY <1>9, TakesAfterKeeps DEF CopyAdhereTo, AssignAdhereTo
<1>10. ASSUME NEW t \in Threads, NEW g \in Glues, DestroyAdhereTo(t, g)
       PROVE  IInv'
  BY <1>10, DestroyAdhereToKeeps
<1> QED
  BY <1>1, <1>2, <1>3, <1>4, <1>5, <1>6, <1>7, <1>8, <1>9, <1>10 DEF Next

\* The chunk that at most one thread deletes is deleted by as many threads as the set of its
\* deleters has members.
LEMMA CountedExact == IInv => TrackerExact
<1> SUFFICES ASSUME IInv, NEW c \in Chunks
             PROVE  LET deleters == {t \in Threads : call[t].then = "destruct" /\ call[t].chunk = c}
                    IN  /\ tracker[c] = Cardinality(Owners(c))
                        /\ Cardinality(deleters) <= 1
                        /\ deleters # {} => tracker[c] = 0
                        /\ status[c] # "NONE" <=> tracker[c] > 0 \/ deleters # {}
  BY DEF TrackerExact
<1> DEFINE deleters == {t \in Threads : call[t].then = "destruct" /\ call[t].chunk = c}
<1>1. \A t \in Threads : t \in deleters <=> Deletes(t, c)  BY DEF Deletes
<1>2. Cardinality(deleters) <= 1
  <2>1. CASE deleters = {}
    <3> HIDE DEF deleters
    <3> QED  BY <2>1, FS_EmptySet
  <2>2. CASE deleters # {}
    <3>1. PICK t \in Threads : deleters = {t}  BY <1>1, <2>2 DEF IInv, Counted
    <3> QED  BY <3>1, FS_Singleton
  <2> QED  BY <2>1, <2>2
<1>3. deleters # {} <=> \E t \in Threads : Deletes(t, c)  BY <1>1
<1> HIDE DEF deleters
<1>4. deleters # {} => tracker[c] = 0  BY <1>3 DEF IInv, Counted
<1>5. tracker[c] = Cardinality(Owners(c)) /\ (status[c] # "NONE" <=> tracker[c] > 0 \/ deleters # {})
  BY <1>3 DEF IInv, Counted
<1> QED  BY <1>2, <1>4, <1>5 DEF deleters

\* However many threads copy, assign, construct and destroy managedPtrs of a chunk, and
\* whether or not they pull pointers from one adhereTo at a time: the tracker counts the
\* managedPtrs there are, and one thread at most deletes the chunk, after the last of them.
THEOREM TrackerIsExact == Spec => []TrackerExact
<1>1. Spec => []IInv  BY InitIInv, NextIInv, PTL DEF Spec
<1> QED  BY <1>1, CountedExact, PTL
-----------------------------------------------------------------------------
(***************************************************************************)
(* The use counts.  useCnt[c] is what the adhereTos have taken of c        *)
(* (Held), plus the constructors and destructors at work on it (Running).  *)
(* An adhereTo has taken what it has marked, less what calls have still to *)
(* take for it (Waiting): flags and counts change in different steps, the  *)
(* flags first (UsesOK).  Every action changes the sums for one thread and *)
(* one adhereTo only (OneCall, UsesMove).  From UInv follows that counts   *)
(* never go below zero and that mfree meets no chunk in use.               *)
(***************************************************************************)
(* The inductive invariant *)

\* The uses that call r has still to take for adhereTo g, and the one it has as a constructor
\* or destructor of chunk c.
Awaits(r, g) == IF r.glue = g THEN r.left ELSE 0
Runs(r, c)   == IF /\ r.chunk = c /\ r.at \in {"room", "construct", "destruct"}
                   /\ r.then \in {"construct", "destruct"}
                THEN 1 ELSE 0

Waiting(g)  == SumOver([t \in Threads |-> Awaits(call[t], g)], Threads)
Running(c)  == SumOver([t \in Threads |-> Runs(call[t], c)], Threads)

\* The uses g has of chunk c: what it has marked and nobody has still to take.
Taken(g, c) == IF Exists(g) /\ ChunkOf(g) = c THEN Loaded(g) - Waiting(g) ELSE 0
Held(c)     == SumOver([g \in Glues |-> Taken(g, c)], Glues)

\* UseExact, with the uses not yet counted taken off where they are marked.
UsesOK ==
    /\ useCnt \in [Chunks -> Nat]
    /\ \A g \in Glues : Waiting(g) <= Loaded(g)
    /\ \A c \in Chunks : useCnt[c] = Held(c) + Running(c)

\* A call that waits for the chunk has a use of it.
RoomsOK ==
    \A t \in Threads :
        call[t].at = "room" /\ call[t].glue # None => Waiting(call[t].glue) < Loaded(call[t].glue)

Lefts ==
    \A t \in Threads :
        /\ call[t].then \in {"construct", "destruct"} =>
              call[t].left = IF call[t].at = "setUse" THEN 1 ELSE 0
        /\ call[t].at \in {"idle", "prepareUse", "getLocPtr", "spin"} => call[t].left = 0

\* An adhereTo that is not there holds nothing.
Voids == \A g \in Glues : ~Exists(g) => ~Marked(g) /\ glue[g].loc = None

RunsOK == \A t \in Threads : call[t].at \in {"construct", "destruct"} => status[call[t].chunk] = "ALLOCATED"

Destructs(t, p) == call[t].then = "destruct" /\ call[t].ptr = p

\* The elements of a chunk are there from the end of its construction to their destruction.
Builds ==
    /\ built \subseteq Chunks
    /\ \A p \in Ptrs :
          chunk[p] \in Chunks /\ (\A t \in Threads : ~Destructs(t, p)) => chunk[p] \in built
    /\ \A t \in Threads : call[t].then = "destruct" =>
          IF call[t].at = "mfree" THEN call[t].chunk \in Classes => call[t].chunk \notin built
          ELSE call[t].chunk \in built

UInv == IInv /\ UsesOK /\ RoomsOK /\ Lefts /\ Voids /\ RunsOK /\ Builds
-----------------------------------------------------------------------------
(* Sums over the calls and over the adhereTos *)

\* A call awaits as many uses as it has left to take, and runs for one chunk at most.
LEMMA CallCounts ==
    ASSUME NEW r \in Calls
    PROVE  \A x : Awaits(r, x) \in 0..2 /\ Runs(r, x) \in 0..1
BY DEF Calls, Awaits, Runs

\* What the sums become when the call of one thread changes.
LEMMA OneCall ==
    ASSUME Typed, Typed', NEW t \in Threads,
           \A u \in Threads : u # t => call'[u] = call[u],
           NEW x
    PROVE  /\ Waiting(x) \in Nat /\ Running(x) \in Nat
           /\ Waiting(x)' \in Nat /\ Running(x)' \in Nat
           /\ Awaits(call[t], x) <= Waiting(x)
           /\ Runs(call[t], x) <= Running(x)
           /\ Waiting(x)' = Waiting(x) - Awaits(call[t], x) + Awaits(call'[t], x)
           /\ Running(x)' = Running(x) - Runs(call[t], x) + Runs(call'[t], x)
<1>1. \A u \in Threads : call[u] \in Calls /\ call'[u] \in Calls  BY DEF Typed
<1>2. \A u \in Threads : /\ Awaits(call[u], x) \in 0..2 /\ Awaits(call'[u], x) \in 0..2
                         /\ Runs(call[u], x) \in 0..1 /\ Runs(call'[u], x) \in 0..1
  BY <1>1, CallCounts
<1> DEFINE a == [u \in Threads |-> Awaits(call[u], x)]
           b == [u \in Threads |-> Awaits(call'[u], x)]
           r == [u \in Threads |-> Runs(call[u], x)]
           s == [u \in Threads |-> Runs(call'[u], x)]
<1>3. /\ \A u \in Threads : a[u] \in Nat /\ b[u] \in Nat /\ r[u] \in Nat /\ s[u] \in Nat
      /\ \A u \in Threads : u # t => b[u] = a[u] /\ s[u] = r[u]
      /\ a[t] = Awaits(call[t], x) /\ b[t] = Awaits(call'[t], x)
      /\ r[t] = Runs(call[t], x) /\ s[t] = Runs(call'[t], x)
  BY <1>2
<1>4. /\ Waiting(x) = SumOver(a, Threads) /\ Waiting(x)' = SumOver(b, Threads)
      /\ Running(x) = SumOver(r, Threads) /\ Running(x)' = SumOver(s, Threads)
  BY DEF Waiting, Running
<1> HIDE DEF a, b, r, s
<1>5. /\ SumOver(a, Threads) \in Nat /\ SumOver(b, Threads) \in Nat
      /\ SumOver(r, Threads) \in Nat /\ SumOver(s, Threads) \in Nat
  BY <1>3, SumType
<1>6. a[t] <= SumOver(a, Threads) /\ r[t] <= SumOver(r, Threads)
  BY <1>3, SumBounds
<1>7. SumOver(b, Threads) = SumOver(a, Threads) - a[t] + b[t]
  BY <1>3, SumChange
<1>8. SumOver(s, Threads) = SumOver(r, Threads) - r[t] + s[t]
  BY <1>3, SumChange
<1> QED  BY <1>3, <1>4, <1>5, <1>6, <1>7, <1>8

\* The sums are natural numbers.
LEMMA SumsTyped ==
    ASSUME Typed, NEW x
    PROVE  Waiting(x) \in Nat /\ Running(x) \in Nat
<1>1. \A u \in Threads : call[u] \in Calls  BY DEF Typed
<1> DEFINE a == [u \in Threads |-> Awaits(call[u], x)]
           r == [u \in Threads |-> Runs(call[u], x)]
<1>2. \A u \in Threads : a[u] \in Nat /\ r[u] \in Nat
  BY <1>1, CallCounts
<1>3. Waiting(x) = SumOver(a, Threads) /\ Running(x) = SumOver(r, Threads)
  BY DEF Waiting, Running
<1> HIDE DEF a, r
<1> QED  BY <1>2, <1>3, SumType

\* An adhereTo on which no thread works awaits no use.
LEMMA RestAwaitsNothing ==
    ASSUME Typed, NEW g \in Glues, GlueAtRest(g)
    PROVE  Waiting(g) = 0
<1> DEFINE a == [u \in Threads |-> Awaits(call[u], g)]
<1>1. \A u \in Threads : a[u] = 0  BY DEF Awaits, GlueAtRest
<1>2. Waiting(g) = SumOver(a, Threads)  BY DEF Waiting
<1> HIDE DEF a
<1> QED  BY <1>1, <1>2, SumZero

\* What an adhereTo has taken, and what all of them have of a chunk, are natural numbers.
LEMMA TakenTyped ==
    ASSUME Typed, \A g \in Glues : Waiting(g) <= Loaded(g), NEW c
    PROVE  /\ \A g \in Glues : Taken(g, c) \in Nat /\ Taken(g, c) <= Held(c)
           /\ Held(c) \in Nat
<1>1. \A g \in Glues : Taken(g, c) \in Nat
  BY LoadedMarked, SumsTyped DEF Taken
<1> DEFINE f == [g \in Glues |-> Taken(g, c)]
<1>2. \A g \in Glues : f[g] \in Nat /\ f[g] = Taken(g, c)  BY <1>1
<1>3. Held(c) = SumOver(f, Glues)  BY DEF Held
<1> HIDE DEF f
<1>4. SumOver(f, Glues) \in Nat  BY <1>2, SumType
<1>5. \A g \in Glues : f[g] <= SumOver(f, Glues)  BY <1>2, SumBounds
<1> QED  BY <1>2, <1>3, <1>4, <1>5

\* The same after a step.
LEMMA TakenTypedNext ==
    ASSUME Typed', NEW c,
           \A g \in Glues : Waiting(g)' \in Nat /\ Waiting(g)' <= Loaded(g)'
    PROVE  /\ \A g \in Glues : Taken(g, c)' \in Nat /\ Taken(g, c)' <= Held(c)'
           /\ Held(c)' \in Nat
<1>1. \A g \in Glues : Taken(g, c)' \in Nat
  <2>1. \A g \in Glues : Loaded(g)' \in 0..2  BY LoadedMarkedNext
  <2> QED  BY <2>1 DEF Taken
<1> DEFINE f == [g \in Glues |-> Taken(g, c)']
<1>2. \A g \in Glues : f[g] \in Nat /\ f[g] = Taken(g, c)'  BY <1>1
<1>3. Held(c)' = SumOver(f, Glues)  BY DEF Held
<1> HIDE DEF f
<1>4. SumOver(f, Glues) \in Nat  BY <1>2, SumType
<1>5. \A g \in Glues : f[g] <= SumOver(f, Glues)  BY <1>2, SumBounds
<1> QED  BY <1>2, <1>3, <1>4, <1>5

\* What adhereTo x, if it is one, has taken of chunk c.
Share(x, c) == IF x \in Glues THEN Taken(x, c) ELSE 0

\* An adhereTo that keeps its marks, the uses awaited for it and, if it has any, its chunk,
\* keeps what it has taken.
LEMMA TakenKept ==
    ASSUME UInv, IInv', NEW g \in Glues,
           glue'[g].data = glue[g].data, Loaded(g)' = Loaded(g), Waiting(g)' = Waiting(g),
           Exists(g) /\ Marked(g) => ChunkOf(g)' = ChunkOf(g)
    PROVE  \A c : Taken(g, c)' = Taken(g, c)
<1>1. /\ Waiting(g) \in Nat /\ Loaded(g) \in 0..2 /\ Waiting(g) <= Loaded(g)
      /\ Loaded(g) = 0 <=> ~Marked(g)
  BY SumsTyped, LoadedMarked DEF UInv, IInv, UsesOK
<1>2. Exists(g)' <=> Exists(g)  BY DEF Exists
<1>3. CASE Marked(g)  BY <1>2, <1>3 DEF Taken
<1>4. CASE ~Marked(g)
  <2>1. Loaded(g) - Waiting(g) = 0  BY <1>1, <1>4
  <2>2. (Loaded(g) - Waiting(g))' = 0  BY <2>1
  <2> QED  BY <2>1, <2>2 DEF Taken
<1> QED  BY <1>3, <1>4

\* One call and one adhereTo change.
LEMMA UsesMove ==
    ASSUME UInv, IInv', NEW t \in Threads, NEW x,
           \A u \in Threads : u # t => call'[u] = call[u],
           \A g \in Glues : g # x =>
              /\ glue'[g].data = glue[g].data /\ Loaded(g)' = Loaded(g)
              /\ Awaits(call'[t], g) = Awaits(call[t], g)
              /\ Exists(g) /\ Marked(g) => ChunkOf(g)' = ChunkOf(g),
           x \in Glues =>
              /\ Waiting(x)' <= Loaded(x)'
              /\ GlueAtRest(x) \/ Loaded(x)' - Waiting(x)' >= Loaded(x) - Waiting(x),
           (call[t].at = "room" /\ call[t].glue # None
               => Waiting(call[t].glue) < Loaded(call[t].glue))',
           useCnt' = [c \in Chunks |-> useCnt[c] - Share(x, c) + Share(x, c)'
                                                 - Runs(call[t], c) + Runs(call'[t], c)]
    PROVE  UsesOK' /\ RoomsOK'
<1>1. Typed /\ Typed'  BY DEF UInv, IInv
<1>2. \A g \in Glues : g # x => Waiting(g)' = Waiting(g)
  <2> SUFFICES ASSUME NEW g \in Glues, g # x PROVE Waiting(g)' = Waiting(g)
    OBVIOUS
  <2>1. Waiting(g) \in Nat /\ Awaits(call[t], g) \in 0..2
    BY <1>1, OneCall, CallCounts DEF Typed
  <2>2. Waiting(g)' = Waiting(g) - Awaits(call[t], g) + Awaits(call'[t], g)
    BY <1>1, OneCall
  <2> QED  BY <2>1, <2>2
<1>3. \A g \in Glues : g # x => \A c : Taken(g, c)' = Taken(g, c)
  BY <1>2, TakenKept
<1>4. \A g \in Glues : Waiting(g)' <= Loaded(g)'
  BY <1>2 DEF UInv, UsesOK
<1>5. ASSUME NEW c \in Chunks
      PROVE  /\ Held(c)' = Held(c) - Share(x, c) + Share(x, c)'
             /\ Held(c) \in Nat /\ Held(c)' \in Nat
             /\ Share(x, c) \in Nat /\ Share(x, c)' \in Nat
  <2>0. \A g \in Glues : Waiting(g)' \in Nat  BY <1>1, OneCall
  <2>1. /\ \A g \in Glues : Taken(g, c) \in Nat /\ Taken(g, c)' \in Nat
        /\ Held(c) \in Nat /\ Held(c)' \in Nat
    BY <1>1, <1>4, <2>0, TakenTyped, TakenTypedNext DEF UInv, UsesOK
  <2>2. Held(c) \in Nat /\ Held(c)' \in Nat  BY <2>1
  <2> DEFINE f == [g \in Glues |-> Taken(g, c)]
             k == [g \in Glues |-> Taken(g, c)']
  <2>3. Held(c) = SumOver(f, Glues) /\ Held(c)' = SumOver(k, Glues)  BY DEF Held
  <2>4. \A g \in Glues : /\ f[g] \in Nat /\ k[g] \in Nat
                         /\ f[g] = Taken(g, c) /\ k[g] = Taken(g, c)'
    BY <2>1
  <2> HIDE DEF f, k
  <2>5. CASE x \in Glues
    <3>1. SumOver(k, Glues) = SumOver(f, Glues) - f[x] + k[x]
      <4>1. \A g \in Glues : g # x => k[g] = f[g]  BY <1>3, <2>4
      <4> QED  BY <2>4, <2>5, <4>1, SumChange
    <3> QED  BY <2>2, <2>3, <2>4, <2>5, <3>1 DEF Share
  <2>6. CASE x \notin Glues
    <3>1. \A g \in Glues : f[g] = k[g]
      <4>1. \A g \in Glues : g # x  BY <2>6
      <4> QED  BY <1>3, <2>4, <4>1
    <3>2. SumOver(f, Glues) = SumOver(k, Glues)  BY <3>1, SumSame
    <3> QED  BY <2>2, <2>3, <2>6, <3>2 DEF Share
  <2> QED  BY <2>5, <2>6
<1>6. ASSUME NEW c \in Chunks
      PROVE  useCnt'[c] = Held(c)' + Running(c)' /\ useCnt'[c] \in Nat
  <2>1. /\ Running(c) \in Nat /\ Running(c)' \in Nat
        /\ Running(c)' = Running(c) - Runs(call[t], c) + Runs(call'[t], c)
    BY <1>1, OneCall
  <2>2. Runs(call[t], c) \in 0..1 /\ Runs(call'[t], c) \in 0..1
    BY <1>1, CallCounts DEF Typed
  <2>3. useCnt[c] = Held(c) + Running(c)  BY DEF UInv, UsesOK
  <2>4. useCnt'[c] = useCnt[c] - Share(x, c) + Share(x, c)' - Runs(call[t], c) + Runs(call'[t], c)
    OBVIOUS
  <2>5. PICK h, hh, w, ww, s, ss : h = Held(c) /\ hh = Held(c)' /\ w = Running(c) /\ ww = Running(c)'
                                   /\ s = Share(x, c) /\ ss = Share(x, c)'
    OBVIOUS
  <2>6. PICK a, b : a = Runs(call[t], c) /\ b = Runs(call'[t], c)
    OBVIOUS
  <2>7. /\ hh = h - s + ss /\ h \in Nat /\ hh \in Nat /\ s \in Nat /\ ss \in Nat
        /\ w \in Nat /\ ww \in Nat /\ ww = w - a + b /\ a \in 0..1 /\ b \in 0..1
    BY <1>5, <2>1, <2>2, <2>5, <2>6
  <2>8. useCnt'[c] = (h + w) - s + ss - a + b  BY <2>3, <2>4, <2>5, <2>6
  <2>9. useCnt'[c] = hh + ww  BY <2>7, <2>8
  <2> QED  BY <2>5, <2>7, <2>9
<1>7. UsesOK'
  <2>1. useCnt' \in [Chunks -> Nat]  BY <1>6
  <2> QED  BY <1>4, <1>6, <2>1 DEF UsesOK
<1>8. RoomsOK'
  <2> SUFFICES ASSUME NEW u \in Threads, call'[u].at = "room", call'[u].glue # None
               PROVE  (Waiting(call[u].glue) < Loaded(call[u].glue))'
    BY DEF RoomsOK
  <2>1. CASE u = t  BY <2>1
  <2>2. CASE u # t
    <3>1. PICK g \in Glues : g = call[u].glue /\ g = call'[u].glue
      BY <1>1, <2>2 DEF Typed, Calls
    <3>2. Waiting(g) < Loaded(g)  BY <2>2, <3>1 DEF UInv, RoomsOK
    <3>3. Waiting(g)' < Loaded(g)'
      <4>1. CASE g = x
        <5>1. ~GlueAtRest(x)  BY <3>1, <4>1 DEF GlueAtRest
        <5>2. Loaded(x)' - Waiting(x)' >= Loaded(x) - Waiting(x)  BY <4>1, <5>1
        <5>3. /\ Loaded(x) \in 0..2 /\ Loaded(x)' \in 0..2
              /\ Waiting(x) \in Nat /\ Waiting(x)' \in Nat
          BY <1>1, <4>1, LoadedMarked, LoadedMarkedNext, OneCall
        <5> QED  BY <3>2, <4>1, <5>2, <5>3
      <4>2. CASE g # x  BY <1>2, <3>2, <4>2
      <4> QED  BY <4>1, <4>2
    <3> QED  BY <3>1, <3>3
  <2> QED  BY <2>1, <2>2
<1> QED  BY <1>7, <1>8

\* An adhereTo whose flags stay is marked as often as before.
LEMMA LoadedKept ==
    ASSUME NEW g, glue'[g].loadedReadable = glue[g].loadedReadable,
           glue'[g].loadedWritable = glue[g].loadedWritable
    PROVE  Loaded(g)' = Loaded(g) /\ (Marked(g)' <=> Marked(g))
<1>1. {m \in Modes : glue'[g][m]} = {m \in Modes : glue[g][m]}  BY DEF Modes
<1> QED  BY <1>1 DEF Loaded, Marked

\* The adhereTos keep what they have.
LEMMA UsesStay ==
    ASSUME UInv, IInv', NEW t \in Threads,
           \A u \in Threads : u # t => call'[u] = call[u],
           \A g \in Glues :
              /\ glue'[g].data = glue[g].data
              /\ glue'[g].loadedReadable = glue[g].loadedReadable
              /\ glue'[g].loadedWritable = glue[g].loadedWritable
              /\ Exists(g) /\ Marked(g) => ChunkOf(g)' = ChunkOf(g),
           \A g \in Glues : Awaits(call'[t], g) = Awaits(call[t], g),
           ~(call'[t].at = "room" /\ call'[t].glue # None),
           useCnt' = [c \in Chunks |-> useCnt[c] - Runs(call[t], c) + Runs(call'[t], c)]
    PROVE  UsesOK' /\ RoomsOK'
<1>1. \A g \in Glues : Loaded(g)' = Loaded(g)  BY LoadedKept
<1>2. None \notin Glues  OBVIOUS
<1>3. \A c : Share(None, c) = 0 /\ Share(None, c)' = 0  BY <1>2 DEF Share
<1>4. useCnt' = [c \in Chunks |-> useCnt[c] - Share(None, c) + Share(None, c)'
                                            - Runs(call[t], c) + Runs(call'[t], c)]
  <2>1. \A c \in Chunks : useCnt[c] \in Nat  BY DEF UInv, UsesOK
  <2>2. \A c \in Chunks : useCnt[c] = useCnt[c] - Share(None, c) + Share(None, c)'
    BY <1>3, <2>1
  <2>3. \A c \in Chunks : useCnt'[c] = useCnt[c] - Share(None, c) + Share(None, c)'
                                         - Runs(call[t], c) + Runs(call'[t], c)
    <3> SUFFICES ASSUME NEW c \in Chunks
                 PROVE  useCnt'[c] = useCnt[c] - Share(None, c) + Share(None, c)'
                                         - Runs(call[t], c) + Runs(call'[t], c)
      OBVIOUS
    <3>1. useCnt'[c] = useCnt[c] - Runs(call[t], c) + Runs(call'[t], c)  OBVIOUS
    <3>2. PICK s, ss, a, b : /\ s = Share(None, c) /\ ss = Share(None, c)'
                             /\ a = Runs(call[t], c) /\ b = Runs(call'[t], c)
      OBVIOUS
    <3>3. s = 0 /\ ss = 0 /\ useCnt[c] \in Nat  BY <1>3, <2>1, <3>2
    <3>4. useCnt'[c] = useCnt[c] - a + b  BY <3>1, <3>2
    <3>5. a \in 0..1 /\ b \in 0..1
      BY <3>2, CallCounts DEF UInv, IInv, Typed
    <3>6. useCnt'[c] = useCnt[c] - s + ss - a + b  BY <3>3, <3>4, <3>5
    <3> QED  BY <3>2, <3>6
  <2>4. useCnt' = [c \in Chunks |-> useCnt'[c]]  OBVIOUS
  <2> QED  BY <2>3, <2>4
<1> QED  BY <1>1, <1>2, <1>4, UsesMove

\* What Granted does to the call and the adhereTos.
LEMMA GrantedMoves ==
    ASSUME Typed, NEW t \in Threads, NEW r \in Calls, Granted(t, r),
           r.glue # None => r.glue \in Glues
    PROVE  /\ \A u \in Threads : u # t => call'[u] = call[u]
           /\ call'[t] = IF r.left > 0 THEN [r EXCEPT !.at = "setUse"]
                         ELSE IF r.then \in {"construct", "destruct"} THEN [r EXCEPT !.at = r.then]
                         ELSE Idle
           /\ \A g \in Glues : /\ glue'[g].data = glue[g].data
                               /\ glue'[g].loadedReadable = glue[g].loadedReadable
                               /\ glue'[g].loadedWritable = glue[g].loadedWritable
                               /\ glue'[g].loc = IF r.then = "pull" /\ g = r.glue THEN r.chunk
                                                 ELSE glue[g].loc
           /\ \A g \in Glues : Awaits(call'[t], g) = Awaits(r, g)
           /\ \A c : Runs(call'[t], c) =
                        IF r.left = 0 /\ r.then \in {"construct", "destruct"} /\ r.chunk = c THEN 1 ELSE 0
           /\ call'[t].at # "room"
<1> DEFINE n == IF r.left > 0 THEN [r EXCEPT !.at = "setUse"]
                ELSE IF r.then \in {"construct", "destruct"} THEN [r EXCEPT !.at = r.then]
                ELSE Idle
<1>1. call'[t] = n /\ \A u \in Threads : u # t => call'[u] = call[u]
  BY DEF Granted, Continue, Typed
<1>2. \A g \in Glues : /\ glue'[g].data = glue[g].data
                       /\ glue'[g].loadedReadable = glue[g].loadedReadable
                       /\ glue'[g].loadedWritable = glue[g].loadedWritable
                       /\ glue'[g].loc = IF r.then = "pull" /\ g = r.glue THEN r.chunk
                                         ELSE glue[g].loc
  BY DEF Granted, Typed, GlueTypes
<1>3. r.left \in 0..2  BY DEF Calls
<1>4. \A g \in Glues : Awaits(n, g) = Awaits(r, g)
  <2>1. CASE r.left > 0  BY <2>1 DEF Awaits, Calls
  <2>2. CASE r.left = 0 /\ r.then \in {"construct", "destruct"}  BY <2>2 DEF Awaits, Calls
  <2>3. CASE r.left = 0 /\ r.then \notin {"construct", "destruct"}
    BY <2>3 DEF Awaits, Idle
  <2> QED  BY <1>3, <2>1, <2>2, <2>3
<1>5. ASSUME NEW c
      PROVE Runs(n, c) = IF r.left = 0 /\ r.then \in {"construct", "destruct"} /\ r.chunk = c THEN 1 ELSE 0
  <2>1. CASE r.left > 0  BY <2>1 DEF Runs, Calls
  <2>2. CASE r.left = 0 /\ r.then \in {"construct", "destruct"}  BY <2>2 DEF Runs, Calls
  <2>3. CASE r.left = 0 /\ r.then \notin {"construct", "destruct"}
    BY <2>3 DEF Runs, Idle
  <2> QED  BY <1>3, <2>1, <2>2, <2>3
<1>6. n.at # "room"  BY DEF Idle, Calls
<1> QED  BY <1>1, <1>2, <1>4, <1>5, <1>6

\* A chunk a call is for has a use more; the others have the uses they had.
LEMMA SetUseUses ==
    ASSUME UInv, IInv', NEW t \in Threads, SetUse(t)
    PROVE  UsesOK' /\ RoomsOK'
<1> DEFINE r == [call[t] EXCEPT !.left = @ - 1]
           n == [r EXCEPT !.at = "room"]
<1>1. PICK k \in Calls : k = call[t]  BY DEF UInv, IInv, Typed
<1>2. /\ k.at = "setUse" /\ k.left \in 1..2 /\ (Using(k) \/ Building(k) \/ Deleting(k))
      /\ k.chunk \in Chunks
  BY <1>1 DEF UInv, IInv, Shapes, Calls, SetUse, Resting, Using, Building, Deleting
<1>3. /\ r \in Calls /\ r.left = k.left - 1
      /\ r.at = "setUse" /\ r.chunk = k.chunk /\ r.then = k.then /\ r.glue = k.glue
      /\ n.at = "room" /\ n.left = r.left /\ n.chunk = k.chunk /\ n.then = k.then /\ n.glue = k.glue
  BY <1>1, <1>2 DEF Calls
<1>4. /\ useCnt' = [useCnt EXCEPT ![k.chunk] = @ + 1] /\ chunk' = chunk
      /\ \/ Granted(t, r)
         \/ call' = [call EXCEPT ![t] = n] /\ glue' = glue
  BY <1>1, <1>3 DEF SetUse, Continue
<1>5. k.glue # None => k.glue \in Glues  BY DEF Calls
<1>6. /\ \A u \in Threads : u # t => call'[u] = call[u]
      /\ \A g \in Glues : /\ glue'[g].data = glue[g].data
                          /\ glue'[g].loadedReadable = glue[g].loadedReadable
                          /\ glue'[g].loadedWritable = glue[g].loadedWritable
      /\ \A g \in Glues : Awaits(call'[t], g) = IF k.glue = g THEN k.left - 1 ELSE 0
      /\ \A c : r.left = 0 \/ k.then \notin {"construct", "destruct"} => Runs(call'[t], c) =
                   IF k.then \in {"construct", "destruct"} /\ k.chunk = c THEN 1 ELSE 0
      /\ call'[t].at = "room" => call'[t] = n
  <2>1. CASE Granted(t, r)
    <3> HIDE DEF r, n
    <3>1. /\ \A u \in Threads : u # t => call'[u] = call[u]
          /\ \A g \in Glues : /\ glue'[g].data = glue[g].data
                              /\ glue'[g].loadedReadable = glue[g].loadedReadable
                              /\ glue'[g].loadedWritable = glue[g].loadedWritable
          /\ \A g \in Glues : Awaits(call'[t], g) = Awaits(r, g)
          /\ \A c : Runs(call'[t], c) =
                IF r.left = 0 /\ r.then \in {"construct", "destruct"} /\ r.chunk = c THEN 1 ELSE 0
          /\ call'[t].at # "room"
      <4>1. Typed /\ r \in Calls /\ (r.glue # None => r.glue \in Glues)
        BY <1>3, <1>5 DEF UInv, IInv
      <4> QED  BY <2>1, <4>1, GrantedMoves
    <3>2. \A g \in Glues : Awaits(r, g) = IF k.glue = g THEN k.left - 1 ELSE 0
      BY <1>3 DEF Awaits
    <3>3. \A c : r.left = 0 \/ k.then \notin {"construct", "destruct"} => Runs(call'[t], c) =
                   IF k.then \in {"construct", "destruct"} /\ k.chunk = c THEN 1 ELSE 0
      BY <1>3, <3>1
    <3> QED  BY <3>1, <3>2, <3>3
  <2>2. CASE call' = [call EXCEPT ![t] = n] /\ glue' = glue
    <3>1. call'[t] = n  BY <2>2 DEF UInv, IInv, Typed
    <3> HIDE DEF r, n
    <3> QED  BY <1>3, <2>2, <3>1 DEF Awaits, Runs
  <2> QED  BY <1>4, <2>1, <2>2
<1>7. \A c : Runs(k, c) = 0  BY <1>2 DEF Runs
<1>8. \A c \in Chunks : useCnt'[c] = useCnt[c] + (IF c = k.chunk THEN 1 ELSE 0) /\ useCnt[c] \in Nat
  BY <1>2, <1>4 DEF UInv, UsesOK
<1>9. useCnt' = [c \in Chunks |-> useCnt'[c]]  BY <1>4 DEF UInv, UsesOK
<1>10. CASE k.then \in {"construct", "destruct"}
  <2>1. k.left = 1 /\ k.glue = None /\ None \notin Glues
    BY <1>1, <1>2, <1>10 DEF UInv, Lefts, Using, Building, Deleting, NoPtr
  <2> HIDE DEF r, n
  <2>2. \A g \in Glues : Awaits(call'[t], g) = 0 /\ Awaits(k, g) = 0
    BY <1>6, <2>1 DEF Awaits
  <2>3. \A c \in Chunks : useCnt'[c] = useCnt[c] - Runs(call[t], c) + Runs(call'[t], c)
    BY <1>1, <1>3, <1>6, <1>7, <1>8, <1>10, <2>1
  <2>4. useCnt' = [c \in Chunks |-> useCnt[c] - Runs(call[t], c) + Runs(call'[t], c)]
    BY <1>9, <2>3
  <2>5. ~(call'[t].at = "room" /\ call'[t].glue # None)  BY <1>3, <1>6, <2>1
  <2>6. \A g \in Glues : Exists(g) /\ Marked(g) => ChunkOf(g)' = ChunkOf(g)
    BY <1>4, <1>6 DEF ChunkOf
  <2> QED  BY <1>1, <1>6, <2>2, <2>4, <2>5, <2>6, UsesStay
<1>11. CASE k.then \notin {"construct", "destruct"}
  <2>1. k.glue \in Glues /\ Exists(k.glue) /\ ChunkOf(k.glue) = k.chunk
    BY <1>1, <1>2, <1>11 DEF UInv, IInv, Adhering, Using, Building, Deleting
  <2> HIDE DEF r, n
  <2> DEFINE x == k.glue
  <2>2. Loaded(x)' = Loaded(x) /\ \A g \in Glues : Loaded(g)' = Loaded(g)
    BY <1>6, <2>1, LoadedKept
  <2>3. /\ Waiting(x) \in Nat /\ Waiting(x)' \in Nat /\ Waiting(x)' = Waiting(x) - 1
        /\ Waiting(x) <= Loaded(x) /\ Loaded(x) \in 0..2
    <3>1. Awaits(k, x) = k.left /\ Awaits(call'[t], x) = k.left - 1  BY <1>6, <2>1 DEF Awaits
    <3>2. Waiting(x)' = Waiting(x) - Awaits(call[t], x) + Awaits(call'[t], x)
          /\ Waiting(x) \in Nat /\ Waiting(x)' \in Nat
      BY <1>6, OneCall DEF UInv, IInv
    <3>3. Waiting(x) <= Loaded(x) /\ Loaded(x) \in 0..2
      BY <2>1, LoadedMarked DEF UInv, IInv, UsesOK
    <3> QED  BY <1>1, <1>2, <3>1, <3>2, <3>3
  <2>4. \A c : Runs(call'[t], c) = 0 /\ Runs(call[t], c) = 0  BY <1>1, <1>6, <1>7, <1>11
  <2>5. Exists(x)' /\ ChunkOf(x)' = k.chunk  BY <1>4, <1>6, <2>1 DEF Exists, ChunkOf
  <2>6. \A c \in Chunks : useCnt'[c] = useCnt[c] - Share(x, c) + Share(x, c)'
                                        - Runs(call[t], c) + Runs(call'[t], c)
    <3> SUFFICES ASSUME NEW c \in Chunks
                 PROVE  useCnt'[c] = useCnt[c] - Share(x, c) + Share(x, c)'
                                        - Runs(call[t], c) + Runs(call'[t], c)
      OBVIOUS
    <3>1. Share(x, c) = IF c = k.chunk THEN Loaded(x) - Waiting(x) ELSE 0
      BY <2>1 DEF Share, Taken
    <3>2. Share(x, c)' = IF c = k.chunk THEN Loaded(x)' - Waiting(x)' ELSE 0
      BY <2>1, <2>5 DEF Share, Taken
    <3> QED  BY <1>8, <2>2, <2>3, <2>4, <3>1, <3>2
  <2>7. useCnt' = [c \in Chunks |-> useCnt[c] - Share(x, c) + Share(x, c)'
                                     - Runs(call[t], c) + Runs(call'[t], c)]
    BY <1>9, <2>6
  <2>8. \A g \in Glues : g # x => Awaits(call'[t], g) = Awaits(call[t], g)
    BY <1>1, <1>6 DEF Awaits
  <2>9. (call[t].at = "room" /\ call[t].glue # None => Waiting(call[t].glue) < Loaded(call[t].glue))'
    <3> SUFFICES ASSUME call'[t].at = "room"
                 PROVE (Waiting(call[t].glue) < Loaded(call[t].glue))'
      OBVIOUS
    <3>1. call'[t].glue = x  BY <1>3, <1>6
    <3>2. Waiting(x)' < Loaded(x)'  BY <2>2, <2>3
    <3> QED  BY <3>1, <3>2
  <2>10. x \in Glues =>
              /\ Waiting(x)' <= Loaded(x)'
              /\ GlueAtRest(x) \/ Loaded(x)' - Waiting(x)' >= Loaded(x) - Waiting(x)
    BY <2>2, <2>3
  <2>11. \A g \in Glues : Exists(g) /\ Marked(g) => ChunkOf(g)' = ChunkOf(g)
    BY <1>4, <1>6 DEF ChunkOf
  <2> HIDE DEF x
  <2> QED  BY <1>6, <2>2, <2>7, <2>8, <2>9, <2>10, <2>11, UsesMove
<1> QED  BY <1>10, <1>11

\* Bringing a chunk in keeps the use counts exact.
LEMMA SwapInUses ==
    ASSUME UInv, IInv', NEW t \in Threads, SwapIn(t)
    PROVE  UsesOK' /\ RoomsOK'
<1>1. PICK r \in Calls : r = call[t]  BY DEF UInv, IInv, Typed
<1>2. /\ r.at \in {"room", "prepareUse"} /\ (Using(r) \/ Building(r) \/ Deleting(r))
      /\ chunk' = chunk /\ useCnt' = useCnt
  BY <1>1 DEF UInv, IInv, Shapes, SwapIn, Resting
<1>3. r.glue # None => r.glue \in Glues  BY DEF Calls
<1>4. /\ \A u \in Threads : u # t => call'[u] = call[u]
      /\ \A g \in Glues : /\ glue'[g].data = glue[g].data
                          /\ glue'[g].loadedReadable = glue[g].loadedReadable
                          /\ glue'[g].loadedWritable = glue[g].loadedWritable
      /\ \A g \in Glues : Awaits(call'[t], g) = Awaits(r, g)
      /\ \A c : Runs(call'[t], c) = Runs(r, c)
      /\ call'[t].at # "room"
  <2>1. CASE r.at = "room"
    <3>1. Granted(t, r)  BY <1>1, <2>1 DEF SwapIn
    <3>2. r.then \in {"construct", "destruct"} => r.left = 0
      BY <1>1, <2>1 DEF UInv, Lefts
    <3>3. \A c : Runs(r, c) = IF r.left = 0 /\ r.then \in {"construct", "destruct"} /\ r.chunk = c THEN 1 ELSE 0
      BY <2>1, <3>2 DEF Runs
    <3>4. /\ \A u \in Threads : u # t => call'[u] = call[u]
          /\ \A g \in Glues : /\ glue'[g].data = glue[g].data
                              /\ glue'[g].loadedReadable = glue[g].loadedReadable
                              /\ glue'[g].loadedWritable = glue[g].loadedWritable
          /\ \A g \in Glues : Awaits(call'[t], g) = Awaits(r, g)
          /\ \A c : Runs(call'[t], c) =
                IF r.left = 0 /\ r.then \in {"construct", "destruct"} /\ r.chunk = c THEN 1 ELSE 0
          /\ call'[t].at # "room"
      BY <1>3, <3>1, GrantedMoves DEF UInv, IInv
    <3> QED  BY <3>3, <3>4
  <2>2. CASE r.at = "prepareUse"
    <3>1. call' = [call EXCEPT ![t] = Idle] /\ glue' = glue
      BY <1>1, <2>2 DEF SwapIn, Return, Continue
    <3>2. r.left = 0  BY <1>1, <2>2 DEF UInv, Lefts
    <3>3. call'[t] = Idle  BY <3>1 DEF UInv, IInv, Typed
    <3>4. Idle.at = "idle" /\ Idle.left = 0  BY DEF Idle
    <3> QED  BY <2>2, <3>1, <3>2, <3>3, <3>4 DEF Awaits, Runs
  <2> QED  BY <1>2, <2>1, <2>2
<1>5. \A g \in Glues : Exists(g) /\ Marked(g) => ChunkOf(g)' = ChunkOf(g)
  BY <1>2, <1>4 DEF ChunkOf
<1>6. useCnt' = [c \in Chunks |-> useCnt[c] - Runs(call[t], c) + Runs(call'[t], c)]
  <2>1. \A c \in Chunks : useCnt[c] \in Nat /\ Runs(r, c) \in 0..1  BY CallCounts DEF UInv, UsesOK
  <2>2. \A c \in Chunks : useCnt[c] = useCnt[c] - Runs(call[t], c) + Runs(call'[t], c)
    BY <1>1, <1>4, <2>1
  <2> QED  BY <1>2, <2>2 DEF UInv, UsesOK
<1> QED  BY <1>1, <1>4, <1>5, <1>6, UsesStay

\* Handing out the address keeps the use counts exact.
LEMMA GetLocPtrUses ==
    ASSUME UInv, IInv', NEW t \in Threads, GetLocPtr(t)
    PROVE  UsesOK' /\ RoomsOK'
<1>1. PICK r \in Calls : r = call[t]  BY DEF UInv, IInv, Typed
<1>2. r.at = "getLocPtr" /\ r.left = 0 /\ Using(r) /\ chunk' = chunk /\ useCnt' = useCnt
  BY <1>1 DEF UInv, IInv, Shapes, Lefts, GetLocPtr, Resting, Building, Deleting
<1>3. r.glue # None => r.glue \in Glues  BY DEF Calls
<1>4. \A c : Runs(r, c) = 0  BY <1>2 DEF Runs
<1>5. /\ \A u \in Threads : u # t => call'[u] = call[u]
      /\ \A g \in Glues : /\ glue'[g].data = glue[g].data
                          /\ glue'[g].loadedReadable = glue[g].loadedReadable
                          /\ glue'[g].loadedWritable = glue[g].loadedWritable
      /\ \A g \in Glues : Awaits(call'[t], g) = Awaits(r, g)
      /\ \A c : Runs(call'[t], c) = 0
      /\ call'[t].at # "room"
  <2>1. CASE Granted(t, r)
    <3>1. r.then \notin {"construct", "destruct"}  BY <1>2 DEF Using, NoPtr
    <3>2. /\ \A u \in Threads : u # t => call'[u] = call[u]
          /\ \A g \in Glues : /\ glue'[g].data = glue[g].data
                              /\ glue'[g].loadedReadable = glue[g].loadedReadable
                              /\ glue'[g].loadedWritable = glue[g].loadedWritable
          /\ \A g \in Glues : Awaits(call'[t], g) = Awaits(r, g)
          /\ \A c : Runs(call'[t], c) =
                IF r.left = 0 /\ r.then \in {"construct", "destruct"} /\ r.chunk = c THEN 1 ELSE 0
          /\ call'[t].at # "room"
      BY <1>3, <2>1, GrantedMoves DEF UInv, IInv
    <3> QED  BY <3>1, <3>2
  <2>2. CASE call' = [call EXCEPT ![t] = [r EXCEPT !.at = "spin"]] /\ glue' = glue
    <3>1. call'[t] = [r EXCEPT !.at = "spin"]  BY <2>2 DEF UInv, IInv, Typed
    <3>2. call'[t].at = "spin" /\ call'[t].left = r.left /\ call'[t].glue = r.glue
      BY <3>1 DEF Calls
    <3> QED  BY <2>2, <3>2 DEF Awaits, Runs
  <2> QED  BY <1>1, <2>1, <2>2 DEF GetLocPtr, Continue
<1>6. \A g \in Glues : Exists(g) /\ Marked(g) => ChunkOf(g)' = ChunkOf(g)
  BY <1>2, <1>5 DEF ChunkOf
<1>7. useCnt' = [c \in Chunks |-> useCnt[c] - Runs(call[t], c) + Runs(call'[t], c)]
  <2>1. \A c \in Chunks : useCnt[c] \in Nat  BY DEF UInv, UsesOK
  <2>2. \A c \in Chunks : useCnt[c] = useCnt[c] - Runs(call[t], c) + Runs(call'[t], c)
    BY <1>1, <1>4, <1>5, <2>1
  <2> QED  BY <1>2, <2>2 DEF UInv, UsesOK
<1> QED  BY <1>1, <1>5, <1>6, <1>7, UsesStay


\* The calls of the managedPtrs hold no adhereTo, and what they change belongs to no adhereTo
\* that holds a use.
LEMMA PtrCallUses ==
    ASSUME UInv, IInv', NEW t \in Threads, NEW n \in Calls, n.glue = None, n.at # "room",
           call[t].glue = None, call' = [call EXCEPT ![t] = n], glue' = glue,
           \A g \in Glues : Exists(g) /\ Marked(g) => ChunkOf(g)' = ChunkOf(g),
           useCnt' = [c \in Chunks |-> useCnt[c] - Runs(call[t], c) + Runs(n, c)]
    PROVE  UsesOK' /\ RoomsOK'
<1>1. call'[t] = n /\ \A u \in Threads : u # t => call'[u] = call[u]
  BY DEF UInv, IInv, Typed
<1>2. \A g \in Glues : Awaits(n, g) = 0 /\ Awaits(call[t], g) = 0  BY DEF Awaits
<1> QED  BY <1>1, <1>2, UsesStay

\* The constructor of the elements keeps the use counts exact.
LEMMA ConstructUses ==
    ASSUME UInv, IInv', NEW t \in Threads, Construct(t)
    PROVE  UsesOK' /\ RoomsOK'
<1>1. PICK r \in Calls : r = call[t]  BY DEF UInv, IInv, Typed
<1>2. /\ r.at = "construct" /\ r.then = "construct" /\ Building(r) /\ chunk[r.ptr] = None
      /\ call' = [call EXCEPT ![t] = Idle] /\ chunk' = [chunk EXCEPT ![r.ptr] = r.chunk]
      /\ useCnt' = [useCnt EXCEPT ![r.chunk] = @ - 1] /\ glue' = glue
  BY <1>1 DEF UInv, IInv, Shapes, Jobs, Construct, Return, Continue, Resting, Using, Deleting, Building
<1>3. r.glue = None /\ r.ptr \in Ptrs /\ r.chunk \in Chunks  BY <1>2 DEF Building
<1>4. \A g \in Glues : Exists(g) /\ Marked(g) => ChunkOf(g)' = ChunkOf(g)
  <2>1. \A g \in Glues : Exists(g) => glue[g].data \in Ptrs /\ glue[g].data # r.ptr
    BY <1>2 DEF UInv, IInv, Typed, GlueTypes, Adhering, Live, Exists
  <2> QED  BY <1>2, <2>1 DEF ChunkOf, UInv, IInv, Typed
<1>5. \A c : Runs(r, c) = IF c = r.chunk THEN 1 ELSE 0  BY <1>2 DEF Runs
<1>6. Idle \in Calls /\ Idle.glue = None /\ Idle.at = "idle" /\ \A c : Runs(Idle, c) = 0
  BY IdleTyped DEF Idle, Runs
<1>7. useCnt' = [c \in Chunks |-> useCnt[c] - Runs(call[t], c) + Runs(Idle, c)]
  <2>1. \A c \in Chunks : useCnt[c] \in Nat  BY DEF UInv, UsesOK
  <2>2. \A c \in Chunks : useCnt'[c] = useCnt[c] - Runs(call[t], c) + Runs(Idle, c)
    BY <1>1, <1>2, <1>3, <1>5, <1>6, <2>1 DEF UInv, UsesOK
  <2> QED  BY <1>2, <2>2 DEF UInv, UsesOK
<1> QED  BY <1>1, <1>2, <1>3, <1>4, <1>6, <1>7, PtrCallUses

\* The destructor of the elements keeps the use counts exact.
LEMMA DestructUses ==
    ASSUME UInv, IInv', NEW t \in Threads, Destruct(t)
    PROVE  UsesOK' /\ RoomsOK'
<1>1. PICK r \in Calls : r = call[t]  BY DEF UInv, IInv, Typed
<1> DEFINE n == [r EXCEPT !.at = "mfree"]
<1>2. /\ r.at = "destruct" /\ Deleting(r) /\ chunk' = chunk /\ glue' = glue
      /\ call' = [call EXCEPT ![t] = n] /\ useCnt' = [useCnt EXCEPT ![r.chunk] = @ - 1]
  BY <1>1 DEF UInv, IInv, Shapes, Destruct, Continue, Resting, Using, Building
<1>3. r.glue = None /\ r.chunk \in Chunks /\ r.then = "destruct"  BY <1>2 DEF Deleting
<1>4. n \in Calls /\ n.glue = None /\ n.at = "mfree" /\ \A c : Runs(n, c) = 0
  BY <1>3 DEF Calls, Stages, Runs
<1>5. \A c : Runs(r, c) = IF c = r.chunk THEN 1 ELSE 0  BY <1>2, <1>3 DEF Runs
<1>6. useCnt' = [c \in Chunks |-> useCnt[c] - Runs(call[t], c) + Runs(n, c)]
  <2> HIDE DEF n
  <2>1. \A c \in Chunks : useCnt[c] \in Nat  BY DEF UInv, UsesOK
  <2>2. \A c \in Chunks : useCnt'[c] = useCnt[c] - Runs(call[t], c) + Runs(n, c)
    BY <1>1, <1>2, <1>3, <1>4, <1>5, <2>1 DEF UInv, UsesOK
  <2> QED  BY <1>2, <2>2 DEF UInv, UsesOK
<1>7. \A g \in Glues : Exists(g) /\ Marked(g) => ChunkOf(g)' = ChunkOf(g)
  BY <1>2 DEF ChunkOf
<1> HIDE DEF n
<1> QED  BY <1>1, <1>2, <1>3, <1>4, <1>6, <1>7, PtrCallUses

\* mfree keeps the use counts exact.
LEMMA MFreeUses ==
    ASSUME UInv, IInv', NEW t \in Threads, MFree(t)
    PROVE  UsesOK' /\ RoomsOK'
<1>1. PICK r \in Calls : r = call[t]  BY DEF UInv, IInv, Typed
<1>2. PICK new : /\ chunk' = [chunk EXCEPT ![r.ptr] = new] /\ call' = [call EXCEPT ![t] = Idle]
                 /\ useCnt' = useCnt /\ glue' = glue
  BY <1>1 DEF MFree, Return, Continue
<1>3. r.at = "mfree" /\ Deleting(r) /\ r.glue = None /\ r.then = "destruct"
  BY <1>1 DEF UInv, IInv, Shapes, MFree, Resting, Using, Building, Deleting
<1>4. \A g \in Glues : Exists(g) /\ Marked(g) => ChunkOf(g)' = ChunkOf(g)
  <2>1. \A g \in Glues : Exists(g) /\ Marked(g) => glue[g].data \in Ptrs /\ glue[g].data # r.ptr
    BY <1>1, <1>3 DEF UInv, IInv, Typed, GlueTypes, Adhering, Exists
  <2> QED  BY <1>2, <2>1 DEF ChunkOf, UInv, IInv, Typed
<1>5. Idle \in Calls /\ Idle.glue = None /\ Idle.at = "idle" /\ \A c : Runs(Idle, c) = 0
  BY IdleTyped DEF Idle, Runs
<1>6. \A c : Runs(r, c) = 0  BY <1>3 DEF Runs
<1>7. useCnt' = [c \in Chunks |-> useCnt[c] - Runs(call[t], c) + Runs(Idle, c)]
  <2>1. \A c \in Chunks : useCnt[c] \in Nat  BY DEF UInv, UsesOK
  <2>2. \A c \in Chunks : useCnt[c] = useCnt[c] - Runs(call[t], c) + Runs(Idle, c)
    BY <1>1, <1>5, <1>6, <2>1
  <2> QED  BY <1>2, <2>2 DEF UInv, UsesOK
<1> QED  BY <1>1, <1>2, <1>3, <1>4, <1>5, <1>7, PtrCallUses

\* A managedPtr is bound to another chunk, while no adhereTo to it holds a use.
LEMMA RebindUses ==
    ASSUME UInv, IInv', NEW t \in Threads, call[t].at = "idle", NEW p \in Ptrs, NEW new,
           chunk' = [chunk EXCEPT ![p] = new], UNCHANGED <<glue, useCnt, call>>,
           \A g \in Glues : Exists(g) /\ Marked(g) => glue[g].data # p
    PROVE  UsesOK' /\ RoomsOK'
<1>1. call' = call /\ glue' = glue /\ useCnt' = useCnt  OBVIOUS
<1>2. \A g \in Glues : Exists(g) /\ Marked(g) => ChunkOf(g)' = ChunkOf(g)
  <2>1. \A g \in Glues : Exists(g) => glue[g].data \in Ptrs
    BY DEF UInv, IInv, Typed, GlueTypes, Exists
  <2> QED  BY <1>1, <2>1 DEF ChunkOf, UInv, IInv, Typed
<1>3. useCnt' = [c \in Chunks |-> useCnt[c] - Runs(call[t], c) + Runs(call'[t], c)]
  <2>1. call[t] \in Calls  BY DEF UInv, IInv, Typed
  <2>2. \A c \in Chunks : useCnt[c] \in Nat /\ Runs(call[t], c) \in 0..1
    BY <2>1, CallCounts DEF UInv, UsesOK
  <2>3. \A c \in Chunks : useCnt[c] = useCnt[c] - Runs(call[t], c) + Runs(call'[t], c)
    BY <1>1, <2>2
  <2> QED  BY <1>1, <2>3 DEF UInv, UsesOK
<1> QED  BY <1>1, <1>2, <1>3, UsesStay

\* An idle thread calls for a managedPtr.
LEMMA BeginUses ==
    ASSUME UInv, IInv', NEW t \in Threads, call[t].at = "idle",
           NEW n \in Calls, n.glue = None, n.at \in {"setUse", "mfree"},
           call' = [call EXCEPT ![t] = n], UNCHANGED <<chunk, glue, useCnt>>
    PROVE  UsesOK' /\ RoomsOK'
<1>1. call[t].glue = None  BY IdleHasNoPtr DEF UInv
<1>2. \A c : Runs(n, c) = 0 /\ Runs(call[t], c) = 0  BY DEF Runs
<1>3. useCnt' = [c \in Chunks |-> useCnt[c] - Runs(call[t], c) + Runs(n, c)]
  <2>1. \A c \in Chunks : useCnt[c] \in Nat  BY DEF UInv, UsesOK
  <2>2. \A c \in Chunks : useCnt[c] = useCnt[c] - Runs(call[t], c) + Runs(n, c)
    BY <1>2, <2>1
  <2> QED  BY <2>2 DEF UInv, UsesOK
<1>4. \A g \in Glues : Exists(g) /\ Marked(g) => ChunkOf(g)' = ChunkOf(g)
  BY DEF ChunkOf
<1>5. glue' = glue /\ n.at # "room"  OBVIOUS
<1> QED  BY <1>1, <1>3, <1>4, <1>5, PtrCallUses

\* What mDelete makes of the calls.
LEMMA DeleteCall ==
    ASSUME NEW t \in Threads, NEW p \in Ptrs, NEW q \in Ptrs \cup {None}, chunk[p] \in Chunks,
           MDelete(t, p, q)
    PROVE  \E n \in Calls :
              /\ call' = [call EXCEPT ![t] = n]
              /\ n.then = "destruct" /\ n.ptr = p /\ n.ref = q /\ n.chunk = chunk[p] /\ n.glue = None
              /\ n.at = IF chunk[p] \in Classes THEN "setUse" ELSE "mfree"
              /\ n.left = IF chunk[p] \in Classes THEN 1 ELSE 0
<1> DEFINE n == [Idle EXCEPT !.at = IF chunk[p] \in Classes THEN "setUse" ELSE "mfree",
                             !.then = "destruct", !.left = IF chunk[p] \in Classes THEN 1 ELSE 0,
                             !.ptr = p, !.ref = q, !.chunk = chunk[p]]
<1>1. call' = [call EXCEPT ![t] = n]  BY DEF MDelete, Continue
<1>2. n \in Calls  BY DeletionCall
<1>3. /\ n.then = "destruct" /\ n.ptr = p /\ n.ref = q /\ n.chunk = chunk[p] /\ n.glue = None
      /\ n.at = IF chunk[p] \in Classes THEN "setUse" ELSE "mfree"
      /\ n.left = IF chunk[p] \in Classes THEN 1 ELSE 0
  BY DEF Idle
<1> HIDE DEF n
<1> QED  BY <1>1, <1>2, <1>3

\* Making a managedPtr keeps the use counts exact.
LEMMA CreateUses ==
    ASSUME UInv, IInv', NEW t \in Threads, NEW p \in Ptrs, NEW c \in Chunks, Create(t, p, c)
    PROVE  UsesOK' /\ RoomsOK'
<1> DEFINE n == [Idle EXCEPT !.at = "setUse", !.then = "construct", !.left = 1, !.ptr = p, !.chunk = c]
<1>1. n \in Calls /\ n.glue = None /\ n.at = "setUse"
  <2>1. n \in Calls  BY CreateCall
  <2>2. n.glue = None /\ n.then = "construct" /\ n.at = "setUse" /\ n.left = 1  BY DEF Idle
  <2> QED  BY <2>1, <2>2
<1>2. /\ call[t].at = "idle" /\ call' = [call EXCEPT ![t] = n]
      /\ UNCHANGED <<chunk, glue, useCnt>>
  BY DEF Create, Continue
<1> HIDE DEF n
<1> QED  BY <1>1, <1>2, BeginUses

\* Making an empty managedPtr keeps the use counts exact.
LEMMA CreateEmptyUses ==
    ASSUME UInv, IInv', NEW t \in Threads, NEW p \in Ptrs, CreateEmpty(t, p)
    PROVE  UsesOK' /\ RoomsOK'
<1>1. \A g \in Glues : Exists(g) => glue[g].data # p
  BY DEF CreateEmpty, UInv, IInv, Adhering, Live
<1> QED  BY <1>1, RebindUses DEF CreateEmpty

\* Copying a managedPtr keeps the use counts exact.
LEMMA CopyUses ==
    ASSUME UInv, IInv', NEW t \in Threads, NEW p \in Ptrs, NEW q \in Ptrs, Copy(t, p, q)
    PROVE  UsesOK' /\ RoomsOK'
<1>1. \A g \in Glues : Exists(g) => glue[g].data # p
  BY DEF Copy, UInv, IInv, Adhering, Live
<1> QED  BY <1>1, RebindUses DEF Copy

\* Destroying a managedPtr keeps the use counts exact.
LEMMA DestroyUses ==
    ASSUME UInv, IInv', NEW t \in Threads, NEW p \in Ptrs, Destroy(t, p)
    PROVE  UsesOK' /\ RoomsOK'
<1>1. /\ call[t].at = "idle" /\ Live(p) /\ UNCHANGED <<glue, useCnt>>
      /\ \A g \in Glues : glue[g].data # p
      /\ \/ chunk' = [chunk EXCEPT ![p] = None] /\ UNCHANGED call
         \/ chunk[p] # NULL /\ MDelete(t, p, None) /\ UNCHANGED chunk
  BY DEF Destroy
<1>2. CASE chunk' = [chunk EXCEPT ![p] = None] /\ UNCHANGED call
  BY <1>1, <1>2, RebindUses
<1>3. CASE chunk[p] # NULL /\ MDelete(t, p, None) /\ UNCHANGED chunk
  <2>1. chunk[p] \in Chunks  BY <1>1, <1>3 DEF Live, UInv, IInv, Typed
  <2>2. PICK n \in Calls : call' = [call EXCEPT ![t] = n] /\ n.glue = None /\ n.at \in {"setUse", "mfree"}
    BY <1>3, <2>1, DeleteCall
  <2> QED  BY <1>1, <1>3, <2>2, BeginUses
<1> QED  BY <1>1, <1>2, <1>3

\* Assigning a managedPtr keeps the use counts exact.
LEMMA AssignUses ==
    ASSUME UInv, IInv', NEW t \in Threads, NEW p \in Ptrs, NEW q \in Ptrs, Assign(t, p, q)
    PROVE  UsesOK' /\ RoomsOK'
<1>1. /\ call[t].at = "idle" /\ Live(p) /\ UNCHANGED <<glue, useCnt>>
      /\ \A g \in Glues : glue[g].data = p => Loaded(g) = 0
      /\ \/ chunk' = [chunk EXCEPT ![p] = chunk[q]] /\ UNCHANGED call
         \/ chunk[p] # NULL /\ MDelete(t, p, q) /\ UNCHANGED chunk
  BY DEF Assign
<1>2. \A g \in Glues : Marked(g) => glue[g].data # p
  BY <1>1, LoadedMarked DEF UInv, IInv
<1>3. CASE chunk' = [chunk EXCEPT ![p] = chunk[q]] /\ UNCHANGED call
  BY <1>1, <1>2, <1>3, RebindUses
<1>4. CASE chunk[p] # NULL /\ MDelete(t, p, q) /\ UNCHANGED chunk
  <2>1. chunk[p] \in Chunks  BY <1>1, <1>4 DEF Live, UInv, IInv, Typed
  <2>2. PICK n \in Calls : call' = [call EXCEPT ![t] = n] /\ n.glue = None /\ n.at \in {"setUse", "mfree"}
    BY <1>4, <2>1, DeleteCall
  <2> QED  BY <1>1, <1>4, <2>2, BeginUses
<1> QED  BY <1>1, <1>3, <1>4

\* Adding the first mark to an adhereTo, or none.
LEMMA LoadedBlank ==
    ASSUME NEW e, ~e.loadedReadable, ~e.loadedWritable
    PROVE  Cardinality({m \in Modes : e[m]}) = 0
<1>1. {m \in Modes : e[m]} = {}  BY DEF Modes
<1> QED  BY <1>1, FS_EmptySet

\* One flag more is one mark more.
LEMMA LoadedMore ==
    ASSUME NEW e \in GlueTypes, NEW m \in Modes, ~e[m]
    PROVE  /\ Cardinality({k \in Modes : e[k]}) \in Nat
           /\ Cardinality({k \in Modes : [e EXCEPT ![m] = TRUE][k]}) = Cardinality({k \in Modes : e[k]}) + 1
<1> DEFINE S == {k \in Modes : e[k]}
           T == {k \in Modes : [e EXCEPT ![m] = TRUE][k]}
<1>1. IsFiniteSet(Modes)
  <2>1. Modes = {"loadedReadable"} \cup {"loadedWritable"}  BY DEF Modes
  <2> QED  BY <2>1, FS_Singleton, FS_Union
<1>2. IsFiniteSet(S) /\ Cardinality(S) \in Nat  BY <1>1, FS_Subset, FS_CardinalityType
<1>3. T = S \cup {m} /\ m \notin S
  <2>1. CASE m = "loadedReadable"  BY <2>1 DEF Modes, GlueTypes
  <2>2. CASE m = "loadedWritable"  BY <2>2 DEF Modes, GlueTypes
  <2> QED  BY <2>1, <2>2 DEF Modes
<1> HIDE DEF S, T
<1>4. Cardinality(S \cup {m}) = Cardinality(S) + 1  BY <1>2, <1>3, FS_AddElement
<1>5. Cardinality(T) = Cardinality(S) + 1  BY <1>3, <1>4
<1> QED  BY <1>2, <1>5 DEF S, T

\* An idle thread changes an adhereTo, and may begin to work on it.
LEMMA GlueUses ==
    ASSUME UInv, IInv', NEW t \in Threads, call[t].at = "idle", NEW g \in Glues, NEW e \in GlueTypes,
           NEW n \in Calls, n.glue \in {None, g}, n.at \in {"idle", "setUse", "prepareUse", "getLocPtr"},
           glue' = [glue EXCEPT ![g] = e], call' = [call EXCEPT ![t] = n], chunk' = chunk,
           Waiting(g) + Awaits(n, g) <= Loaded(g)',
           GlueAtRest(g) \/ Loaded(g)' >= Loaded(g) + Awaits(n, g),
           useCnt' = [c \in Chunks |-> useCnt[c] - Taken(g, c) + Taken(g, c)']
    PROVE  /\ UsesOK' /\ RoomsOK'
           /\ Waiting(g)' = Waiting(g) + Awaits(n, g)
<1>1. Typed /\ Typed'  BY DEF UInv, IInv
<1>2. call'[t] = n /\ \A u \in Threads : u # t => call'[u] = call[u]
  BY <1>1 DEF Typed
<1>3. \A h \in Glues : h # g => glue'[h] = glue[h]  BY <1>1 DEF Typed
<1>4. call[t].glue = None /\ None \notin Glues  BY IdleHasNoPtr DEF UInv
<1>5. \A h \in Glues : Awaits(call[t], h) = 0  BY <1>4 DEF Awaits
<1>6. /\ Waiting(g) \in Nat /\ Waiting(g)' \in Nat
      /\ Waiting(g)' = Waiting(g) - Awaits(call[t], g) + Awaits(call'[t], g)
  BY <1>1, <1>2, OneCall
<1>7. Awaits(n, g) \in 0..2  BY CallCounts
<1>8. Waiting(g)' = Waiting(g) + Awaits(n, g)  BY <1>2, <1>5, <1>6, <1>7
<1>9. \A h \in Glues : h # g =>
         /\ glue'[h].data = glue[h].data /\ Loaded(h)' = Loaded(h)
         /\ Awaits(call'[t], h) = Awaits(call[t], h)
         /\ Exists(h) /\ Marked(h) => ChunkOf(h)' = ChunkOf(h)
  <2> SUFFICES ASSUME NEW h \in Glues, h # g
               PROVE  /\ glue'[h].data = glue[h].data /\ Loaded(h)' = Loaded(h)
                      /\ Awaits(call'[t], h) = Awaits(call[t], h)
                      /\ ChunkOf(h)' = ChunkOf(h)
    OBVIOUS
  <2>1. glue'[h] = glue[h]  BY <1>3
  <2>2. Loaded(h)' = Loaded(h)  BY <2>1, LoadedKept
  <2>3. Awaits(n, h) = 0  BY <1>4 DEF Awaits
  <2> QED  BY <1>2, <1>5, <2>1, <2>2, <2>3 DEF ChunkOf
<1>10. /\ Waiting(g)' <= Loaded(g)'
       /\ GlueAtRest(g) \/ Loaded(g)' - Waiting(g)' >= Loaded(g) - Waiting(g)
  <2>1. Loaded(g) \in 0..2 /\ Loaded(g)' \in 0..2  BY <1>1, LoadedMarked, LoadedMarkedNext
  <2> QED  BY <1>6, <1>7, <1>8, <2>1
<1>11. (call[t].at = "room" /\ call[t].glue # None => Waiting(call[t].glue) < Loaded(call[t].glue))'
  BY <1>2
<1>12. useCnt' = [c \in Chunks |-> useCnt[c] - Share(g, c) + Share(g, c)'
                                             - Runs(call[t], c) + Runs(call'[t], c)]
  <2>1. \A c : Runs(call[t], c) = 0 /\ Runs(call'[t], c) = 0  BY <1>2 DEF Runs
  <2>2. \A c : Share(g, c) = Taken(g, c) /\ Share(g, c)' = Taken(g, c)'  BY DEF Share
  <2>3. \A c \in Chunks : useCnt[c] \in Nat /\ Taken(g, c) \in Nat
    BY <1>1, TakenTyped DEF UInv, UsesOK
  <2>4. \A c \in Chunks : Taken(g, c)' \in Int
    <3>1. Loaded(g)' \in 0..2  BY <1>1, LoadedMarkedNext
    <3> QED  BY <1>6, <3>1 DEF Taken
  <2>5. \A c \in Chunks : useCnt[c] - Taken(g, c) + Taken(g, c)'
            = useCnt[c] - Share(g, c) + Share(g, c)' - Runs(call[t], c) + Runs(call'[t], c)
    BY <2>1, <2>2, <2>3, <2>4
  <2> QED  BY <2>5
<1> QED  BY <1>2, <1>8, <1>9, <1>10, <1>11, <1>12, UsesMove

\* Making an adhereTo keeps the use counts exact.
LEMMA AdhereUses ==
    ASSUME UInv, IInv', NEW t \in Threads, NEW g \in Glues, NEW p \in Ptrs, NEW load \in BOOLEAN,
           Adhere(t, g, p, load)
    PROVE  UsesOK' /\ RoomsOK'
<1> DEFINE e == [NoGlue EXCEPT !.data = p]
           b == [Idle EXCEPT !.at = "prepareUse", !.glue = g, !.chunk = chunk[p]]
<1>1. e \in GlueTypes /\ ~e.loadedReadable /\ ~e.loadedWritable  BY DEF NoGlue, GlueTypes
<1>2. /\ call[t].at = "idle" /\ ~Exists(g) /\ GlueAtRest(g) /\ glue' = [glue EXCEPT ![g] = e]
      /\ chunk' = chunk /\ useCnt' = useCnt
  BY DEF Adhere
<1>3. PICK n \in Calls : /\ call' = [call EXCEPT ![t] = n] /\ n.glue \in {None, g} /\ n.left = 0
                         /\ n.at \in {"idle", "prepareUse"}
  <2>1. CASE call' = call
    <3>1. call' = [call EXCEPT ![t] = call[t]]  BY <2>1 DEF UInv, IInv, Typed
    <3>2. call[t] \in Calls /\ call[t].glue = None /\ call[t].left = 0
      BY <1>2, IdleHasNoPtr DEF UInv, IInv, Typed, Lefts
    <3> QED  BY <1>2, <3>1, <3>2
  <2>2. CASE chunk[p] # NULL /\ call' = [call EXCEPT ![t] = b]
    <3>1. chunk[p] \in Chunks  BY <2>2 DEF Adhere, Readable, Live, UInv, IInv, Typed
    <3>2. b \in Calls /\ b.glue = g /\ b.left = 0 /\ b.at = "prepareUse"
      <4>1. b \in Calls  BY <3>1, IdleTyped DEF Calls, Stages
      <4>2. b.glue = g /\ b.left = 0 /\ b.at = "prepareUse" /\ b.then = "none"  BY DEF Idle
      <4> QED  BY <4>1, <4>2
    <3> HIDE DEF b
    <3> QED  BY <2>2, <3>2
  <2> QED  BY <2>1, <2>2 DEF Adhere, Continue
<1> HIDE DEF e
<1>4. Awaits(n, g) = 0  BY <1>3 DEF Awaits
<1>5. Waiting(g) = 0  BY <1>2, RestAwaitsNothing DEF UInv, IInv
<1>6. Loaded(g) = 0 /\ Loaded(g)' = 0
  <2>1. Loaded(g) = 0  BY <1>2, LoadedMarked DEF UInv, IInv, Voids
  <2>2. glue'[g] = e  BY <1>2 DEF UInv, IInv, Typed
  <2> QED  BY <1>1, <2>1, <2>2, LoadedBlank DEF Loaded
<1>7. Waiting(g)' = 0
  <2>1. call'[t] = n /\ \A u \in Threads : u # t => call'[u] = call[u]
    BY <1>3 DEF UInv, IInv, Typed
  <2>2. call[t].glue = None  BY <1>2, IdleHasNoPtr DEF UInv
  <2>3. Awaits(call[t], g) = 0  BY <2>2 DEF Awaits
  <2> QED  BY <1>4, <1>5, <2>1, <2>3, OneCall DEF UInv, IInv
<1>8. \A c : Taken(g, c) = 0 /\ Taken(g, c)' = 0
  BY <1>5, <1>6, <1>7 DEF Taken
<1>9. useCnt' = [c \in Chunks |-> useCnt[c] - Taken(g, c) + Taken(g, c)']
  <2>1. \A c \in Chunks : useCnt[c] \in Nat  BY DEF UInv, UsesOK
  <2>2. \A c \in Chunks : useCnt[c] = useCnt[c] - Taken(g, c) + Taken(g, c)'  BY <1>8, <2>1
  <2> QED  BY <1>2, <2>2 DEF UInv, UsesOK
<1>10. Waiting(g) + Awaits(n, g) <= Loaded(g)'  BY <1>4, <1>5, <1>6
<1> QED  BY <1>1, <1>2, <1>3, <1>9, <1>10, GlueUses

\* What Pull does: it marks the adhereTo and has a use to take, or waits for the one somebody
\* else takes.
LEMMA PullMoves ==
    ASSUME IInv, NEW t \in Threads, NEW g \in Glues, NEW m \in Modes, Pull(t, g, m)
    PROVE  /\ call[t].at = "idle" /\ Exists(g) /\ ChunkOf(g) \in Chunks
           /\ GlueAtRest(g) \/ SharedGlue
           /\ UNCHANGED <<chunk, tracker, status, useCnt, built>>
           /\ \E n \in Calls, e \in GlueTypes :
                 /\ call' = [call EXCEPT ![t] = n] /\ glue' = [glue EXCEPT ![g] = e]
                 /\ n.glue = g /\ n.then = "pull" /\ n.chunk = ChunkOf(g)
                 /\ e.data = glue[g].data /\ e.loc = glue[g].loc
                 /\ e.loadedReadable \/ e.loadedWritable
                 /\ \/ n.at = "getLocPtr" /\ n.left = 0 /\ e = glue[g]
                    \/ n.at = "setUse" /\ n.left = 1 /\ ~glue[g][m] /\ e = [glue[g] EXCEPT ![m] = TRUE]
<1> DEFINE r == [Idle EXCEPT !.glue = g, !.chunk = ChunkOf(g), !.then = "pull"]
           w == [r EXCEPT !.at = "getLocPtr"]
           s == [r EXCEPT !.at = "setUse", !.left = 1]
<1>1. /\ call[t].at = "idle" /\ Exists(g) /\ ChunkOf(g) \in Chunks
      /\ UNCHANGED <<chunk, tracker, status, useCnt, built>>
      /\ GlueAtRest(g) \/ SharedGlue
      /\ IF glue[g][m] THEN call' = [call EXCEPT ![t] = w] /\ glue' = glue
         ELSE call' = [call EXCEPT ![t] = s] /\ glue' = [glue EXCEPT ![g][m] = TRUE]
  BY DEF Pull, Continue, Readable, IInv, Typed, GlueTypes, Live, ChunkOf, Exists
<1>2. /\ w \in Calls /\ w.at = "getLocPtr" /\ w.left = 0 /\ w.glue = g /\ w.then = "pull" /\ w.chunk = ChunkOf(g)
      /\ s \in Calls /\ s.at = "setUse" /\ s.left = 1 /\ s.glue = g /\ s.then = "pull" /\ s.chunk = ChunkOf(g)
  <2>1. r \in Calls  BY <1>1, IdleTyped DEF Calls
  <2>2. /\ r.then = "pull" /\ r.glue = g /\ r.chunk = ChunkOf(g) /\ r.left = 0
    BY DEF Idle
  <2>3. "setUse" \in Stages /\ "getLocPtr" \in Stages /\ 0 \in 0..2 /\ 1 \in 0..2  BY DEF Stages
  <2>4. w = [r EXCEPT !.at = "getLocPtr"] /\ s = [r EXCEPT !.at = "setUse", !.left = 1]
    OBVIOUS
  <2> HIDE DEF r, w, s
  <2>5. w \in Calls /\ s \in Calls  BY <2>1, <2>3, <2>4, CallsMoved DEF Calls
  <2> QED  BY <2>1, <2>2, <2>4, <2>5 DEF Calls
<1> HIDE DEF r, w, s
<1>3. PICK d \in GlueTypes : d = glue[g]  BY DEF IInv, Typed
<1>4. CASE glue[g][m]
  <2>1. glue' = [glue EXCEPT ![g] = d]  BY <1>1, <1>3, <1>4 DEF IInv, Typed
  <2>2. d.loadedReadable \/ d.loadedWritable  BY <1>3, <1>4 DEF Modes
  <2>3. call' = [call EXCEPT ![t] = w]  BY <1>1, <1>4
  <2>4. \E n \in Calls, e \in GlueTypes :
           /\ call' = [call EXCEPT ![t] = n] /\ glue' = [glue EXCEPT ![g] = e]
           /\ n.glue = g /\ n.then = "pull" /\ n.chunk = ChunkOf(g)
           /\ e.data = glue[g].data /\ e.loc = glue[g].loc
           /\ e.loadedReadable \/ e.loadedWritable
           /\ n.at = "getLocPtr" /\ n.left = 0 /\ e = glue[g]
    BY <1>2, <1>3, <2>1, <2>2, <2>3
  <2> QED  BY <1>1, <2>4
<1>5. CASE ~glue[g][m]
  <2>1. PICK e : e = [d EXCEPT ![m] = TRUE]  OBVIOUS
  <2>2. e \in GlueTypes /\ e.data = d.data /\ e.loc = d.loc /\ (e.loadedReadable \/ e.loadedWritable)
    <3>1. CASE m = "loadedReadable"  BY <2>1, <3>1 DEF GlueTypes
    <3>2. CASE m = "loadedWritable"  BY <2>1, <3>2 DEF GlueTypes
    <3> QED  BY <3>1, <3>2 DEF Modes
  <2>3. glue' = [glue EXCEPT ![g] = e]  BY <1>1, <1>3, <1>5, <2>1 DEF IInv, Typed
  <2>4. call' = [call EXCEPT ![t] = s]  BY <1>1, <1>5
  <2>5. \E n \in Calls, f \in GlueTypes :
           /\ call' = [call EXCEPT ![t] = n] /\ glue' = [glue EXCEPT ![g] = f]
           /\ n.glue = g /\ n.then = "pull" /\ n.chunk = ChunkOf(g)
           /\ f.data = glue[g].data /\ f.loc = glue[g].loc
           /\ f.loadedReadable \/ f.loadedWritable
           /\ n.at = "setUse" /\ n.left = 1 /\ ~glue[g][m] /\ f = [glue[g] EXCEPT ![m] = TRUE]
    BY <1>2, <1>3, <1>5, <2>1, <2>2, <2>3, <2>4
  <2> QED  BY <1>1, <2>5
<1> QED  BY <1>4, <1>5

\* Pulling through an adhereTo keeps the use counts exact.
LEMMA PullUses ==
    ASSUME UInv, IInv', NEW t \in Threads, NEW g \in Glues, NEW m \in Modes, Pull(t, g, m)
    PROVE  UsesOK' /\ RoomsOK'
<1>1. /\ call[t].at = "idle" /\ Exists(g) /\ chunk' = chunk /\ useCnt' = useCnt
      /\ \E n \in Calls, e \in GlueTypes :
            /\ call' = [call EXCEPT ![t] = n] /\ glue' = [glue EXCEPT ![g] = e]
            /\ n.glue = g /\ e.data = glue[g].data
            /\ \/ n.at = "getLocPtr" /\ n.left = 0 /\ e = glue[g]
               \/ n.at = "setUse" /\ n.left = 1 /\ ~glue[g][m] /\ e = [glue[g] EXCEPT ![m] = TRUE]
  BY PullMoves DEF UInv
<1>2. PICK n \in Calls, e \in GlueTypes :
            /\ call' = [call EXCEPT ![t] = n] /\ glue' = [glue EXCEPT ![g] = e]
            /\ n.glue = g /\ e.data = glue[g].data
            /\ \/ n.at = "getLocPtr" /\ n.left = 0 /\ e = glue[g]
               \/ n.at = "setUse" /\ n.left = 1 /\ ~glue[g][m] /\ e = [glue[g] EXCEPT ![m] = TRUE]
  BY <1>1
<1>3. glue'[g] = e /\ glue[g] \in GlueTypes  BY <1>2 DEF UInv, IInv, Typed
<1>4. Awaits(n, g) = n.left  BY <1>2 DEF Awaits
<1>5. Loaded(g) \in 0..2 /\ Loaded(g)' = Loaded(g) + n.left /\ n.left \in 0..1
  <2>1. Loaded(g) \in 0..2  BY LoadedMarked DEF UInv, IInv
  <2>2. CASE n.left = 0 /\ e = glue[g]
    <3>1. Loaded(g)' = Loaded(g)  BY <1>3, <2>2, LoadedKept
    <3> QED  BY <2>1, <2>2, <3>1
  <2>3. CASE n.left = 1 /\ ~glue[g][m] /\ e = [glue[g] EXCEPT ![m] = TRUE]
    <3>1. Loaded(g) = Cardinality({k \in Modes : glue[g][k]}) /\ Loaded(g)' = Cardinality({k \in Modes : e[k]})
      BY <1>3 DEF Loaded
    <3>2. Cardinality({k \in Modes : e[k]}) = Cardinality({k \in Modes : glue[g][k]}) + 1
      <4>1. PICK d \in GlueTypes : d = glue[g]  BY <1>3
      <4>2. ~d[m] /\ e = [d EXCEPT ![m] = TRUE]  BY <2>3, <4>1
      <4>3. Cardinality({k \in Modes : [d EXCEPT ![m] = TRUE][k]}) = Cardinality({k \in Modes : d[k]}) + 1
        BY <4>2, LoadedMore
      <4> QED  BY <4>1, <4>2, <4>3
    <3> QED  BY <2>1, <2>3, <3>1, <3>2
  <2> QED  BY <1>2, <2>2, <2>3
<1>6. Waiting(g) \in Nat /\ Waiting(g) <= Loaded(g)
  BY SumsTyped DEF UInv, IInv, UsesOK
<1>7. Waiting(g)' = Waiting(g) + n.left
  <2>1. call'[t] = n /\ \A u \in Threads : u # t => call'[u] = call[u]
    BY <1>2 DEF UInv, IInv, Typed
  <2>2. call[t].glue = None  BY <1>1, IdleHasNoPtr DEF UInv
  <2>3. Awaits(call[t], g) = 0  BY <2>2 DEF Awaits
  <2>4. Waiting(g)' = Waiting(g) - Awaits(call[t], g) + Awaits(call'[t], g)
    BY <2>1, OneCall DEF UInv, IInv
  <2> QED  BY <1>4, <1>5, <1>6, <2>1, <2>3, <2>4
<1>8. \A c : Taken(g, c)' = Taken(g, c)
  <2>1. Exists(g)' /\ ChunkOf(g)' = ChunkOf(g)  BY <1>1, <1>2, <1>3 DEF Exists, ChunkOf
  <2>2. Loaded(g)' - Waiting(g)' = Loaded(g) - Waiting(g)  BY <1>5, <1>6, <1>7
  <2> QED  BY <1>1, <2>1, <2>2 DEF Taken
<1>9. useCnt' = [c \in Chunks |-> useCnt[c] - Taken(g, c) + Taken(g, c)']
  <2>1. \A c \in Chunks : useCnt[c] \in Nat /\ Taken(g, c) \in Nat  BY TakenTyped DEF UInv, IInv, UsesOK
  <2>2. \A c \in Chunks : useCnt[c] = useCnt[c] - Taken(g, c) + Taken(g, c)'  BY <1>8, <2>1
  <2> QED  BY <1>1, <2>2 DEF UInv, UsesOK
<1>10. Waiting(g) + Awaits(n, g) <= Loaded(g)' /\ Loaded(g)' >= Loaded(g) + Awaits(n, g)
  BY <1>4, <1>5, <1>6
<1>11. n.glue \in {None, g} /\ n.at \in {"idle", "setUse", "prepareUse", "getLocPtr"}  BY <1>2
<1> QED  BY <1>1, <1>2, <1>9, <1>10, <1>11, GlueUses

\* The uses an adhereTo on which no thread works gives back are the ones it has taken.
LEMMA WithoutGives ==
    ASSUME UInv, NEW g \in Glues, Exists(g), GlueAtRest(g)
    PROVE  Without(g) = [c \in Chunks |-> useCnt[c] - Taken(g, c)]
<1>1. Waiting(g) = 0 /\ Loaded(g) \in 0..2 /\ (Loaded(g) # 0 => ChunkOf(g) \in Chunks)
  <2>1. Waiting(g) = 0 /\ Loaded(g) \in 0..2 /\ (Loaded(g) = 0 <=> ~Marked(g))
    BY RestAwaitsNothing, LoadedMarked DEF UInv, IInv
  <2>2. glue[g].data \in Ptrs  BY DEF Exists, UInv, IInv, Typed, GlueTypes
  <2>3. Marked(g) => ChunkOf(g) \in Chunks
    BY <2>2 DEF UInv, IInv, Typed, Adhering, Live, ChunkOf
  <2> QED  BY <2>1, <2>3
<1>2. \A c : Taken(g, c) = IF ChunkOf(g) = c THEN Loaded(g) ELSE 0  BY <1>1 DEF Taken
<1>3. useCnt \in [Chunks -> Nat]  BY DEF UInv, UsesOK
<1>4. CASE Loaded(g) = 0  BY <1>2, <1>3, <1>4 DEF Without
<1>5. CASE Loaded(g) # 0
  <2>1. Without(g) = [useCnt EXCEPT ![ChunkOf(g)] = @ - Loaded(g)]  BY <1>5 DEF Without
  <2>2. \A c \in Chunks : Without(g)[c] = useCnt[c] - Taken(g, c)
    BY <1>1, <1>2, <1>3, <1>5, <2>1
  <2> QED  BY <1>3, <2>1, <2>2
<1> QED  BY <1>4, <1>5

\* What TakesAfter makes of the adhereTo and of the call.
LEMMA TakesAfterMoves ==
    ASSUME UInv, NEW t \in Threads, NEW g \in Glues, NEW h \in Glues, NEW uses,
           TakesAfter(t, g, h, uses), call[t].at = "idle", Exists(h)
    PROVE  \E n \in Calls, e \in GlueTypes :
              /\ call' = [call EXCEPT ![t] = n] /\ glue' = [glue EXCEPT ![g] = e]
              /\ useCnt' = uses /\ n.left = Loaded(h)
              /\ e.data = glue[h].data /\ e.loc = None /\ e.data # None
              /\ e.loadedReadable = glue[h].loadedReadable /\ e.loadedWritable = glue[h].loadedWritable
              /\ \/ Loaded(h) = 0 /\ n = call[t] /\ n.glue = None /\ n.at = "idle"
                 \/ Loaded(h) # 0 /\ n.glue = g /\ n.at = "setUse" /\ n.then = "copy" /\ n.chunk = ChunkOf(h)
<1> DEFINE e == [glue[h] EXCEPT !.loc = None]
           n == [Idle EXCEPT !.at = "setUse", !.then = "copy", !.left = Loaded(h),
                             !.glue = g, !.chunk = ChunkOf(h)]
<1>1. e \in GlueTypes /\ e.data = glue[h].data /\ e.loc = None /\ e.data # None
      /\ e.loadedReadable = glue[h].loadedReadable /\ e.loadedWritable = glue[h].loadedWritable
  BY DEF UInv, IInv, Typed, GlueTypes, Exists
<1>2. glue' = [glue EXCEPT ![g] = e] /\ useCnt' = uses
  BY DEF TakesAfter
<1>3. Loaded(h) \in 0..2 /\ (Loaded(h) # 0 => ChunkOf(h) \in Chunks)
  <2>1. Loaded(h) \in 0..2 /\ (Loaded(h) = 0 <=> ~Marked(h))  BY LoadedMarked DEF UInv, IInv
  <2>2. glue[h].data \in Ptrs  BY DEF Exists, UInv, IInv, Typed, GlueTypes
  <2>3. Marked(h) => ChunkOf(h) \in Chunks
    BY <2>2 DEF UInv, IInv, Typed, Adhering, Live, ChunkOf
  <2> QED  BY <2>1, <2>3
<1> HIDE DEF e
<1>4. CASE Loaded(h) = 0
  <2>1. call' = [call EXCEPT ![t] = call[t]] /\ call[t] \in Calls
    BY <1>4 DEF TakesAfter, UInv, IInv, Typed
  <2>2. call[t].glue = None /\ call[t].left = 0  BY IdleHasNoPtr DEF UInv, Lefts
  <2> QED  BY <1>1, <1>2, <1>4, <2>1, <2>2
<1>5. CASE Loaded(h) # 0
  <2>1. call' = [call EXCEPT ![t] = n]  BY <1>5 DEF TakesAfter, Continue
  <2>2. /\ n \in Calls /\ n.left = Loaded(h) /\ n.glue = g /\ n.at = "setUse" /\ n.then = "copy"
        /\ n.chunk = ChunkOf(h)
    BY <1>3, <1>5 DEF Idle, Calls, Stages
  <2> HIDE DEF n
  <2> QED  BY <1>1, <1>2, <1>5, <2>1, <2>2
<1> QED  BY <1>4, <1>5

\* Copying or assigning an adhereTo keeps the use counts exact.
LEMMA TakesAfterUses ==
    ASSUME UInv, IInv', NEW t \in Threads, NEW g \in Glues, NEW h \in Glues,
           CopyAdhereTo(t, g, h) \/ AssignAdhereTo(t, g, h)
    PROVE  UsesOK' /\ RoomsOK'
<1>1. /\ call[t].at = "idle" /\ GlueAtRest(g) /\ Exists(h) /\ chunk' = chunk
      /\ \/ ~Exists(g) /\ TakesAfter(t, g, h, useCnt)
         \/ Exists(g) /\ TakesAfter(t, g, h, Without(g))
  BY DEF CopyAdhereTo, AssignAdhereTo
<1>2. PICK uses : /\ TakesAfter(t, g, h, uses)
                  /\ uses = [c \in Chunks |-> useCnt[c] - Taken(g, c)]
  <2>1. CASE ~Exists(g) /\ TakesAfter(t, g, h, useCnt)
    <3>1. useCnt = [c \in Chunks |-> useCnt[c] - Taken(g, c)]  BY <2>1 DEF UInv, UsesOK, Taken
    <3> QED  BY <2>1, <3>1
  <2>2. CASE Exists(g) /\ TakesAfter(t, g, h, Without(g))
    BY <1>1, <2>2, WithoutGives
  <2> QED  BY <1>1, <2>1, <2>2
<1>3. \E n \in Calls, e \in GlueTypes :
              /\ call' = [call EXCEPT ![t] = n] /\ glue' = [glue EXCEPT ![g] = e]
              /\ useCnt' = uses /\ n.left = Loaded(h)
              /\ e.loadedReadable = glue[h].loadedReadable /\ e.loadedWritable = glue[h].loadedWritable
              /\ \/ Loaded(h) = 0 /\ n.glue = None /\ n.at = "idle"
                 \/ n.glue = g /\ n.at = "setUse"
  BY <1>1, <1>2, TakesAfterMoves
<1>4. PICK n \in Calls, e \in GlueTypes :
              /\ call' = [call EXCEPT ![t] = n] /\ glue' = [glue EXCEPT ![g] = e]
              /\ useCnt' = uses /\ n.left = Loaded(h)
              /\ e.loadedReadable = glue[h].loadedReadable /\ e.loadedWritable = glue[h].loadedWritable
              /\ \/ Loaded(h) = 0 /\ n.glue = None /\ n.at = "idle"
                 \/ n.glue = g /\ n.at = "setUse"
  BY <1>3
<1>5. Loaded(h) \in 0..2  BY LoadedMarked DEF UInv, IInv
<1>6. Awaits(n, g) = Loaded(h)  BY <1>4 DEF Awaits
<1>7. Loaded(g)' = Loaded(h)
  <2>1. glue'[g] = e  BY <1>4 DEF UInv, IInv, Typed
  <2>2. {m \in Modes : glue'[g][m]} = {m \in Modes : glue[h][m]}  BY <1>4, <2>1 DEF Modes
  <2> QED  BY <2>2 DEF Loaded
<1>8. Waiting(g) = 0  BY <1>1, RestAwaitsNothing DEF UInv, IInv
<1>9. Waiting(g)' = Loaded(h)
  <2>1. call'[t] = n /\ \A u \in Threads : u # t => call'[u] = call[u]
    BY <1>4 DEF UInv, IInv, Typed
  <2>2. call[t].glue = None  BY <1>1, IdleHasNoPtr DEF UInv
  <2>3. Awaits(call[t], g) = 0  BY <2>2 DEF Awaits
  <2>4. Waiting(g)' = Waiting(g) - Awaits(call[t], g) + Awaits(call'[t], g)
    BY <2>1, OneCall DEF UInv, IInv
  <2> QED  BY <1>5, <1>6, <1>8, <2>1, <2>3, <2>4
<1>10. \A c : Taken(g, c)' = 0
  <2>1. Loaded(g)' - Waiting(g)' = 0  BY <1>5, <1>7, <1>9
  <2> QED  BY <2>1 DEF Taken
<1>11. useCnt' = [c \in Chunks |-> useCnt[c] - Taken(g, c) + Taken(g, c)']
  <2>1. \A c \in Chunks : useCnt[c] \in Nat /\ Taken(g, c) \in Nat  BY TakenTyped DEF UInv, IInv, UsesOK
  <2>2. \A c \in Chunks : useCnt[c] - Taken(g, c) = useCnt[c] - Taken(g, c) + Taken(g, c)'
    BY <1>10, <2>1
  <2> QED  BY <1>2, <1>4, <2>2
<1>12. Waiting(g) + Awaits(n, g) <= Loaded(g)'  BY <1>5, <1>6, <1>7, <1>8
<1>13. n.glue \in {None, g} /\ n.at \in {"idle", "setUse", "prepareUse", "getLocPtr"}  BY <1>4
<1> QED  BY <1>1, <1>4, <1>11, <1>12, <1>13, GlueUses

\* Destroying an adhereTo keeps the use counts exact.
LEMMA DestroyAdhereToUses ==
    ASSUME UInv, IInv', NEW t \in Threads, NEW g \in Glues, DestroyAdhereTo(t, g)
    PROVE  UsesOK' /\ RoomsOK'
<1>1. /\ call[t].at = "idle" /\ GlueAtRest(g) /\ Exists(g) /\ chunk' = chunk /\ call' = call
      /\ useCnt' = Without(g) /\ glue' = [glue EXCEPT ![g] = NoGlue]
  BY DEF DestroyAdhereTo
<1>2. NoGlue \in GlueTypes /\ ~NoGlue.loadedReadable /\ ~NoGlue.loadedWritable
      /\ NoGlue.data = None
  BY DEF NoGlue, GlueTypes
<1>3. PICK n \in Calls : /\ n = call[t] /\ call' = [call EXCEPT ![t] = n]
                         /\ n.glue = None /\ n.at = "idle"
  <2>1. call[t] \in Calls /\ call' = [call EXCEPT ![t] = call[t]]
    BY <1>1 DEF UInv, IInv, Typed
  <2> QED  BY <1>1, <2>1, IdleHasNoPtr DEF UInv
<1>4. glue'[g] = NoGlue  BY <1>1 DEF UInv, IInv, Typed
<1>5. Loaded(g)' = 0  BY <1>2, <1>4, LoadedBlank DEF Loaded
<1>6. Waiting(g) = 0 /\ Awaits(n, g) = 0
  BY <1>1, <1>3, RestAwaitsNothing DEF UInv, IInv, Awaits
<1>7. \A c : Taken(g, c)' = 0  BY <1>2, <1>4 DEF Taken, Exists
<1>8. useCnt' = [c \in Chunks |-> useCnt[c] - Taken(g, c) + Taken(g, c)']
  <2>1. \A c \in Chunks : useCnt[c] \in Nat /\ Taken(g, c) \in Nat  BY TakenTyped DEF UInv, IInv, UsesOK
  <2>2. \A c \in Chunks : useCnt[c] - Taken(g, c) = useCnt[c] - Taken(g, c) + Taken(g, c)'
    BY <1>7, <2>1
  <2>3. useCnt' = [c \in Chunks |-> useCnt[c] - Taken(g, c)]  BY <1>1, WithoutGives
  <2> QED  BY <2>2, <2>3
<1>9. Waiting(g) + Awaits(n, g) <= Loaded(g)'  BY <1>5, <1>6
<1>10. call[t].at = "idle" /\ GlueAtRest(g) /\ chunk' = chunk
       /\ n.glue \in {None, g} /\ n.at \in {"idle", "setUse", "prepareUse", "getLocPtr"}
  BY <1>1, <1>3
<1>11. NoGlue \in GlueTypes /\ glue' = [glue EXCEPT ![g] = NoGlue] /\ call' = [call EXCEPT ![t] = n]
  BY <1>1, <1>2, <1>3
<1> QED  BY <1>8, <1>9, <1>10, <1>11, GlueUses

\* Chunks are swapped out, or nothing happens.
LEMMA QuietUses ==
    ASSUME UInv, chunk' = chunk, glue' = glue, useCnt' = useCnt, call' = call
    PROVE  UsesOK' /\ RoomsOK'
<1>1. \A x : Waiting(x)' = Waiting(x) /\ Running(x)' = Running(x)  BY DEF Waiting, Running
<1>2. \A g : Loaded(g)' = Loaded(g)  BY LoadedKept
<1>3. \A c : Held(c)' = Held(c)
  <2>1. \A g, c : Taken(g, c)' = Taken(g, c)
    BY <1>1, <1>2 DEF Taken, Exists, ChunkOf
  <2> QED  BY <2>1 DEF Held
<1> QED  BY <1>1, <1>2, <1>3 DEF UInv, UsesOK, RoomsOK

-----------------------------------------------------------------------------
(* Chunks in use, and chunks nobody has a share in *)

\* Whoever has a share in a chunk is part of its use count.
LEMMA UsedIsCounted ==
    ASSUME UInv
    PROVE  /\ \A g \in Glues, c \in Chunks : Taken(g, c) > 0 => useCnt[c] > 0
           /\ \A t \in Threads : call[t].at \in {"construct", "destruct"} =>
                 call[t].chunk \in Chunks /\ useCnt[call[t].chunk] > 0
<1>1. Typed /\ UsesOK  BY DEF UInv, IInv
<1>2. \A c \in Chunks : /\ Held(c) \in Nat /\ Running(c) \in Nat /\ useCnt[c] = Held(c) + Running(c)
                        /\ \A g \in Glues : Taken(g, c) \in Nat /\ Taken(g, c) <= Held(c)
  BY <1>1, TakenTyped, SumsTyped DEF UsesOK
<1>3. \A g \in Glues, c \in Chunks : Taken(g, c) > 0 => useCnt[c] > 0  BY <1>2
<1>4. ASSUME NEW t \in Threads, call[t].at \in {"construct", "destruct"}
      PROVE  call[t].chunk \in Chunks /\ useCnt[call[t].chunk] > 0
  <2>1. /\ call[t].chunk \in Chunks /\ call[t].then \in {"construct", "destruct"}
    BY <1>4 DEF UInv, IInv, Shapes, Resting, Using, Building, Deleting
  <2>2. PICK c \in Chunks : c = call[t].chunk  BY <2>1
  <2>3. Runs(call[t], c) = 1  BY <1>4, <2>1, <2>2 DEF Runs
  <2>4. Runs(call[t], c) <= Running(c)
    <3> DEFINE r == [u \in Threads |-> Runs(call[u], c)]
    <3>1. \A u \in Threads : r[u] \in Nat  BY <1>1, CallCounts DEF Typed
    <3>2. r[t] = Runs(call[t], c) /\ Running(c) = SumOver(r, Threads)  BY DEF Running
    <3> HIDE DEF r
    <3> QED  BY <3>1, <3>2, SumBounds
  <2> QED  BY <1>2, <2>2, <2>3, <2>4
<1> QED  BY <1>3, <1>4

\* The adhereTos to a chunk that no managedPtr has a share in hold no use of it.
LEMMA UnownedIsUnheld ==
    ASSUME UInv, NEW c \in Chunks, tracker[c] = 0
    PROVE  useCnt[c] = Running(c)
<1>1. Typed /\ UsesOK  BY DEF UInv, IInv
<1>2. ASSUME NEW g \in Glues PROVE Taken(g, c) = 0
  <2>1. CASE Exists(g) /\ ChunkOf(g) = c
    <3> DEFINE p == glue[g].data
    <3>1. p \in Ptrs /\ chunk[p] = c  BY <2>1 DEF Exists, ChunkOf, UInv, IInv, Typed, GlueTypes
    <3>2. ~Owns(p, c)
      <4>1. \A q \in Ptrs : Owns(q, c) => tracker[c] > 0  BY OwnedIsThere DEF UInv
      <4> QED  BY <3>1, <4>1
    <3>3. ~Marked(g)  BY <2>1, <3>1, <3>2 DEF Owns, UInv, IInv, Adhering
    <3>4. Loaded(g) = 0 /\ Waiting(g) <= Loaded(g) /\ Waiting(g) \in Nat
      BY <1>1, <3>3, LoadedMarked, SumsTyped DEF UsesOK
    <3>5. Loaded(g) - Waiting(g) = 0  BY <3>4
    <3> QED  BY <3>5 DEF Taken
  <2>2. CASE ~(Exists(g) /\ ChunkOf(g) = c)  BY <2>2 DEF Taken
  <2> QED  BY <2>1, <2>2
<1>3. Held(c) = 0
  <2> DEFINE f == [g \in Glues |-> Taken(g, c)]
  <2>1. \A g \in Glues : f[g] = 0  BY <1>2
  <2>2. Held(c) = SumOver(f, Glues)  BY DEF Held
  <2> HIDE DEF f
  <2> QED  BY <2>1, <2>2, SumZero
<1>4. Running(c) \in Nat /\ useCnt[c] = Held(c) + Running(c)
  BY <1>1, SumsTyped DEF UsesOK
<1> QED  BY <1>3, <1>4

\* Nobody but the thread that deletes a chunk works on it.
LEMMA DeleterIsAlone ==
    ASSUME UInv, NEW t \in Threads, call[t].then = "destruct"
    PROVE  /\ call[t].chunk \in Chunks /\ tracker[call[t].chunk] = 0
           /\ \A p \in Ptrs : ~Owns(p, call[t].chunk)
           /\ \A u \in Threads : u # t => ~(/\ call[u].then \in {"construct", "destruct"}
                                            /\ call[u].chunk = call[t].chunk)
<1>1. PICK c \in Chunks : c = call[t].chunk
  BY DEF UInv, IInv, Shapes, Resting, Using, Building, Deleting, NoPtr
<1>2. tracker[c] = 0 /\ \A u \in Threads : Deletes(u, c) => u = t
  BY <1>1 DEF UInv, IInv, Counted, Deletes
<1>3. \A p \in Ptrs : ~Owns(p, c)
  <2>1. \A p \in Ptrs : Owns(p, c) => tracker[c] > 0  BY OwnedIsThere DEF UInv
  <2> QED  BY <1>2, <2>1
<1>4. \A u \in Threads : call[u].then = "construct" /\ call[u].chunk = c => Owns(call[u].ptr, c) /\ call[u].ptr \in Ptrs
  BY DEF Owns, UInv, IInv, Shapes, Resting, Using, Building, Deleting, NoPtr
<1> QED  BY <1>1, <1>2, <1>3, <1>4 DEF Deletes

\* mfree is called for a chunk that is not in use.
LEMMA FreedIsUnused ==
    ASSUME UInv, NEW t \in Threads, call[t].at = "mfree"
    PROVE  call[t].chunk \in Chunks /\ useCnt[call[t].chunk] = 0
<1>1. call[t].then = "destruct"
  BY DEF UInv, IInv, Shapes, Resting, Using, Building, Deleting
<1>2. PICK c \in Chunks : c = call[t].chunk  BY <1>1, DeleterIsAlone
<1>3. Running(c) = 0
  <2> DEFINE r == [u \in Threads |-> Runs(call[u], c)]
  <2>1. \A u \in Threads : r[u] = 0  BY <1>1, <1>2, DeleterIsAlone DEF Runs
  <2>2. Running(c) = SumOver(r, Threads)  BY DEF Running
  <2> HIDE DEF r
  <2> QED  BY <2>1, <2>2, SumZero
<1>4. tracker[c] = 0  BY <1>1, <1>2, DeleterIsAlone
<1> QED  BY <1>2, <1>3, <1>4, UnownedIsUnheld
-----------------------------------------------------------------------------
(* What else the steps keep *)

\* A call goes on, or ends, or begins, and leaves the managedPtrs and the elements alone.
LEMMA CallRest ==
    ASSUME UInv, NEW t \in Threads, \A u \in Threads : u # t => call'[u] = call[u],
           chunk' = chunk, built' = built,
           call[t].then = "destruct" \/ call'[t].then = "destruct" =>
              /\ call[t].then = "destruct" /\ call'[t].then = "destruct"
              /\ call'[t].ptr = call[t].ptr /\ call'[t].chunk = call[t].chunk
              /\ call'[t].at = "mfree" <=> call[t].at = "mfree",
           call'[t].then \in {"construct", "destruct"} =>
              call'[t].left = IF call'[t].at = "setUse" THEN 1 ELSE 0,
           call'[t].at \in {"idle", "prepareUse", "getLocPtr", "spin"} => call'[t].left = 0,
           call'[t].at \in {"construct", "destruct"} => status'[call'[t].chunk] = "ALLOCATED",
           \A c \in Chunks : status[c] = "ALLOCATED" => status'[c] = "ALLOCATED"
    PROVE  Lefts' /\ RunsOK' /\ Builds'
<1>1. Lefts'  BY DEF UInv, Lefts
<1>2. RunsOK'  BY UsedIsCounted DEF UInv, RunsOK
<1>3. \A u \in Threads, p \in Ptrs : Destructs(u, p)' <=> Destructs(u, p)  BY DEF Destructs
<1>4. Builds'
  <2>1. built' \subseteq Chunks  BY DEF UInv, Builds
  <2>2. \A p \in Ptrs :
           chunk'[p] \in Chunks /\ (\A u \in Threads : ~Destructs(u, p)') => chunk'[p] \in built'
    BY <1>3 DEF UInv, Builds
  <2>3. \A u \in Threads : call'[u].then = "destruct" =>
           IF call'[u].at = "mfree" THEN call'[u].chunk \in Classes => call'[u].chunk \notin built'
           ELSE call'[u].chunk \in built'
    BY DEF UInv, Builds
  <2> QED  BY <2>1, <2>2, <2>3 DEF Builds
<1> QED  BY <1>1, <1>2, <1>4

Rest == Lefts /\ Voids /\ RunsOK /\ Builds

\* A stutter keeps what else UInv says.
LEMMA QuietRest ==
    ASSUME UInv, UNCHANGED vars
    PROVE  Rest'
<1>1. chunk' = chunk /\ glue' = glue /\ status' = status /\ built' = built /\ call' = call
  BY DEF vars
<1> QED  BY <1>1 DEF UInv, Rest, Lefts, Voids, Exists, Marked, RunsOK, Builds, Destructs

\* Unloading a chunk keeps what else UInv says.
LEMMA SwapOutRest ==
    ASSUME UInv, NEW c \in Chunks, SwapOut(c)
    PROVE  Rest'
<1>1. /\ chunk' = chunk /\ glue' = glue /\ built' = built /\ call' = call
      /\ useCnt[c] = 0 /\ status' = [status EXCEPT ![c] = "SWAPPED"]
  BY DEF SwapOut
<1>2. Lefts' /\ Voids' /\ Builds'
  BY <1>1 DEF UInv, Lefts, Voids, Exists, Marked, Builds, Destructs
<1>3. RunsOK'
  <2>1. \A t \in Threads : call[t].at \in {"construct", "destruct"} =>
           call[t].chunk \in Chunks /\ call[t].chunk # c
    BY <1>1, UsedIsCounted
  <2> QED  BY <1>1, <2>1 DEF UInv, IInv, Typed, RunsOK
<1> QED  BY <1>2, <1>3 DEF Rest

\* The call that Granted moves on, r, is that of t, with its chunk in memory.
LEMMA GrantedRest ==
    ASSUME UInv, NEW t \in Threads, NEW r \in Calls, Granted(t, r),
           Using(r) \/ Building(r) \/ Deleting(r), r.at \in {"setUse", "room", "getLocPtr"},
           r.then = call[t].then, r.chunk = call[t].chunk, r.ptr = call[t].ptr, r.glue = call[t].glue,
           call[t].at # "mfree",
           r.then \in {"construct", "destruct"} => r.left = 0,
           chunk' = chunk, built' = built,
           status'[r.chunk] = "ALLOCATED",
           \A c \in Chunks : status[c] = "ALLOCATED" => status'[c] = "ALLOCATED"
    PROVE  Rest'
<1>1. r.glue # None => r.glue \in Glues  BY DEF Calls
<1>2. /\ \A u \in Threads : u # t => call'[u] = call[u]
      /\ call'[t] = IF r.left > 0 THEN [r EXCEPT !.at = "setUse"]
                    ELSE IF r.then \in {"construct", "destruct"} THEN [r EXCEPT !.at = r.then]
                    ELSE Idle
      /\ \A g \in Glues : /\ glue'[g].data = glue[g].data
                          /\ glue'[g].loadedReadable = glue[g].loadedReadable
                          /\ glue'[g].loadedWritable = glue[g].loadedWritable
                          /\ glue'[g].loc = IF r.then = "pull" /\ g = r.glue THEN r.chunk
                                            ELSE glue[g].loc
  BY <1>1, GrantedMoves DEF UInv, IInv
<1>3. Voids'
  <2>1. r.glue \in Glues => Exists(r.glue)  BY DEF UInv, IInv, Adhering
  <2> QED  BY <1>2, <2>1 DEF UInv, Voids, Exists, Marked
<1>4. Lefts' /\ RunsOK' /\ Builds'
  <2>1. CASE r.left > 0 /\ call'[t] = [r EXCEPT !.at = "setUse"]
    <3>1. r.then \notin {"construct", "destruct"}  BY <2>1
    <3>2. call'[t].at = "setUse" /\ call'[t].then = r.then  BY <2>1 DEF Calls
    <3> QED  BY <1>2, <3>1, <3>2, CallRest
  <2>2. CASE r.left = 0 /\ r.then \in {"construct", "destruct"} /\ call'[t] = [r EXCEPT !.at = r.then]
    <3>1. /\ call'[t].at = r.then /\ call'[t].then = r.then /\ call'[t].left = 0
          /\ call'[t].ptr = r.ptr /\ call'[t].chunk = r.chunk
      BY <2>2 DEF Calls
    <3>2. /\ call[t].then = "destruct" \/ call'[t].then = "destruct" =>
                /\ call[t].then = "destruct" /\ call'[t].then = "destruct"
                /\ call'[t].ptr = call[t].ptr /\ call'[t].chunk = call[t].chunk
                /\ call'[t].at = "mfree" <=> call[t].at = "mfree"
          /\ call'[t].then \in {"construct", "destruct"} =>
                call'[t].left = IF call'[t].at = "setUse" THEN 1 ELSE 0
      BY <2>2, <3>1
    <3>3. /\ call'[t].at \in {"idle", "prepareUse", "getLocPtr", "spin"} => call'[t].left = 0
          /\ call'[t].at \in {"construct", "destruct"} => status'[call'[t].chunk] = "ALLOCATED"
      BY <2>2, <3>1
    <3> QED  BY <1>2, <3>2, <3>3, CallRest
  <2>3. CASE r.then \notin {"construct", "destruct"} /\ call'[t] = Idle
    <3>1. call'[t].at = "idle" /\ call'[t].then = "none" /\ call'[t].left = 0
      BY <2>3 DEF Idle
    <3> QED  BY <1>2, <2>3, <3>1, CallRest
  <2>4. r.left \in 0..2  BY DEF Calls
  <2> QED  BY <1>2, <2>1, <2>2, <2>3, <2>4
<1> QED  BY <1>3, <1>4 DEF Rest

\* Taking a use keeps what else UInv says.
LEMMA SetUseRest ==
    ASSUME UInv, NEW t \in Threads, SetUse(t)
    PROVE  Rest'
<1> DEFINE r == [call[t] EXCEPT !.left = @ - 1]
           n == [r EXCEPT !.at = "room"]
<1>1. PICK k \in Calls : k = call[t]  BY DEF UInv, IInv, Typed
<1>2. /\ k.at = "setUse" /\ k.left \in 1..2 /\ (Using(k) \/ Building(k) \/ Deleting(k))
      /\ k.chunk \in Chunks /\ (k.then \in {"construct", "destruct"} => k.left = 1)
  BY <1>1 DEF UInv, IInv, Shapes, Lefts, Calls, SetUse, Resting, Using, Building, Deleting
<1>3. /\ r \in Calls /\ r.left = k.left - 1 /\ r.ptr = k.ptr
      /\ r.at = "setUse" /\ r.chunk = k.chunk /\ r.then = k.then /\ r.glue = k.glue
      /\ n.at = "room" /\ n.left = r.left /\ n.chunk = k.chunk /\ n.then = k.then /\ n.ptr = k.ptr
  BY <1>1, <1>2 DEF Calls
<1>4. chunk' = chunk /\ status' = status /\ built' = built  BY DEF SetUse
<1>5. CASE status[k.chunk] = "SWAPPED"
  <2>1. call' = [call EXCEPT ![t] = n] /\ glue' = glue
    BY <1>1, <1>3, <1>5 DEF SetUse, Continue
  <2>2. call'[t] = n /\ \A u \in Threads : u # t => call'[u] = call[u]
    BY <2>1 DEF UInv, IInv, Typed
  <2>3. Voids'  BY <2>1 DEF UInv, Voids, Exists, Marked
  <2> HIDE DEF r, n
  <2>4. Lefts' /\ RunsOK' /\ Builds'
    BY <1>1, <1>2, <1>3, <1>4, <2>2, CallRest
  <2> QED  BY <2>3, <2>4 DEF Rest
<1>6. CASE status[k.chunk] # "SWAPPED"
  <2>1. Granted(t, r)  BY <1>1, <1>3, <1>6 DEF SetUse
  <2>2. status[k.chunk] = "ALLOCATED"
    <3>1. status[k.chunk] # "NONE"  BY <1>1, <1>2, CalledChunkIsThere DEF UInv
    <3> QED  BY <1>2, <1>6, <3>1 DEF UInv, IInv, Typed
  <2>3. Using(r) \/ Building(r) \/ Deleting(r)
    BY <1>1, <1>2 DEF Using, Building, Deleting, NoPtr, Calls
  <2> HIDE DEF r
  <2>4. r.then \in {"construct", "destruct"} => r.left = 0  BY <1>2, <1>3
  <2> QED  BY <1>1, <1>2, <1>3, <1>4, <2>1, <2>2, <2>3, <2>4, GrantedRest
<1> QED  BY <1>5, <1>6

\* Bringing a chunk in keeps what else UInv says.
LEMMA SwapInRest ==
    ASSUME UInv, NEW t \in Threads, SwapIn(t)
    PROVE  Rest'
<1>1. PICK r \in Calls : r = call[t]  BY DEF UInv, IInv, Typed
<1>2. /\ r.at \in {"room", "prepareUse"} /\ (Using(r) \/ Building(r) \/ Deleting(r))
      /\ chunk' = chunk /\ built' = built /\ r.chunk \in Chunks
      /\ status' = [status EXCEPT ![r.chunk] = "ALLOCATED"]
  BY <1>1 DEF UInv, IInv, Shapes, SwapIn, Resting, Using, Building, Deleting
<1>3. /\ status'[r.chunk] = "ALLOCATED"
      /\ \A c \in Chunks : status[c] = "ALLOCATED" => status'[c] = "ALLOCATED"
  BY <1>2 DEF UInv, IInv, Typed
<1>4. CASE r.at = "room"
  <2>1. Granted(t, r)  BY <1>1, <1>4 DEF SwapIn
  <2>2. r.then \in {"construct", "destruct"} => r.left = 0  BY <1>1, <1>4 DEF UInv, Lefts
  <2> QED  BY <1>1, <1>2, <1>3, <1>4, <2>1, <2>2, GrantedRest
<1>5. CASE r.at = "prepareUse"
  <2>1. call' = [call EXCEPT ![t] = Idle] /\ glue' = glue
    BY <1>1, <1>5 DEF SwapIn, Return, Continue
  <2>2. call'[t] = Idle /\ \A u \in Threads : u # t => call'[u] = call[u]
    BY <2>1 DEF UInv, IInv, Typed
  <2>3. Idle.at = "idle" /\ Idle.left = 0 /\ Idle.then = "none"  BY DEF Idle
  <2>4. r.then = "none"  BY <1>2, <1>5 DEF Using, Building, Deleting, NoPtr
  <2>5. Lefts' /\ RunsOK' /\ Builds'  BY <1>1, <1>2, <1>3, <2>2, <2>3, <2>4, CallRest
  <2>6. Voids'  BY <2>1 DEF UInv, Voids, Exists, Marked
  <2> QED  BY <2>5, <2>6 DEF Rest
<1> QED  BY <1>2, <1>4, <1>5

\* Handing out the address keeps what else UInv says.
LEMMA GetLocPtrRest ==
    ASSUME UInv, NEW t \in Threads, GetLocPtr(t)
    PROVE  Rest'
<1>1. PICK r \in Calls : r = call[t]  BY DEF UInv, IInv, Typed
<1>2. /\ r.at = "getLocPtr" /\ Using(r) /\ r.left = 0 /\ r.then \notin {"construct", "destruct"}
      /\ chunk' = chunk /\ built' = built /\ status' = status
  BY <1>1 DEF UInv, IInv, Shapes, Lefts, GetLocPtr, Resting, Using, Building, Deleting, NoPtr
<1>3. CASE status[r.chunk] = "ALLOCATED" /\ Granted(t, r)
  BY <1>1, <1>2, <1>3, GrantedRest
<1>4. CASE call' = [call EXCEPT ![t] = [r EXCEPT !.at = "spin"]] /\ glue' = glue
  <2>1. call'[t] = [r EXCEPT !.at = "spin"] /\ \A u \in Threads : u # t => call'[u] = call[u]
    BY <1>4 DEF UInv, IInv, Typed
  <2>2. call'[t].at = "spin" /\ call'[t].left = 0 /\ call'[t].then = r.then  BY <1>2, <2>1 DEF Calls
  <2>3. Lefts' /\ RunsOK' /\ Builds'  BY <1>1, <1>2, <2>1, <2>2, CallRest
  <2>4. Voids'  BY <1>4 DEF UInv, Voids, Exists, Marked
  <2> QED  BY <2>3, <2>4 DEF Rest
<1> QED  BY <1>1, <1>3, <1>4 DEF GetLocPtr, Continue

\* An idle thread begins a call that deletes nothing.
LEMMA BeginRest ==
    ASSUME UInv, NEW t \in Threads, call[t].at = "idle", NEW n \in Calls,
           call' = [call EXCEPT ![t] = n], chunk' = chunk, built' = built,
           n.at \in {"idle", "setUse", "prepareUse", "getLocPtr"},
           n.then \notin {"construct", "destruct"} \/ (n.then = "construct" /\ n.at = "setUse" /\ n.left = 1),
           n.at # "setUse" => n.left = 0,
           \A c \in Chunks : status[c] = "ALLOCATED" => status'[c] = "ALLOCATED"
    PROVE  Lefts' /\ RunsOK' /\ Builds'
<1>1. call'[t] = n /\ \A u \in Threads : u # t => call'[u] = call[u]
  BY DEF UInv, IInv, Typed
<1>2. call[t].then \notin {"construct", "destruct"}
  BY DEF UInv, IInv, Shapes, Resting, Using, Building, Deleting
<1>3. n.at \in {"idle", "prepareUse", "getLocPtr", "spin"} => n.left = 0  OBVIOUS
<1>4. n.then \in {"construct", "destruct"} => n.left = IF n.at = "setUse" THEN 1 ELSE 0  OBVIOUS
<1>5. ~(call[t].then = "destruct" \/ call'[t].then = "destruct")  BY <1>1, <1>2
<1>6. call'[t].at \notin {"construct", "destruct"}  BY <1>1
<1> QED  BY <1>1, <1>3, <1>4, <1>5, <1>6, CallRest

\* Making a managedPtr keeps what else UInv says.
LEMMA CreateRest ==
    ASSUME UInv, NEW t \in Threads, NEW p \in Ptrs, NEW c \in Chunks, Create(t, p, c)
    PROVE  Rest'
<1> DEFINE n == [Idle EXCEPT !.at = "setUse", !.then = "construct", !.left = 1, !.ptr = p, !.chunk = c]
<1>1. n \in Calls /\ n.then = "construct" /\ n.at = "setUse" /\ n.left = 1
  <2>1. n \in Calls  BY CreateCall
  <2>2. n.glue = None /\ n.then = "construct" /\ n.at = "setUse" /\ n.left = 1  BY DEF Idle
  <2> QED  BY <2>1, <2>2
<1>2. /\ call[t].at = "idle" /\ call' = [call EXCEPT ![t] = n]
      /\ chunk' = chunk /\ glue' = glue /\ built' = built
      /\ status' = [status EXCEPT ![c] = "ALLOCATED"]
  BY DEF Create, Continue
<1>3. \A d \in Chunks : status[d] = "ALLOCATED" => status'[d] = "ALLOCATED"
  BY <1>2 DEF UInv, IInv, Typed
<1>4. Voids'  BY <1>2 DEF UInv, Voids, Exists, Marked
<1> HIDE DEF n
<1>5. Lefts' /\ RunsOK' /\ Builds'  BY <1>1, <1>2, <1>3, BeginRest
<1> QED  BY <1>4, <1>5 DEF Rest

\* Making an adhereTo keeps what else UInv says.
LEMMA AdhereRest ==
    ASSUME UInv, NEW t \in Threads, NEW g \in Glues, NEW p \in Ptrs, NEW load \in BOOLEAN,
           Adhere(t, g, p, load)
    PROVE  Rest'
<1> DEFINE e == [NoGlue EXCEPT !.data = p]
           b == [Idle EXCEPT !.at = "prepareUse", !.glue = g, !.chunk = chunk[p]]
<1>1. e.data # None  BY DEF NoGlue
<1>2. /\ call[t].at = "idle" /\ glue' = [glue EXCEPT ![g] = e]
      /\ chunk' = chunk /\ built' = built /\ status' = status
  BY DEF Adhere
<1>3. PICK n \in Calls : /\ call' = [call EXCEPT ![t] = n] /\ n.left = 0 /\ n.then = "none"
                         /\ n.at \in {"idle", "prepareUse"}
  <2>1. CASE call' = call
    <3>1. call' = [call EXCEPT ![t] = call[t]]  BY <2>1 DEF UInv, IInv, Typed
    <3>2. call[t] \in Calls /\ call[t].left = 0 /\ call[t].then = "none"
      BY <1>2 DEF UInv, IInv, Typed, Lefts, Shapes, Resting, Using, Building, Deleting
    <3> QED  BY <1>2, <3>1, <3>2
  <2>2. CASE chunk[p] # NULL /\ call' = [call EXCEPT ![t] = b]
    <3>1. chunk[p] \in Chunks  BY <2>2 DEF Adhere, Readable, Live, UInv, IInv, Typed
    <3>2. b \in Calls /\ b.left = 0 /\ b.at = "prepareUse" /\ b.then = "none"
      <4>1. b \in Calls  BY <3>1, IdleTyped DEF Calls, Stages
      <4>2. b.glue = g /\ b.left = 0 /\ b.at = "prepareUse" /\ b.then = "none"  BY DEF Idle
      <4> QED  BY <4>1, <4>2
    <3> HIDE DEF b
    <3> QED  BY <2>2, <3>2
  <2> QED  BY <2>1, <2>2 DEF Adhere, Continue
<1> HIDE DEF e
<1>4. Voids'
  <2>1. \A h \in Glues : glue'[h] = IF h = g THEN e ELSE glue[h]  BY <1>2 DEF UInv, IInv, Typed
  <2> QED  BY <1>1, <2>1 DEF UInv, Voids, Exists, Marked
<1>5. Lefts' /\ RunsOK' /\ Builds'  BY <1>2, <1>3, BeginRest
<1> QED  BY <1>4, <1>5 DEF Rest

\* Pulling through an adhereTo keeps what else UInv says.
LEMMA PullRest ==
    ASSUME UInv, NEW t \in Threads, NEW g \in Glues, NEW m \in Modes, Pull(t, g, m)
    PROVE  Rest'
<1>1. /\ call[t].at = "idle" /\ Exists(g)
      /\ chunk' = chunk /\ status' = status /\ built' = built
      /\ \E n \in Calls, e \in GlueTypes :
            /\ call' = [call EXCEPT ![t] = n] /\ glue' = [glue EXCEPT ![g] = e]
            /\ n.then = "pull" /\ e.data = glue[g].data
            /\ (n.at = "getLocPtr" /\ n.left = 0) \/ n.at = "setUse"
  BY PullMoves DEF UInv
<1>2. PICK n \in Calls, e \in GlueTypes :
            /\ call' = [call EXCEPT ![t] = n] /\ glue' = [glue EXCEPT ![g] = e]
            /\ n.then = "pull" /\ e.data = glue[g].data
            /\ (n.at = "getLocPtr" /\ n.left = 0) \/ n.at = "setUse"
  BY <1>1
<1>3. Voids'
  <2>1. \A h \in Glues : glue'[h] = IF h = g THEN e ELSE glue[h]  BY <1>2 DEF UInv, IInv, Typed
  <2> QED  BY <1>1, <1>2, <2>1 DEF UInv, Voids, Exists, Marked
<1>4. Lefts' /\ RunsOK' /\ Builds'  BY <1>1, <1>2, BeginRest
<1> QED  BY <1>3, <1>4 DEF Rest

\* Copying or assigning an adhereTo keeps what else UInv says.
LEMMA TakesAfterRest ==
    ASSUME UInv, NEW t \in Threads, NEW g \in Glues, NEW h \in Glues, NEW uses,
           TakesAfter(t, g, h, uses), call[t].at = "idle", Exists(h),
           chunk' = chunk, status' = status, built' = built
    PROVE  Rest'
<1>1. \E n \in Calls, e \in GlueTypes :
         /\ call' = [call EXCEPT ![t] = n] /\ glue' = [glue EXCEPT ![g] = e] /\ e.data # None
         /\ \/ n = call[t] /\ n.at = "idle"
            \/ n.at = "setUse" /\ n.then = "copy"
  BY TakesAfterMoves
<1>2. PICK n \in Calls, e \in GlueTypes :
         /\ call' = [call EXCEPT ![t] = n] /\ glue' = [glue EXCEPT ![g] = e] /\ e.data # None
         /\ \/ n = call[t] /\ n.at = "idle"
            \/ n.at = "setUse" /\ n.then = "copy"
  BY <1>1
<1>3. call[t].then = "none" /\ call[t].left = 0
  BY DEF UInv, IInv, Lefts, Shapes, Resting, Using, Building, Deleting
<1>4. Voids'
  <2>1. \A k \in Glues : glue'[k] = IF k = g THEN e ELSE glue[k]  BY <1>2 DEF UInv, IInv, Typed
  <2> QED  BY <1>2, <2>1 DEF UInv, Voids, Exists, Marked
<1>5. Lefts' /\ RunsOK' /\ Builds'  BY <1>2, <1>3, BeginRest
<1> QED  BY <1>4, <1>5 DEF Rest

\* Destroying an adhereTo keeps what else UInv says.
LEMMA DestroyAdhereToRest ==
    ASSUME UInv, NEW t \in Threads, NEW g \in Glues, DestroyAdhereTo(t, g)
    PROVE  Rest'
<1>1. /\ chunk' = chunk /\ call' = call /\ status' = status /\ built' = built
      /\ glue' = [glue EXCEPT ![g] = NoGlue]
  BY DEF DestroyAdhereTo
<1>2. ~NoGlue.loadedReadable /\ ~NoGlue.loadedWritable /\ NoGlue.loc = None  BY DEF NoGlue
<1>3. \A h \in Glues : glue'[h] = IF h = g THEN NoGlue ELSE glue[h]  BY <1>1 DEF UInv, IInv, Typed
<1>4. Voids'  BY <1>2, <1>3 DEF UInv, Voids, Exists, Marked
<1>5. Lefts' /\ RunsOK' /\ Builds'
  BY <1>1 DEF UInv, Lefts, RunsOK, Builds, Destructs
<1> QED  BY <1>4, <1>5 DEF Rest

\* A managedPtr at rest is bound to nothing, to no elements, or to what another refers to.
LEMMA RebindRest ==
    ASSUME UInv, NEW p \in Ptrs, PtrAtRest(p), NEW new,
           new \in Chunks => new \in built,
           chunk' = [chunk EXCEPT ![p] = new], UNCHANGED <<glue, status, built, call>>
    PROVE  Rest'
<1>1. glue' = glue /\ status' = status /\ built' = built /\ call' = call  OBVIOUS
<1>2. Lefts' /\ Voids' /\ RunsOK'  BY <1>1 DEF UInv, Lefts, Voids, RunsOK, Exists, Marked
<1>3. \A q \in Ptrs : chunk'[q] = IF q = p THEN new ELSE chunk[q]  BY DEF UInv, IInv, Typed
<1>4. Builds'  BY <1>1, <1>3 DEF UInv, Builds, Destructs
<1> QED  BY <1>2, <1>4 DEF Rest

\* Another managedPtr's chunk is built, unless it is being deleted.
LEMMA ReadableIsBuilt ==
    ASSUME UInv, NEW q \in Ptrs, Readable(q)
    PROVE  chunk[q] \in Chunks => chunk[q] \in built
BY DEF UInv, Builds, Destructs, Readable

\* Beginning a deletion keeps what else UInv says.
LEMMA DeleteRest ==
    ASSUME UInv, NEW t \in Threads, NEW p \in Ptrs, NEW q \in Ptrs \cup {None},
           call[t].at = "idle", PtrAtRest(p), chunk[p] \in Chunks, MDelete(t, p, q),
           UNCHANGED <<chunk, glue, status, built>>
    PROVE  Rest'
<1>1. chunk' = chunk /\ glue' = glue /\ status' = status /\ built' = built  OBVIOUS
<1>2. PICK n \in Calls :
              /\ call' = [call EXCEPT ![t] = n]
              /\ n.then = "destruct" /\ n.ptr = p /\ n.chunk = chunk[p]
              /\ n.at = IF chunk[p] \in Classes THEN "setUse" ELSE "mfree"
              /\ n.left = IF chunk[p] \in Classes THEN 1 ELSE 0
  BY DeleteCall
<1>3. call'[t] = n /\ \A u \in Threads : u # t => call'[u] = call[u]
  BY <1>2 DEF UInv, IInv, Typed
<1>4. call[t].then # "destruct"
  BY DEF UInv, IInv, Shapes, Resting, Using, Building, Deleting
<1>5. Voids'  BY <1>1 DEF UInv, Voids, Exists, Marked
<1>6. Lefts'  BY <1>2, <1>3 DEF UInv, Lefts
<1>7. RunsOK'  BY <1>1, <1>2, <1>3 DEF UInv, RunsOK
<1>8. chunk[p] \in built  BY DEF UInv, Builds, Destructs, PtrAtRest
<1>9. \A u \in Threads, x \in Ptrs : Destructs(u, x) => Destructs(u, x)'
  BY <1>3, <1>4 DEF Destructs
<1>10. Builds'
  <2>1. \A x \in Ptrs :
           chunk'[x] \in Chunks /\ (\A u \in Threads : ~Destructs(u, x)') => chunk'[x] \in built'
    BY <1>1, <1>9 DEF UInv, Builds
  <2>2. \A u \in Threads : call'[u].then = "destruct" =>
           IF call'[u].at = "mfree" THEN call'[u].chunk \in Classes => call'[u].chunk \notin built'
           ELSE call'[u].chunk \in built'
    BY <1>1, <1>2, <1>3, <1>8 DEF UInv, Builds
  <2> QED  BY <1>1, <2>1, <2>2 DEF UInv, Builds
<1> QED  BY <1>5, <1>6, <1>7, <1>10 DEF Rest

\* Making an empty managedPtr keeps what else UInv says.
LEMMA CreateEmptyRest ==
    ASSUME UInv, NEW t \in Threads, NEW p \in Ptrs, CreateEmpty(t, p)
    PROVE  Rest'
BY RebindRest DEF CreateEmpty

\* Copying a managedPtr keeps what else UInv says.
LEMMA CopyRest ==
    ASSUME UInv, NEW t \in Threads, NEW p \in Ptrs, NEW q \in Ptrs, Copy(t, p, q)
    PROVE  Rest'
<1>1. chunk[q] \in Chunks => chunk[q] \in built  BY ReadableIsBuilt DEF Copy
<1> QED  BY <1>1, RebindRest DEF Copy

\* Destroying a managedPtr keeps what else UInv says.
LEMMA DestroyRest ==
    ASSUME UInv, NEW t \in Threads, NEW p \in Ptrs, Destroy(t, p)
    PROVE  Rest'
<1>1. /\ call[t].at = "idle" /\ Live(p) /\ PtrAtRest(p) /\ UNCHANGED <<glue, status, built>>
      /\ \/ chunk' = [chunk EXCEPT ![p] = None] /\ UNCHANGED call
         \/ chunk[p] # NULL /\ MDelete(t, p, None) /\ UNCHANGED chunk
  BY DEF Destroy
<1>2. CASE chunk' = [chunk EXCEPT ![p] = None] /\ UNCHANGED call
  BY <1>1, <1>2, RebindRest
<1>3. CASE chunk[p] # NULL /\ MDelete(t, p, None) /\ UNCHANGED chunk
  <2>1. chunk[p] \in Chunks  BY <1>1, <1>3 DEF Live, UInv, IInv, Typed
  <2> QED  BY <1>1, <1>3, <2>1, DeleteRest
<1> QED  BY <1>1, <1>2, <1>3

\* Assigning a managedPtr keeps what else UInv says.
LEMMA AssignRest ==
    ASSUME UInv, NEW t \in Threads, NEW p \in Ptrs, NEW q \in Ptrs, Assign(t, p, q)
    PROVE  Rest'
<1>1. /\ call[t].at = "idle" /\ Live(p) /\ PtrAtRest(p) /\ Readable(q)
      /\ UNCHANGED <<glue, status, built>>
      /\ \/ chunk' = [chunk EXCEPT ![p] = chunk[q]] /\ UNCHANGED call
         \/ chunk[p] # NULL /\ MDelete(t, p, q) /\ UNCHANGED chunk
  BY DEF Assign
<1>2. CASE chunk' = [chunk EXCEPT ![p] = chunk[q]] /\ UNCHANGED call
  BY <1>1, <1>2, ReadableIsBuilt, RebindRest
<1>3. CASE chunk[p] # NULL /\ MDelete(t, p, q) /\ UNCHANGED chunk
  <2>1. chunk[p] \in Chunks  BY <1>1, <1>3 DEF Live, UInv, IInv, Typed
  <2> QED  BY <1>1, <1>3, <2>1, DeleteRest
<1> QED  BY <1>1, <1>2, <1>3

\* The constructor of the elements keeps what else UInv says.
LEMMA ConstructRest ==
    ASSUME UInv, NEW t \in Threads, Construct(t)
    PROVE  Rest'
<1>1. PICK r \in Calls : r = call[t]  BY DEF UInv, IInv, Typed
<1>2. /\ r.at = "construct" /\ r.then = "construct" /\ r.ptr \in Ptrs /\ r.chunk \in Chunks
      /\ call' = [call EXCEPT ![t] = Idle] /\ chunk' = [chunk EXCEPT ![r.ptr] = r.chunk]
      /\ built' = built \cup {r.chunk} /\ glue' = glue /\ status' = status
  BY <1>1 DEF UInv, IInv, Shapes, Construct, Return, Continue, Resting, Using, Deleting, Building
<1>3. call'[t] = Idle /\ \A u \in Threads : u # t => call'[u] = call[u]
  BY <1>2 DEF UInv, IInv, Typed
<1>4. Idle.at = "idle" /\ Idle.then = "none" /\ Idle.left = 0  BY DEF Idle
<1>5. Voids' /\ Lefts' /\ RunsOK'
  BY <1>2, <1>3, <1>4 DEF UInv, Voids, Exists, Marked, Lefts, RunsOK
<1>6. \A u \in Threads : call[u].then = "destruct" => call[u].chunk # r.chunk
  BY <1>1, <1>2, DeleterIsAlone
<1>7. Builds'
  <2>1. built' \subseteq Chunks  BY <1>2 DEF UInv, Builds
  <2>2. ASSUME NEW p \in Ptrs, chunk'[p] \in Chunks, \A u \in Threads : ~Destructs(u, p)'
        PROVE  chunk'[p] \in built'
    <3>1. chunk'[p] = IF p = r.ptr THEN r.chunk ELSE chunk[p]  BY <1>2 DEF UInv, IInv, Typed
    <3>2. \A u \in Threads : ~Destructs(u, p)  BY <1>1, <1>2, <1>3, <2>2 DEF Destructs
    <3> QED  BY <1>2, <2>2, <3>1, <3>2 DEF UInv, Builds
  <2>3. \A u \in Threads : call'[u].then = "destruct" =>
           IF call'[u].at = "mfree" THEN call'[u].chunk \in Classes => call'[u].chunk \notin built'
           ELSE call'[u].chunk \in built'
    BY <1>2, <1>3, <1>4, <1>6 DEF UInv, Builds
  <2> QED  BY <2>1, <2>2, <2>3 DEF Builds
<1> QED  BY <1>5, <1>7 DEF Rest

\* The destructor of the elements keeps what else UInv says.
LEMMA DestructRest ==
    ASSUME UInv, NEW t \in Threads, Destruct(t)
    PROVE  Rest'
<1>1. PICK r \in Calls : r = call[t]  BY DEF UInv, IInv, Typed
<1> DEFINE n == [r EXCEPT !.at = "mfree"]
<1>2. /\ r.at = "destruct" /\ r.then = "destruct" /\ r.left = 0 /\ r.chunk \in Chunks
      /\ call' = [call EXCEPT ![t] = n] /\ built' = built \ {r.chunk}
      /\ chunk' = chunk /\ glue' = glue /\ status' = status
  BY <1>1 DEF UInv, IInv, Shapes, Lefts, Destruct, Continue, Resting, Using, Building, Deleting
<1>3. /\ n.at = "mfree" /\ n.then = "destruct" /\ n.left = 0 /\ n.chunk = r.chunk /\ n.ptr = r.ptr
  BY <1>2 DEF Calls
<1>4. call'[t] = n /\ \A u \in Threads : u # t => call'[u] = call[u]
  BY <1>2 DEF UInv, IInv, Typed
<1> HIDE DEF n
<1>5. Voids' /\ Lefts' /\ RunsOK'
  BY <1>2, <1>3, <1>4 DEF UInv, Voids, Exists, Marked, Lefts, RunsOK
<1>6. /\ \A p \in Ptrs : ~Owns(p, r.chunk)
      /\ \A u \in Threads : u # t /\ call[u].then = "destruct" => call[u].chunk # r.chunk
  BY <1>1, <1>2, DeleterIsAlone
<1>7. Builds'
  <2>1. built' \subseteq Chunks  BY <1>2 DEF UInv, Builds
  <2>2. ASSUME NEW p \in Ptrs, chunk'[p] \in Chunks, \A u \in Threads : ~Destructs(u, p)'
        PROVE  chunk'[p] \in built'
    <3>1. \A u \in Threads : ~Destructs(u, p)  BY <1>1, <1>2, <1>3, <1>4, <2>2 DEF Destructs
    <3>2. chunk[p] # r.chunk  BY <1>6, <3>1 DEF Owns, Destructs
    <3> QED  BY <1>2, <2>2, <3>1, <3>2 DEF UInv, Builds
  <2>3. \A u \in Threads : call'[u].then = "destruct" =>
           IF call'[u].at = "mfree" THEN call'[u].chunk \in Classes => call'[u].chunk \notin built'
           ELSE call'[u].chunk \in built'
    BY <1>2, <1>3, <1>4, <1>6 DEF UInv, Builds
  <2> QED  BY <2>1, <2>2, <2>3 DEF Builds
<1> QED  BY <1>5, <1>7 DEF Rest

\* mfree keeps what else UInv says.
LEMMA MFreeRest ==
    ASSUME UInv, NEW t \in Threads, MFree(t)
    PROVE  Rest'
<1>1. PICK r \in Calls : r = call[t]  BY DEF UInv, IInv, Typed
<1> DEFINE new == IF r.ref = None THEN None ELSE chunk[r.ref]
<1>2. /\ r.at = "mfree" /\ r.then = "destruct" /\ r.chunk \in Chunks /\ r.ptr \in Ptrs
      /\ call' = [call EXCEPT ![t] = Idle] /\ built' = built \ {r.chunk}
      /\ chunk' = [chunk EXCEPT ![r.ptr] = new] /\ glue' = glue
      /\ status' = [status EXCEPT ![r.chunk] = "NONE"]
  BY <1>1 DEF UInv, IInv, Shapes, MFree, Return, Continue, Resting, Using, Building, Deleting
<1>3. /\ new # r.chunk
      /\ new \in Chunks => new \in built
  <2>1. CASE r.ref = None  BY <1>2, <2>1
  <2>2. CASE r.ref # None
    <3>1. r.ref \in Ptrs /\ chunk[r.ref] # r.chunk
      BY <1>1, <1>2, <2>2 DEF Calls, UInv, IInv, Jobs
    <3>2. \A u \in Threads : ~Destructs(u, r.ref)
      <4>1. chunk[r.ptr] = r.chunk  BY <1>1, <1>2 DEF UInv, IInv, Jobs
      <4>2. r.ref # r.ptr  BY <3>1, <4>1
      <4>3. \A u \in Threads : u # t => ~Destructs(u, r.ref)
        BY <1>1, <2>2, <3>1 DEF Destructs, UInv, IInv, Apart
      <4> QED  BY <1>1, <4>2, <4>3 DEF Destructs
    <3> QED  BY <2>2, <3>1, <3>2 DEF UInv, Builds
  <2> QED  BY <2>1, <2>2
<1> HIDE DEF new
<1>4. call'[t] = Idle /\ \A u \in Threads : u # t => call'[u] = call[u]
  BY <1>2 DEF UInv, IInv, Typed
<1>5. Idle.at = "idle" /\ Idle.then = "none" /\ Idle.left = 0  BY DEF Idle
<1>6. /\ \A p \in Ptrs : ~Owns(p, r.chunk)
      /\ \A u \in Threads : u # t /\ call[u].then \in {"construct", "destruct"} => call[u].chunk # r.chunk
  BY <1>1, <1>2, DeleterIsAlone
<1>7. Voids' /\ Lefts'
  BY <1>2, <1>4, <1>5 DEF UInv, Voids, Exists, Marked, Lefts
<1>8. RunsOK'
  <2>1. \A u \in Threads : call[u].at \in {"construct", "destruct"} => call[u].then \in {"construct", "destruct"}
    BY DEF UInv, IInv, Shapes, Resting, Using, Building, Deleting
  <2> QED  BY <1>2, <1>4, <1>5, <1>6, <2>1 DEF UInv, IInv, Typed, RunsOK
<1>9. Builds'
  <2>1. built' \subseteq Chunks  BY <1>2 DEF UInv, Builds
  <2>2. ASSUME NEW p \in Ptrs, chunk'[p] \in Chunks, \A u \in Threads : ~Destructs(u, p)'
        PROVE  chunk'[p] \in built'
    <3>1. chunk'[p] = IF p = r.ptr THEN new ELSE chunk[p]  BY <1>2 DEF UInv, IInv, Typed
    <3>2. CASE p = r.ptr  BY <1>2, <1>3, <2>2, <3>1, <3>2
    <3>3. CASE p # r.ptr
      <4>1. \A u \in Threads : ~Destructs(u, p)  BY <1>1, <1>4, <2>2, <3>3 DEF Destructs
      <4>2. chunk[p] # r.chunk  BY <1>6, <4>1 DEF Owns, Destructs
      <4> QED  BY <1>2, <2>2, <3>1, <3>3, <4>1, <4>2 DEF UInv, Builds
    <3> QED  BY <3>2, <3>3
  <2>3. \A u \in Threads : call'[u].then = "destruct" =>
           IF call'[u].at = "mfree" THEN call'[u].chunk \in Classes => call'[u].chunk \notin built'
           ELSE call'[u].chunk \in built'
    BY <1>2, <1>4, <1>5, <1>6 DEF UInv, Builds
  <2> QED  BY <2>1, <2>2, <2>3 DEF Builds
<1> QED  BY <1>7, <1>8, <1>9 DEF Rest

-----------------------------------------------------------------------------
(* The theorems *)

\* The use invariant holds initially.
LEMMA UInvInit == Init => UInv
<1> SUFFICES ASSUME Init PROVE UInv  OBVIOUS
<1>1. /\ chunk = [p \in Ptrs |-> None] /\ useCnt = [c \in Chunks |-> 0]
      /\ glue = [g \in Glues |-> NoGlue] /\ built = {} /\ call = [t \in Threads |-> Idle]
  BY DEF Init
<1>2. IInv  BY InitIInv
<1>3. /\ Idle.at = "idle" /\ Idle.then = "none" /\ Idle.left = 0 /\ Idle.glue = None
      /\ \A x : Awaits(Idle, x) = 0 /\ Runs(Idle, x) = 0
  BY DEF Idle, Awaits, Runs
<1>4. NoGlue.data = None /\ ~NoGlue.loadedReadable /\ ~NoGlue.loadedWritable /\ NoGlue.loc = None
  BY DEF NoGlue
<1>5. RoomsOK /\ Lefts /\ Voids /\ RunsOK /\ Builds
  BY <1>1, <1>3, <1>4 DEF RoomsOK, Lefts, Voids, RunsOK, Builds, Exists, Marked
<1>6. UsesOK
  <2>1. \A x : Waiting(x) = 0 /\ Running(x) = 0
    <3> SUFFICES ASSUME NEW x PROVE Waiting(x) = 0 /\ Running(x) = 0
      OBVIOUS
    <3> DEFINE a == [t \in Threads |-> Awaits(call[t], x)]
               r == [t \in Threads |-> Runs(call[t], x)]
    <3>1. \A t \in Threads : a[t] = 0 /\ r[t] = 0  BY <1>1, <1>3
    <3>2. Waiting(x) = SumOver(a, Threads) /\ Running(x) = SumOver(r, Threads)
      BY DEF Waiting, Running
    <3> HIDE DEF a, r
    <3> QED  BY <3>1, <3>2, SumZero
  <2>2. \A c : Held(c) = 0
    <3> SUFFICES ASSUME NEW c PROVE Held(c) = 0
      OBVIOUS
    <3> DEFINE f == [g \in Glues |-> Taken(g, c)]
    <3>1. \A g \in Glues : f[g] = 0  BY <1>1, <1>4 DEF Taken, Exists
    <3>2. Held(c) = SumOver(f, Glues)  BY DEF Held
    <3> HIDE DEF f
    <3> QED  BY <3>1, <3>2, SumZero
  <2>3. \A g \in Glues : Loaded(g) \in 0..2  BY <1>2, LoadedMarked DEF IInv
  <2> QED  BY <1>1, <2>1, <2>2, <2>3 DEF UsesOK
<1> QED  BY <1>2, <1>5, <1>6 DEF UInv

\* Every step keeps the use invariant.
LEMMA UInvNext == UInv /\ [Next]_vars => UInv'
<1> SUFFICES ASSUME UInv, [Next]_vars PROVE UInv'  OBVIOUS
<1>1. IInv'  BY NextIInv DEF UInv
<1>2. (UsesOK' /\ RoomsOK') /\ Rest'
  <2>1. CASE UNCHANGED vars
    <3>1. chunk' = chunk /\ glue' = glue /\ useCnt' = useCnt /\ call' = call  BY <2>1 DEF vars
    <3> QED  BY <2>1, <3>1, QuietUses, QuietRest
  <2>2. ASSUME NEW c \in Chunks, SwapOut(c) PROVE (UsesOK' /\ RoomsOK') /\ Rest'
    BY <2>2, QuietUses, SwapOutRest DEF SwapOut
  <2>3. ASSUME NEW t \in Threads,
               SetUse(t) \/ SwapIn(t) \/ Construct(t) \/ Destruct(t) \/ MFree(t) \/ GetLocPtr(t)
        PROVE  (UsesOK' /\ RoomsOK') /\ Rest'
    BY <1>1, <2>3, SetUseUses, SwapInUses, ConstructUses, DestructUses, MFreeUses, GetLocPtrUses,
       SetUseRest, SwapInRest, ConstructRest, DestructRest, MFreeRest, GetLocPtrRest
  <2>4. ASSUME NEW t \in Threads, NEW p \in Ptrs, CreateEmpty(t, p) \/ Destroy(t, p)
        PROVE  (UsesOK' /\ RoomsOK') /\ Rest'
    BY <1>1, <2>4, CreateEmptyUses, DestroyUses, CreateEmptyRest, DestroyRest
  <2>5. ASSUME NEW t \in Threads, NEW p \in Ptrs, NEW c \in Chunks, Create(t, p, c)
        PROVE  (UsesOK' /\ RoomsOK') /\ Rest'
    BY <1>1, <2>5, CreateUses, CreateRest
  <2>6. ASSUME NEW t \in Threads, NEW p \in Ptrs, NEW q \in Ptrs, Copy(t, p, q) \/ Assign(t, p, q)
        PROVE  (UsesOK' /\ RoomsOK') /\ Rest'
    BY <1>1, <2>6, CopyUses, AssignUses, CopyRest, AssignRest
  <2>7. ASSUME NEW t \in Threads, NEW g \in Glues, NEW p \in Ptrs, NEW load \in BOOLEAN,
               Adhere(t, g, p, load)
        PROVE  (UsesOK' /\ RoomsOK') /\ Rest'
    BY <1>1, <2>7, AdhereUses, AdhereRest
  <2>8. ASSUME NEW t \in Threads, NEW g \in Glues, NEW m \in Modes, Pull(t, g, m)
        PROVE  (UsesOK' /\ RoomsOK') /\ Rest'
    BY <1>1, <2>8, PullUses, PullRest
  <2>9. ASSUME NEW t \in Threads, NEW g \in Glues, NEW h \in Glues,
               CopyAdhereTo(t, g, h) \/ AssignAdhereTo(t, g, h)
        PROVE  (UsesOK' /\ RoomsOK') /\ Rest'
    <3>1. Rest'  BY <2>9, TakesAfterRest DEF CopyAdhereTo, AssignAdhereTo
    <3> QED  BY <1>1, <2>9, <3>1, TakesAfterUses
  <2>10. ASSUME NEW t \in Threads, NEW g \in Glues, DestroyAdhereTo(t, g)
         PROVE  (UsesOK' /\ RoomsOK') /\ Rest'
    BY <1>1, <2>10, DestroyAdhereToUses, DestroyAdhereToRest
  <2> QED
    BY <2>1, <2>2, <2>3, <2>4, <2>5, <2>6, <2>7, <2>8, <2>9, <2>10 DEF Next
<1> QED  BY <1>1, <1>2 DEF UInv, Rest

\* UInv is inductive, whether or not threads share an adhereTo.
THEOREM UInvHolds == Spec => []UInv
BY UInvInit, UInvNext, PTL DEF Spec

\* The variables keep their types; the use counts stay at or above zero.
THEOREM TypesHold == Spec => []TypeOK
<1>1. UInv => TypeOK
  BY DEF UInv, IInv, Typed, UsesOK, Builds, TypeOK, GlueTypes, Calls
<1> QED  BY <1>1, UInvHolds, PTL

\* mfree meets no chunk in use, and elements are destroyed once, before they are freed: this
\* holds even where threads pull from one adhereTo at the same time.
THEOREM ChunksDeletedOnce == Spec => []DeletedOnce
<1>1. UInv => DeletedOnce
  <2> SUFFICES ASSUME UInv, NEW t \in Threads
               PROVE  /\ call[t].at = "mfree" => /\ useCnt[call[t].chunk] = 0
                                                 /\ call[t].chunk \in Classes => call[t].chunk \notin built
                      /\ call[t].at = "destruct" => call[t].chunk \in built
    BY DEF DeletedOnce
  <2>1. call[t].at \in {"mfree", "destruct"} => call[t].then = "destruct"
    BY DEF UInv, IInv, Shapes, Resting, Using, Building, Deleting
  <2> QED  BY <2>1, FreedIsUnused DEF UInv, Builds
<1> QED  BY <1>1, UInvHolds, PTL

\* The sums of UseExact are sums of functions.
LEMMA SumOfLoaded ==
    ASSUME NEW S \in SUBSET Glues
    PROVE  MapThenSumSet(LAMBDA g : Loaded(g), S) = SumOver([g \in Glues |-> Loaded(g)], S)
<1> DEFINE f == [g \in Glues |-> Loaded(g)]
           ByLoaded(h) == h = [s \in SUBSET S |-> IF s = {} THEN 0
                                                  ELSE Loaded(First(s)) + h[s \ {First(s)}]]
<1>1. MapThenSumSet(LAMBDA g : Loaded(g), S) = (CHOOSE h : ByLoaded(h))[S]
  BY DEF MapThenSumSet, MapThenFoldSet, First
<1>2. IsFiniteSet(S)  BY FS_Subset
<1>3. ASSUME NEW h PROVE ByLoaded(h) <=> Sums(h, f, SUBSET S)
  <2>1. \A s \in SUBSET S : s # {} => f[First(s)] = Loaded(First(s))
    BY DEF First
  <2> HIDE DEF f
  <2>2. [s \in SUBSET S |-> IF s = {} THEN 0 ELSE Loaded(First(s)) + h[s \ {First(s)}]]
          = [s \in SUBSET S |-> IF s = {} THEN 0 ELSE f[First(s)] + h[s \ {First(s)}]]
    BY <2>1
  <2> QED  BY <2>2 DEF Sums
<1> HIDE DEF f, ByLoaded
<1>4. \E h : ByLoaded(h)  BY <1>2, <1>3, SumsExists
<1>5. Sums(CHOOSE h : ByLoaded(h), f, SUBSET S)  BY <1>3, <1>4
<1>6. SumOver(f, S) = (CHOOSE h : ByLoaded(h))[S]  BY <1>2, <1>5, SumIsSums
<1> QED  BY <1>1, <1>6 DEF f

\* The fold over the uses that calls have left is a sum.
LEMMA SumOfLeft ==
    ASSUME NEW S \in SUBSET Threads
    PROVE  MapThenSumSet(LAMBDA t : call[t].left, S) = SumOver([t \in Threads |-> call[t].left], S)
<1> DEFINE f == [t \in Threads |-> call[t].left]
           ByLeft(h) == h = [s \in SUBSET S |-> IF s = {} THEN 0
                                                ELSE call[First(s)].left + h[s \ {First(s)}]]
<1>1. MapThenSumSet(LAMBDA t : call[t].left, S) = (CHOOSE h : ByLeft(h))[S]
  BY DEF MapThenSumSet, MapThenFoldSet, First
<1>2. IsFiniteSet(S)  BY FS_Subset
<1>3. ASSUME NEW h PROVE ByLeft(h) <=> Sums(h, f, SUBSET S)
  <2>1. \A s \in SUBSET S : s # {} => f[First(s)] = call[First(s)].left
    BY DEF First
  <2> HIDE DEF f
  <2>2. [s \in SUBSET S |-> IF s = {} THEN 0 ELSE call[First(s)].left + h[s \ {First(s)}]]
          = [s \in SUBSET S |-> IF s = {} THEN 0 ELSE f[First(s)] + h[s \ {First(s)}]]
    BY <2>1
  <2> QED  BY <2>2 DEF Sums
<1> HIDE DEF f, ByLeft
<1>4. \E h : ByLeft(h)  BY <1>2, <1>3, SumsExists
<1>5. Sums(CHOOSE h : ByLeft(h), f, SUBSET S)  BY <1>3, <1>4
<1>6. SumOver(f, S) = (CHOOSE h : ByLeft(h))[S]  BY <1>2, <1>5, SumIsSums
<1> QED  BY <1>1, <1>6 DEF f

\* The adhereTos to a chunk and the threads that have uses of it to take.
Of(c)     == {g \in Glues : Exists(g) /\ ChunkOf(g) = c}
Coming(c) == {t \in Threads : call[t].chunk = c /\ call[t].glue # None}

\* What is awaited for the adhereTos to a chunk is what the threads coming for it have left.
LEMMA AwaitedByGlueAndThread ==
    ASSUME UInv, NEW c \in Chunks
    PROVE  SumOver([g \in Glues |-> IF g \in Of(c) THEN Waiting(g) ELSE 0], Glues)
             = SumOver([t \in Threads |-> call[t].left], Coming(c))
<1> DEFINE m     == [g \in Glues |-> [t \in Threads |-> IF g \in Of(c) THEN Awaits(call[t], g) ELSE 0]]
           row   == [g \in Glues |-> SumOver(m[g], Threads)]
           awt   == [g \in Glues |-> IF g \in Of(c) THEN Waiting(g) ELSE 0]
           col(t) == [g \in Glues |-> m[g][t]]
           left  == [t \in Threads |-> call[t].left]
           part  == [t \in Threads |-> IF t \in Coming(c) THEN left[t] ELSE 0]
<1>1. \A t \in Threads : call[t] \in Calls  BY DEF UInv, IInv, Typed
<1>2. \A t \in Threads : left[t] \in 0..2 /\ part[t] \in 0..2  BY <1>1 DEF Calls
<1>3. \A g \in Glues, t \in Threads : m[g][t] \in 0..2  BY <1>1, CallCounts
<1>4. \A g \in Glues : awt[g] = row[g]
  <2> SUFFICES ASSUME NEW g \in Glues PROVE awt[g] = SumOver(m[g], Threads)
    OBVIOUS
  <2> DEFINE a == [t \in Threads |-> Awaits(call[t], g)]
  <2>1. CASE g \in Of(c)
    <3>1. m[g] = a /\ awt[g] = Waiting(g)  BY <2>1
    <3>2. Waiting(g) = SumOver(a, Threads)  BY DEF Waiting
    <3> HIDE DEF a, m, awt
    <3> QED  BY <3>1, <3>2
  <2>2. CASE g \notin Of(c)
    <3>1. awt[g] = 0 /\ \A t \in Threads : m[g][t] = 0  BY <2>2
    <3> HIDE DEF m, awt
    <3> QED  BY <3>1, SumZero
  <2> QED  BY <2>1, <2>2
<1>5. ASSUME NEW t \in Threads PROVE SumOver(col(t), Glues) = part[t]
  <2>1. CASE t \in Coming(c)
    <3>1. PICK x \in Glues : x = call[t].glue /\ x \in Of(c)
      BY <1>1, <2>1 DEF Coming, Of, Calls, UInv, IInv, Adhering
    <3>2. col(t)[x] = call[t].left /\ \A g \in Glues : g # x => col(t)[g] = 0
      BY <3>1 DEF Awaits
    <3>3. part[t] = call[t].left /\ call[t].left \in 0..2  BY <1>2, <2>1
    <3> HIDE DEF col, part
    <3> QED  BY <3>2, <3>3, SumOnly
  <2>2. CASE t \notin Coming(c)
    <3>1. \A g \in Of(c) : call[t].glue # g
      BY <2>2 DEF Coming, Of, UInv, IInv, Adhering
    <3>2. \A g \in Glues : col(t)[g] = 0  BY <3>1 DEF Awaits
    <3>3. part[t] = 0  BY <2>2
    <3> HIDE DEF col, part
    <3> QED  BY <3>2, <3>3, SumZero
  <2> QED  BY <2>1, <2>2
<1>6. SumOver(row, Glues) = SumOver([t \in Threads |-> SumOver(col(t), Glues)], Threads)
  <2>1. \A g \in Glues, t \in Threads : m[g][t] \in Int  BY <1>3
  <2> HIDE DEF m
  <2>2. SumOver([g \in Glues |-> SumOver(m[g], Threads)], Glues)
          = SumOver([t \in Threads |-> SumOver([g \in Glues |-> m[g][t]], Glues)], Threads)
    <3> HIDE DEF row, col
    <3> QED  BY <2>1, SumByColumns, ZenonT(60)
  <2> QED  BY <2>2
<1>7. SumOver([t \in Threads |-> SumOver(col(t), Glues)], Threads) = SumOver(part, Threads)
  <2> HIDE DEF col, part
  <2> QED  BY <1>5, SumSame
<1>8. SumOver(awt, Glues) = SumOver(row, Glues)
  <2> HIDE DEF awt, row
  <2> QED  BY <1>4, SumSame
<1>9. SumOver(part, Threads) = SumOver(left, Coming(c))
  <2>1. Coming(c) \in SUBSET Threads /\ IsFiniteSet(Coming(c))  BY FS_Subset DEF Coming
  <2>2. \A t \in Threads : part[t] \in Int /\ (t \in Coming(c) => part[t] = left[t])
                           /\ (t \notin Coming(c) => part[t] = 0)
    BY <1>2
  <2> HIDE DEF part, left
  <2>3. SumOver(part, Threads) = SumOver(part, Coming(c))  BY <2>1, <2>2, SumSupport
  <2>4. SumOver(part, Coming(c)) = SumOver(left, Coming(c))  BY <2>1, <2>2, SumSame
  <2> QED  BY <2>3, <2>4
<1> HIDE DEF row, awt, col, left, part, m
<1>10. SumOver(awt, Glues) = SumOver(left, Coming(c))  BY <1>6, <1>7, <1>8, <1>9
<1> QED  BY <1>10 DEF awt, left

\* What the adhereTos to a chunk have marked is what they hold and what is awaited for them.
LEMMA HeldAndAwaited ==
    ASSUME UInv, NEW c \in Chunks
    PROVE  /\ SumOver([g \in Glues |-> Loaded(g)], Of(c))
                = Held(c) + SumOver([g \in Glues |-> IF g \in Of(c) THEN Waiting(g) ELSE 0], Glues)
           /\ SumOver([g \in Glues |-> IF g \in Of(c) THEN Waiting(g) ELSE 0], Glues) \in Nat
           /\ Held(c) \in Nat
<1> DEFINE took == [g \in Glues |-> Taken(g, c)]
           awt  == [g \in Glues |-> IF g \in Of(c) THEN Waiting(g) ELSE 0]
           load == [g \in Glues |-> Loaded(g)]
           part == [g \in Glues |-> IF g \in Of(c) THEN Loaded(g) ELSE 0]
<1>1. \A g \in Glues : Waiting(g) \in Nat /\ Loaded(g) \in 0..2 /\ Taken(g, c) \in Nat
  BY SumsTyped, LoadedMarked, TakenTyped DEF UInv, IInv, UsesOK
<1>2. \A g \in Glues : /\ took[g] \in Nat /\ awt[g] \in Nat /\ part[g] \in Nat
                       /\ part[g] = took[g] + awt[g]
  BY <1>1 DEF Taken, Of
<1>3. /\ \A g \in Glues : g \notin Of(c) => part[g] = 0
      /\ \A g \in Of(c) : part[g] = load[g]
      /\ Of(c) \in SUBSET Glues /\ IsFiniteSet(Of(c))
  BY FS_Subset DEF Of
<1>4. Held(c) = SumOver(took, Glues)  BY DEF Held
<1> HIDE DEF took, awt, load, part
<1>5. SumOver(part, Glues) = SumOver(took, Glues) + SumOver(awt, Glues)  BY <1>2, SumPlus
<1>6. SumOver(part, Glues) = SumOver(part, Of(c))  BY <1>2, <1>3, SumSupport
<1>7. SumOver(part, Of(c)) = SumOver(load, Of(c))  BY <1>3, SumSame
<1>8. SumOver(awt, Glues) \in Nat /\ SumOver(took, Glues) \in Nat  BY <1>2, SumType
<1>9. SumOver(load, Of(c)) = Held(c) + SumOver(awt, Glues)  BY <1>4, <1>5, <1>6, <1>7
<1> QED  BY <1>4, <1>8, <1>9 DEF awt, load

\* The use count of a chunk is the number of uses that adhereTos, constructors and destructors
\* have of it: no sequence of pulls, copies, assignments and destructions, of one adhereTo by
\* many threads even, loses a use or leaves one behind.
THEOREM UsesAreExact == Spec => []UseExact
<1>1. UInv => UseExact
  <2> SUFFICES ASSUME UInv, NEW c \in Chunks
               PROVE  LET of      == {g \in Glues : Exists(g) /\ ChunkOf(g) = c}
                          coming  == {t \in Threads : call[t].chunk = c /\ call[t].glue # None}
                          running == {t \in Threads : /\ call[t].chunk = c
                                                      /\ call[t].at \in {"room", "construct", "destruct"}
                                                      /\ call[t].then \in {"construct", "destruct"}}
                      IN  useCnt[c] = MapThenSumSet(LAMBDA g : Loaded(g), of)
                                        - MapThenSumSet(LAMBDA t : call[t].left, coming)
                                        + Cardinality(running)
    BY DEF UseExact
  <2> DEFINE running == {t \in Threads : /\ call[t].chunk = c
                                         /\ call[t].at \in {"room", "construct", "destruct"}
                                         /\ call[t].then \in {"construct", "destruct"}}
  <2>1. MapThenSumSet(LAMBDA g : Loaded(g), Of(c)) = SumOver([g \in Glues |-> Loaded(g)], Of(c))
    <3>1. Of(c) \in SUBSET Glues  BY DEF Of
    <3> QED  BY <3>1, SumOfLoaded
  <2>2. MapThenSumSet(LAMBDA t : call[t].left, Coming(c)) = SumOver([t \in Threads |-> call[t].left], Coming(c))
    <3>1. Coming(c) \in SUBSET Threads  BY DEF Coming
    <3> QED  BY <3>1, SumOfLeft
  <2>3. Cardinality(running) = Running(c)
    <3> DEFINE r == [t \in Threads |-> Runs(call[t], c)]
    <3>1. \A t \in Threads : r[t] \in {0, 1}  BY DEF Runs
    <3>2. running = {t \in Threads : r[t] = 1}  BY DEF Runs
    <3>3. Running(c) = SumOver(r, Threads)  BY DEF Running
    <3> HIDE DEF r, running
    <3> QED  BY <3>1, <3>2, <3>3, SumCounts
  <2>4. Running(c) \in Nat /\ useCnt[c] = Held(c) + Running(c)
    BY SumsTyped DEF UInv, IInv, UsesOK
  <2> HIDE DEF running
  <2>5. SumOver([g \in Glues |-> Loaded(g)], Of(c))
          = Held(c) + SumOver([t \in Threads |-> call[t].left], Coming(c))
        /\ SumOver([t \in Threads |-> call[t].left], Coming(c)) \in Nat /\ Held(c) \in Nat
    BY HeldAndAwaited, AwaitedByGlueAndThread
  <2>6. useCnt[c] = SumOver([g \in Glues |-> Loaded(g)], Of(c))
                      - SumOver([t \in Threads |-> call[t].left], Coming(c)) + Cardinality(running)
    BY <2>3, <2>4, <2>5
  <2>7. useCnt[c] = MapThenSumSet(LAMBDA g : Loaded(g), Of(c))
                      - MapThenSumSet(LAMBDA t : call[t].left, Coming(c)) + Cardinality(running)
    BY <2>1, <2>2, <2>6
  <2> QED  BY <2>7 DEF Of, Coming, running
<1> QED  BY <1>1, UInvHolds, PTL

-----------------------------------------------------------------------------
(* Pointers, where no adhereTo is shared by threads *)

Holds(g) == Waiting(g) < Loaded(g)

\* One thread at most works on an adhereTo.
Alone == \A t, u \in Threads : t # u /\ call[t].glue # None => call[t].glue # call[u].glue

\* A call that found the adhereTo marked, and an address handed out, rest on a use taken.
LocsOK ==
    /\ \A t \in Threads : call[t].at \in {"getLocPtr", "spin"} => Holds(call[t].glue)
    /\ \A g \in Glues : glue[g].loc # None =>
          status[glue[g].loc] = "ALLOCATED" /\ glue[g].loc = ChunkOf(g) /\ Holds(g)

PInv == UInv /\ Alone /\ LocsOK

\* An adhereTo that has handed out an address has its chunk in use.
LEMMA ShownIsUsed ==
    ASSUME PInv, NEW g \in Glues, glue[g].loc # None
    PROVE  glue[g].loc \in Chunks /\ useCnt[glue[g].loc] > 0 /\ Marked(g)
<1>1. glue[g].loc = ChunkOf(g) /\ Holds(g)  BY DEF PInv, LocsOK
<1>2. Exists(g)  BY DEF PInv, UInv, Voids
<1>3. PICK c \in Chunks : c = glue[g].loc  BY DEF PInv, UInv, IInv, Typed, GlueTypes
<1>4. Loaded(g) \in 0..2 /\ Waiting(g) \in Nat /\ (Loaded(g) = 0 <=> ~Marked(g))
  BY LoadedMarked, SumsTyped DEF PInv, UInv, IInv
<1>5. Taken(g, c) > 0  BY <1>1, <1>2, <1>3, <1>4 DEF Taken, Holds
<1>6. useCnt[c] > 0  BY <1>5, UsedIsCounted DEF PInv
<1> QED  BY <1>1, <1>3, <1>4, <1>6 DEF Holds

\* A use is not given back while a thread works on the adhereTo or takes another.
LEMMA HoldsKept ==
    ASSUME UInv, UInv', NEW t \in Threads, \A u \in Threads : u # t => call'[u] = call[u],
           NEW g \in Glues, Holds(g),
           Loaded(g)' - Awaits(call'[t], g) >= Loaded(g) - Awaits(call[t], g)
    PROVE  Holds(g)'
<1>1. /\ Waiting(g) \in Nat /\ Waiting(g)' \in Nat
      /\ Waiting(g)' = Waiting(g) - Awaits(call[t], g) + Awaits(call'[t], g)
  BY OneCall DEF UInv, IInv
<1>2. Awaits(call[t], g) \in 0..2 /\ Awaits(call'[t], g) \in 0..2
  BY CallCounts DEF UInv, IInv, Typed
<1>3. Loaded(g) \in 0..2 /\ Loaded(g)' \in 0..2  BY LoadedMarked, LoadedMarkedNext DEF UInv, IInv
<1>4. Waiting(g) < Loaded(g)  BY DEF Holds
<1>5. Waiting(g)' < Loaded(g)'  BY <1>1, <1>2, <1>3, <1>4
<1> QED  BY <1>5 DEF Holds

\* A step that takes no share from an adhereTo with an address keeps the addresses right.
LEMMA PointersMove ==
    ASSUME PInv, UInv', NEW t \in Threads, \A u \in Threads : u # t => call'[u] = call[u],
           \/ call'[t].glue \in {None, call[t].glue}
           \/ call'[t].glue \in Glues /\ GlueAtRest(call'[t].glue),
           \A g \in Glues :
              \/ Loaded(g)' - Awaits(call'[t], g) >= Loaded(g) - Awaits(call[t], g)
              \/ GlueAtRest(g) /\ glue'[g].loc = None,
           call'[t].at \in {"getLocPtr", "spin"} => Holds(call[t].glue)',
           \A g \in Glues : glue'[g].loc # None =>
              \/ glue'[g].loc = glue[g].loc /\ (Marked(g) => ChunkOf(g)' = ChunkOf(g))
              \/ glue'[g].loc = ChunkOf(g)' /\ status'[glue'[g].loc] = "ALLOCATED" /\ Holds(g)',
           \A c \in Chunks : status[c] = "ALLOCATED" /\ useCnt[c] > 0 => status'[c] = "ALLOCATED"
    PROVE  PInv'
<1>1. Alone'  BY DEF PInv, Alone, GlueAtRest
<1>2. ASSUME NEW u \in Threads, call'[u].at \in {"getLocPtr", "spin"}
      PROVE  Holds(call[u].glue)'
  <2>1. CASE u = t  BY <1>2, <2>1
  <2>2. CASE u # t
    <3>1. Using(call[u])
      BY <1>2, <2>2 DEF PInv, UInv, IInv, Shapes, Resting, Building, Deleting
    <3>2. PICK g \in Glues : g = call[u].glue /\ g = call'[u].glue  BY <2>2, <3>1 DEF Using
    <3>3. Holds(g)  BY <1>2, <2>2, <3>2 DEF PInv, LocsOK
    <3>4. ~GlueAtRest(g)  BY <3>2 DEF GlueAtRest
    <3>5. Holds(g)'  BY <3>3, <3>4, HoldsKept DEF PInv
    <3> QED  BY <3>2, <3>5
  <2> QED  BY <2>1, <2>2
<1>3. ASSUME NEW g \in Glues, glue'[g].loc # None
      PROVE  status'[glue'[g].loc] = "ALLOCATED" /\ glue'[g].loc = ChunkOf(g)' /\ Holds(g)'
  <2>1. CASE glue'[g].loc = glue[g].loc /\ (Marked(g) => ChunkOf(g)' = ChunkOf(g))
    <3>1. glue[g].loc \in Chunks /\ useCnt[glue[g].loc] > 0 /\ Marked(g)
      BY <1>3, <2>1, ShownIsUsed
    <3>2. status[glue[g].loc] = "ALLOCATED" /\ glue[g].loc = ChunkOf(g) /\ Holds(g)
      BY <1>3, <2>1 DEF PInv, LocsOK
    <3>3. Holds(g)'  BY <1>3, <3>2, HoldsKept DEF PInv
    <3> QED  BY <2>1, <3>1, <3>2, <3>3
  <2>2. CASE glue'[g].loc = ChunkOf(g)' /\ status'[glue'[g].loc] = "ALLOCATED" /\ Holds(g)'
    BY <2>2
  <2> QED  BY <1>3, <2>1, <2>2
<1>4. LocsOK'  BY <1>2, <1>3 DEF LocsOK
<1> QED  BY <1>1, <1>4 DEF PInv

\* What Granted leaves of the sums, and what it hands out.
LEMMA GrantedPoints ==
    ASSUME PInv, UInv', NEW t \in Threads, NEW r \in Calls, Granted(t, r),
           r.glue = call[t].glue, r.chunk = call[t].chunk, r.left <= call[t].left,
           Using(r) \/ Building(r) \/ Deleting(r),
           chunk' = chunk, status'[r.chunk] = "ALLOCATED",
           \A c \in Chunks : status[c] = "ALLOCATED" => status'[c] = "ALLOCATED",
           r.then = "pull" =>
              \/ Holds(r.glue)
              \/ r.left < call[t].left
    PROVE  PInv'
<1>1. r.glue # None => r.glue \in Glues  BY DEF Calls
<1>2. PICK k \in Calls : k = call[t]  BY DEF PInv, UInv, IInv, Typed
<1>3. /\ \A u \in Threads : u # t => call'[u] = call[u]
      /\ call'[t] = IF r.left > 0 THEN [r EXCEPT !.at = "setUse"]
                    ELSE IF r.then \in {"construct", "destruct"} THEN [r EXCEPT !.at = r.then]
                    ELSE Idle
      /\ \A g \in Glues : /\ glue'[g].data = glue[g].data
                          /\ glue'[g].loadedReadable = glue[g].loadedReadable
                          /\ glue'[g].loadedWritable = glue[g].loadedWritable
                          /\ glue'[g].loc = IF r.then = "pull" /\ g = r.glue THEN r.chunk
                                            ELSE glue[g].loc
      /\ \A g \in Glues : Awaits(call'[t], g) = Awaits(r, g)
  BY <1>1, GrantedMoves DEF PInv, UInv, IInv
<1>4. \A g \in Glues : Loaded(g)' = Loaded(g)  BY <1>3, LoadedKept
<1>5. \A g \in Glues : Awaits(r, g) <= Awaits(call[t], g) /\ Awaits(r, g) \in 0..2 /\ Awaits(call[t], g) \in 0..2
  BY <1>2, CallCounts DEF Awaits, Calls
<1>6. \A g \in Glues : Loaded(g) \in 0..2  BY LoadedMarked DEF PInv, UInv, IInv
<1>7. \A g \in Glues : Loaded(g)' - Awaits(call'[t], g) >= Loaded(g) - Awaits(call[t], g)
  BY <1>3, <1>4, <1>5, <1>6
<1>8. call'[t].glue \in {None, call[t].glue} /\ call'[t].at \notin {"getLocPtr", "spin"}
  BY <1>3 DEF Idle, Calls
<1>9. \A g \in Glues : ChunkOf(g)' = ChunkOf(g)  BY <1>3 DEF ChunkOf
<1>10. ASSUME NEW g \in Glues, glue'[g].loc # None
       PROVE  \/ glue'[g].loc = glue[g].loc /\ (Marked(g) => ChunkOf(g)' = ChunkOf(g))
              \/ glue'[g].loc = ChunkOf(g)' /\ status'[glue'[g].loc] = "ALLOCATED" /\ Holds(g)'
  <2>1. CASE r.then = "pull" /\ g = r.glue
    <3>1. ChunkOf(g) = r.chunk  BY <2>1 DEF PInv, UInv, IInv, Adhering
    <3>2. Holds(g)'
      <4>1. CASE Holds(g)  BY <1>3, <1>7, <4>1, HoldsKept DEF PInv
      <4>2. CASE r.left < call[t].left
        <5>1. Awaits(call[t], g) = k.left /\ Awaits(call'[t], g) = r.left /\ k.left \in 0..2 /\ r.left \in 0..2
          BY <1>2, <1>3, <2>1 DEF Awaits, Calls
        <5>2. /\ Waiting(g) \in Nat /\ Waiting(g)' \in Nat
              /\ Waiting(g)' = Waiting(g) - Awaits(call[t], g) + Awaits(call'[t], g)
          BY <1>3, OneCall DEF PInv, UInv, IInv
        <5>3. Waiting(g) <= Loaded(g)  BY DEF PInv, UInv, UsesOK
        <5>4. Waiting(g)' < Loaded(g)'  BY <1>2, <1>4, <1>6, <4>2, <5>1, <5>2, <5>3
        <5> QED  BY <5>4 DEF Holds
      <4> QED  BY <2>1, <4>1, <4>2
    <3> QED  BY <1>3, <1>9, <2>1, <3>1, <3>2
  <2>2. CASE ~(r.then = "pull" /\ g = r.glue)  BY <1>3, <1>9, <2>2
  <2> QED  BY <2>1, <2>2
<1> QED  BY <1>3, <1>7, <1>8, <1>10, PointersMove

\* Taking a use keeps the handed out addresses right.
LEMMA SetUsePoints ==
    ASSUME PInv, UInv', NEW t \in Threads, SetUse(t)
    PROVE  PInv'
<1> DEFINE r == [call[t] EXCEPT !.left = @ - 1]
           n == [r EXCEPT !.at = "room"]
<1>1. PICK k \in Calls : k = call[t]  BY DEF PInv, UInv, IInv, Typed
<1>2. /\ k.at = "setUse" /\ k.left \in 1..2 /\ (Using(k) \/ Building(k) \/ Deleting(k))
      /\ k.chunk \in Chunks
  BY <1>1 DEF PInv, UInv, IInv, Shapes, Calls, SetUse, Resting, Using, Building, Deleting
<1>3. /\ r \in Calls /\ r.left = k.left - 1
      /\ r.at = "setUse" /\ r.chunk = k.chunk /\ r.then = k.then /\ r.glue = k.glue
      /\ n.at = "room" /\ n.left = r.left /\ n.glue = k.glue
  BY <1>1, <1>2 DEF Calls
<1>4. chunk' = chunk /\ status' = status  BY DEF SetUse
<1>5. CASE status[k.chunk] = "SWAPPED"
  <2>1. call' = [call EXCEPT ![t] = n] /\ glue' = glue
    BY <1>1, <1>3, <1>5 DEF SetUse, Continue
  <2>2. call'[t] = n /\ \A u \in Threads : u # t => call'[u] = call[u]
    BY <2>1 DEF PInv, UInv, IInv, Typed
  <2> HIDE DEF r, n
  <2>3. \A g \in Glues : Loaded(g)' = Loaded(g) /\ ChunkOf(g)' = ChunkOf(g) /\ Loaded(g) \in 0..2
    BY <1>4, <2>1, LoadedKept, LoadedMarked DEF ChunkOf, PInv, UInv, IInv
  <2>4. \A g \in Glues : Awaits(n, g) <= Awaits(call[t], g) /\ Awaits(n, g) \in 0..2 /\ Awaits(call[t], g) \in 0..2
    BY <1>1, <1>2, <1>3 DEF Awaits
  <2>5. \A g \in Glues : Loaded(g)' - Awaits(call'[t], g) >= Loaded(g) - Awaits(call[t], g)
    BY <2>2, <2>3, <2>4
  <2> QED  BY <1>1, <1>3, <1>4, <2>1, <2>2, <2>3, <2>5, PointersMove
<1>6. CASE status[k.chunk] # "SWAPPED"
  <2>1. Granted(t, r)  BY <1>1, <1>3, <1>6 DEF SetUse
  <2>2. status[k.chunk] = "ALLOCATED"
    <3>1. status[k.chunk] # "NONE"  BY <1>1, <1>2, CalledChunkIsThere DEF PInv, UInv
    <3> QED  BY <1>2, <1>6, <3>1 DEF PInv, UInv, IInv, Typed
  <2>3. Using(r) \/ Building(r) \/ Deleting(r)
    BY <1>1, <1>2 DEF Using, Building, Deleting, NoPtr, Calls
  <2> HIDE DEF r
  <2>4. r.left < call[t].left /\ r.left <= call[t].left  BY <1>1, <1>2, <1>3
  <2> QED  BY <1>1, <1>3, <1>4, <2>1, <2>2, <2>3, <2>4, GrantedPoints
<1> QED  BY <1>5, <1>6

\* Bringing a chunk in keeps the handed out addresses right.
LEMMA SwapInPoints ==
    ASSUME PInv, UInv', NEW t \in Threads, SwapIn(t)
    PROVE  PInv'
<1>1. PICK r \in Calls : r = call[t]  BY DEF PInv, UInv, IInv, Typed
<1>2. /\ r.at \in {"room", "prepareUse"} /\ (Using(r) \/ Building(r) \/ Deleting(r))
      /\ chunk' = chunk /\ r.chunk \in Chunks /\ r.left \in 0..2
      /\ status' = [status EXCEPT ![r.chunk] = "ALLOCATED"]
  BY <1>1 DEF PInv, UInv, IInv, Shapes, SwapIn, Resting, Using, Building, Deleting, Calls
<1>3. /\ status'[r.chunk] = "ALLOCATED"
      /\ \A c \in Chunks : status[c] = "ALLOCATED" => status'[c] = "ALLOCATED"
  BY <1>2 DEF PInv, UInv, IInv, Typed
<1>4. CASE r.at = "room"
  <2>1. Granted(t, r)  BY <1>1, <1>4 DEF SwapIn
  <2>2. r.then = "pull" => Holds(r.glue)
    <3>1. r.then = "pull" => r.glue \in Glues  BY <1>2 DEF Using, Building, Deleting
    <3> QED  BY <1>1, <1>4, <3>1 DEF PInv, UInv, RoomsOK, Holds
  <2> QED  BY <1>1, <1>2, <1>3, <2>1, <2>2, GrantedPoints
<1>5. CASE r.at = "prepareUse"
  <2>1. call' = [call EXCEPT ![t] = Idle] /\ glue' = glue
    BY <1>1, <1>5 DEF SwapIn, Return, Continue
  <2>2. call'[t] = Idle /\ \A u \in Threads : u # t => call'[u] = call[u]
    BY <2>1 DEF PInv, UInv, IInv, Typed
  <2>3. Idle.at = "idle" /\ Idle.left = 0 /\ Idle.glue = None  BY DEF Idle
  <2>4. r.left = 0  BY <1>1, <1>5 DEF PInv, UInv, Lefts
  <2>5. \A g \in Glues : Loaded(g)' = Loaded(g) /\ ChunkOf(g)' = ChunkOf(g) /\ Loaded(g) \in 0..2
    BY <1>2, <2>1, LoadedKept, LoadedMarked DEF ChunkOf, PInv, UInv, IInv
  <2>6. \A g \in Glues : Awaits(call'[t], g) = 0 /\ Awaits(call[t], g) = 0
    BY <1>1, <2>2, <2>3, <2>4 DEF Awaits
  <2>7. \A g \in Glues : Loaded(g)' - Awaits(call'[t], g) >= Loaded(g) - Awaits(call[t], g)
    BY <2>5, <2>6
  <2> QED  BY <1>3, <2>1, <2>2, <2>3, <2>5, <2>7, PointersMove
<1> QED  BY <1>2, <1>4, <1>5

\* Handing out the address keeps the handed out addresses right.
LEMMA GetLocPtrPoints ==
    ASSUME PInv, UInv', NEW t \in Threads, GetLocPtr(t)
    PROVE  PInv'
<1>1. PICK r \in Calls : r = call[t]  BY DEF PInv, UInv, IInv, Typed
<1>2. /\ r.at = "getLocPtr" /\ Using(r) /\ r.left = 0
      /\ chunk' = chunk /\ status' = status /\ r.glue \in Glues /\ Holds(r.glue)
  BY <1>1 DEF PInv, LocsOK, UInv, IInv, Shapes, Lefts, GetLocPtr, Resting, Using, Building, Deleting
<1>3. CASE status[r.chunk] = "ALLOCATED" /\ Granted(t, r)
  BY <1>1, <1>2, <1>3, GrantedPoints
<1>4. CASE call' = [call EXCEPT ![t] = [r EXCEPT !.at = "spin"]] /\ glue' = glue
  <2>1. call'[t] = [r EXCEPT !.at = "spin"] /\ \A u \in Threads : u # t => call'[u] = call[u]
    BY <1>4 DEF PInv, UInv, IInv, Typed
  <2>2. call'[t].at = "spin" /\ call'[t].left = 0 /\ call'[t].glue = r.glue  BY <1>2, <2>1 DEF Calls
  <2>3. \A g \in Glues : Loaded(g)' = Loaded(g) /\ ChunkOf(g)' = ChunkOf(g) /\ Loaded(g) \in 0..2
    BY <1>2, <1>4, LoadedKept, LoadedMarked DEF ChunkOf, PInv, UInv, IInv
  <2>4. \A g \in Glues : Awaits(call'[t], g) = 0 /\ Awaits(call[t], g) = 0
    BY <1>1, <1>2, <2>2 DEF Awaits
  <2>5. \A g \in Glues : Loaded(g)' - Awaits(call'[t], g) >= Loaded(g) - Awaits(call[t], g)
    BY <2>3, <2>4
  <2>6. Holds(r.glue)'  BY <1>2, <2>1, <2>5, HoldsKept DEF PInv
  <2>7. Holds(call[t].glue)'  BY <2>2, <2>6
  <2> QED  BY <1>1, <1>2, <1>4, <2>1, <2>2, <2>3, <2>5, <2>7, PointersMove
<1> QED  BY <1>1, <1>3, <1>4 DEF GetLocPtr, Continue

\* The steps of managedPtr leave the adhereTos with uses as they are.
LEMMA PtrPoints ==
    ASSUME PInv, UInv', NEW t \in Threads, \A u \in Threads : u # t => call'[u] = call[u],
           call[t].glue = None, call'[t].glue = None, call'[t].at \notin {"getLocPtr", "spin"},
           glue' = glue,
           \A g \in Glues : Exists(g) /\ Marked(g) => ChunkOf(g)' = ChunkOf(g),
           \A c \in Chunks : status[c] = "ALLOCATED" /\ useCnt[c] > 0 => status'[c] = "ALLOCATED"
    PROVE  PInv'
<1>1. \A g \in Glues : Loaded(g)' = Loaded(g) /\ Loaded(g) \in 0..2
  BY LoadedKept, LoadedMarked DEF PInv, UInv, IInv
<1>2. \A g \in Glues : Awaits(call'[t], g) = 0 /\ Awaits(call[t], g) = 0  BY DEF Awaits
<1>3. \A g \in Glues : Loaded(g)' - Awaits(call'[t], g) >= Loaded(g) - Awaits(call[t], g)
  BY <1>1, <1>2
<1>4. \A g \in Glues : glue'[g].loc # None =>
         glue'[g].loc = glue[g].loc /\ (Marked(g) => ChunkOf(g)' = ChunkOf(g))
  BY DEF PInv, UInv, Voids
<1> QED  BY <1>3, <1>4, PointersMove

\* A managedPtr that refers to something else keeps the handed out addresses right.
LEMMA RebindPoints ==
    ASSUME PInv, UInv', NEW t \in Threads, call[t].at = "idle", NEW p \in Ptrs, NEW new,
           chunk' = [chunk EXCEPT ![p] = new], UNCHANGED <<glue, status, call>>,
           \A g \in Glues : Exists(g) /\ Marked(g) => glue[g].data # p
    PROVE  PInv'
<1>1. glue' = glue /\ status' = status /\ call' = call  OBVIOUS
<1>2. call[t].glue = None  BY IdleHasNoPtr DEF PInv, UInv
<1>3. \A g \in Glues : Exists(g) /\ Marked(g) => ChunkOf(g)' = ChunkOf(g)
  <2>1. \A g \in Glues : Exists(g) => glue[g].data \in Ptrs
    BY DEF PInv, UInv, IInv, Typed, GlueTypes, Exists
  <2> QED  BY <1>1, <2>1 DEF ChunkOf, PInv, UInv, IInv, Typed
<1> QED  BY <1>1, <1>2, <1>3, PtrPoints

\* Beginning a deletion keeps the handed out addresses right.
LEMMA DeletePoints ==
    ASSUME PInv, UInv', NEW t \in Threads, NEW p \in Ptrs, NEW q \in Ptrs \cup {None},
           call[t].at = "idle", Live(p), chunk[p] # NULL, MDelete(t, p, q),
           UNCHANGED <<chunk, glue, status>>
    PROVE  PInv'
<1>1. chunk[p] \in Chunks  BY DEF Live, PInv, UInv, IInv, Typed
<1>2. PICK n \in Calls : call' = [call EXCEPT ![t] = n] /\ n.glue = None /\ n.at \in {"setUse", "mfree"}
  BY <1>1, DeleteCall
<1>3. call'[t] = n /\ \A u \in Threads : u # t => call'[u] = call[u]
  BY <1>2 DEF PInv, UInv, IInv, Typed
<1>4. call[t].glue = None  BY IdleHasNoPtr DEF PInv, UInv
<1>5. \A g \in Glues : Exists(g) /\ Marked(g) => ChunkOf(g)' = ChunkOf(g)  BY DEF ChunkOf
<1>6. status' = status /\ glue' = glue  OBVIOUS
<1> QED  BY <1>2, <1>3, <1>4, <1>5, <1>6, PtrPoints

\* Steps of managedPtrs keeps the handed out addresses right.
LEMMA ManagedPtrPoints ==
    ASSUME PInv, UInv', NEW t \in Threads, NEW p \in Ptrs,
           \/ CreateEmpty(t, p) \/ Destroy(t, p)
           \/ \E q \in Ptrs : Copy(t, p, q) \/ Assign(t, p, q)
    PROVE  PInv'
<1>1. CASE CreateEmpty(t, p)
  <2>1. \A g \in Glues : Exists(g) => glue[g].data # p
    BY <1>1 DEF CreateEmpty, PInv, UInv, IInv, Adhering, Live
  <2> QED  BY <1>1, <2>1, RebindPoints DEF CreateEmpty
<1>2. CASE Destroy(t, p)
  <2>1. /\ call[t].at = "idle" /\ Live(p) /\ UNCHANGED <<glue, status>>
        /\ \A g \in Glues : glue[g].data # p
        /\ \/ chunk' = [chunk EXCEPT ![p] = None] /\ UNCHANGED call
           \/ chunk[p] # NULL /\ MDelete(t, p, None) /\ UNCHANGED chunk
    BY <1>2 DEF Destroy
  <2>2. CASE chunk' = [chunk EXCEPT ![p] = None] /\ UNCHANGED call
    BY <2>1, <2>2, RebindPoints
  <2>3. CASE chunk[p] # NULL /\ MDelete(t, p, None) /\ UNCHANGED chunk
    BY <2>1, <2>3, DeletePoints
  <2> QED  BY <2>1, <2>2, <2>3
<1>3. ASSUME NEW q \in Ptrs, Copy(t, p, q) PROVE PInv'
  <2>1. \A g \in Glues : Exists(g) => glue[g].data # p
    BY <1>3 DEF Copy, PInv, UInv, IInv, Adhering, Live
  <2> QED  BY <1>3, <2>1, RebindPoints DEF Copy
<1>4. ASSUME NEW q \in Ptrs, Assign(t, p, q) PROVE PInv'
  <2>1. /\ call[t].at = "idle" /\ Live(p) /\ UNCHANGED <<glue, status>>
        /\ \A g \in Glues : glue[g].data = p => Loaded(g) = 0
        /\ \/ chunk' = [chunk EXCEPT ![p] = chunk[q]] /\ UNCHANGED call
           \/ chunk[p] # NULL /\ MDelete(t, p, q) /\ UNCHANGED chunk
    BY <1>4 DEF Assign
  <2>2. \A g \in Glues : Marked(g) => glue[g].data # p
    BY <2>1, LoadedMarked DEF PInv, UInv, IInv
  <2>3. CASE chunk' = [chunk EXCEPT ![p] = chunk[q]] /\ UNCHANGED call
    BY <2>1, <2>2, <2>3, RebindPoints
  <2>4. CASE chunk[p] # NULL /\ MDelete(t, p, q) /\ UNCHANGED chunk
    BY <2>1, <2>4, DeletePoints
  <2> QED  BY <2>1, <2>3, <2>4
<1> QED  BY <1>1, <1>2, <1>3, <1>4

\* Making a managedPtr keeps the handed out addresses right.
LEMMA CreatePoints ==
    ASSUME PInv, UInv', NEW t \in Threads, NEW p \in Ptrs, NEW c \in Chunks, Create(t, p, c)
    PROVE  PInv'
<1> DEFINE n == [Idle EXCEPT !.at = "setUse", !.then = "construct", !.left = 1, !.ptr = p, !.chunk = c]
<1>1. n.glue = None /\ n.at = "setUse"  BY DEF Idle
<1>2. /\ call[t].at = "idle" /\ call' = [call EXCEPT ![t] = n]
      /\ chunk' = chunk /\ glue' = glue
      /\ status' = [status EXCEPT ![c] = "ALLOCATED"]
  BY DEF Create, Continue
<1> HIDE DEF n
<1>3. \A d \in Chunks : status[d] = "ALLOCATED" => status'[d] = "ALLOCATED"
  BY <1>2 DEF PInv, UInv, IInv, Typed
<1>4. call'[t] = n /\ \A u \in Threads : u # t => call'[u] = call[u]
  BY <1>2 DEF PInv, UInv, IInv, Typed
<1>5. call[t].glue = None  BY <1>2, IdleHasNoPtr DEF PInv, UInv
<1>6. \A g \in Glues : Exists(g) /\ Marked(g) => ChunkOf(g)' = ChunkOf(g)  BY <1>2 DEF ChunkOf
<1> QED  BY <1>1, <1>2, <1>3, <1>4, <1>5, <1>6, PtrPoints

\* The constructor of the elements keeps the handed out addresses right.
LEMMA ConstructPoints ==
    ASSUME PInv, UInv', NEW t \in Threads, Construct(t)
    PROVE  PInv'
<1>1. PICK r \in Calls : r = call[t]  BY DEF PInv, UInv, IInv, Typed
<1>2. /\ r.then = "construct" /\ Building(r) /\ chunk[r.ptr] = None
      /\ call' = [call EXCEPT ![t] = Idle] /\ chunk' = [chunk EXCEPT ![r.ptr] = r.chunk]
      /\ glue' = glue /\ status' = status
  BY <1>1 DEF PInv, UInv, IInv, Shapes, Jobs, Construct, Return, Continue, Resting, Using, Deleting, Building
<1>3. r.glue = None /\ Idle.glue = None /\ Idle.at = "idle"  BY <1>2 DEF Building, Idle
<1>4. call'[t] = Idle /\ \A u \in Threads : u # t => call'[u] = call[u]
  BY <1>2 DEF PInv, UInv, IInv, Typed
<1>5. \A g \in Glues : Exists(g) /\ Marked(g) => ChunkOf(g)' = ChunkOf(g)
  <2>1. \A g \in Glues : Exists(g) => glue[g].data \in Ptrs /\ glue[g].data # r.ptr
    BY <1>2 DEF PInv, UInv, IInv, Typed, GlueTypes, Adhering, Live, Exists
  <2> QED  BY <1>2, <2>1 DEF ChunkOf, PInv, UInv, IInv, Typed
<1> QED  BY <1>1, <1>2, <1>3, <1>4, <1>5, PtrPoints

\* The destructor of the elements keeps the handed out addresses right.
LEMMA DestructPoints ==
    ASSUME PInv, UInv', NEW t \in Threads, Destruct(t)
    PROVE  PInv'
<1>1. PICK r \in Calls : r = call[t]  BY DEF PInv, UInv, IInv, Typed
<1>2. /\ Deleting(r) /\ chunk' = chunk /\ glue' = glue /\ status' = status
      /\ call' = [call EXCEPT ![t] = [r EXCEPT !.at = "mfree"]]
  BY <1>1 DEF PInv, UInv, IInv, Shapes, Destruct, Continue, Resting, Using, Building
<1>3. r.glue = None  BY <1>2 DEF Deleting
<1>4. call'[t] = [r EXCEPT !.at = "mfree"] /\ \A u \in Threads : u # t => call'[u] = call[u]
  BY <1>2 DEF PInv, UInv, IInv, Typed
<1>5. call'[t].at = "mfree" /\ call'[t].glue = None  BY <1>3, <1>4 DEF Calls
<1>6. \A g \in Glues : Exists(g) /\ Marked(g) => ChunkOf(g)' = ChunkOf(g)  BY <1>2 DEF ChunkOf
<1> QED  BY <1>1, <1>2, <1>3, <1>4, <1>5, <1>6, PtrPoints

\* mfree keeps the handed out addresses right.
LEMMA MFreePoints ==
    ASSUME PInv, UInv', NEW t \in Threads, MFree(t)
    PROVE  PInv'
<1>1. PICK r \in Calls : r = call[t]  BY DEF PInv, UInv, IInv, Typed
<1>2. PICK new : /\ chunk' = [chunk EXCEPT ![r.ptr] = new] /\ call' = [call EXCEPT ![t] = Idle]
                 /\ status' = [status EXCEPT ![r.chunk] = "NONE"] /\ glue' = glue
  BY <1>1 DEF MFree, Return, Continue
<1>3. r.at = "mfree" /\ Deleting(r) /\ r.glue = None /\ r.then = "destruct"
  BY <1>1 DEF PInv, UInv, IInv, Shapes, MFree, Resting, Using, Building, Deleting
<1>4. call'[t] = Idle /\ Idle.glue = None /\ Idle.at = "idle" /\ \A u \in Threads : u # t => call'[u] = call[u]
  BY <1>2 DEF PInv, UInv, IInv, Typed, Idle
<1>5. \A g \in Glues : Exists(g) /\ Marked(g) => ChunkOf(g)' = ChunkOf(g)
  <2>1. \A g \in Glues : Exists(g) /\ Marked(g) => glue[g].data \in Ptrs /\ glue[g].data # r.ptr
    BY <1>1, <1>3 DEF PInv, UInv, IInv, Typed, GlueTypes, Adhering, Exists
  <2> QED  BY <1>2, <2>1 DEF ChunkOf, PInv, UInv, IInv, Typed
<1>6. r.chunk \in Chunks /\ useCnt[r.chunk] = 0  BY <1>1, <1>3, FreedIsUnused DEF PInv
<1>7. \A c \in Chunks : status[c] = "ALLOCATED" /\ useCnt[c] > 0 => status'[c] = "ALLOCATED"
  BY <1>2, <1>6 DEF PInv, UInv, IInv, Typed
<1> QED  BY <1>1, <1>2, <1>3, <1>4, <1>5, <1>7, PtrPoints

\* An adhereTo on which no thread works takes on another role, with no address to show, or
\* the one it has.
LEMMA GluePoints ==
    ASSUME PInv, UInv', NEW t \in Threads, call[t].at = "idle", NEW g \in Glues, GlueAtRest(g),
           NEW n \in Calls, n.glue \in {None, g}, NEW e \in GlueTypes,
           call' = [call EXCEPT ![t] = n], glue' = [glue EXCEPT ![g] = e],
           chunk' = chunk, status' = status,
           \/ e.loc = None
           \/ /\ e.loc = glue[g].loc /\ e.data = glue[g].data
              /\ Loaded(g)' - Awaits(n, g) >= Loaded(g),
           \/ n.at \notin {"getLocPtr", "spin"}
           \/ Holds(g)' /\ n.glue = g
    PROVE  PInv'
<1>1. call'[t] = n /\ \A u \in Threads : u # t => call'[u] = call[u]
  BY DEF PInv, UInv, IInv, Typed
<1>2. \A h \in Glues : glue'[h] = IF h = g THEN e ELSE glue[h]  BY DEF PInv, UInv, IInv, Typed
<1>3. call[t].glue = None /\ None \notin Glues  BY IdleHasNoPtr DEF PInv, UInv
<1>4. \A h \in Glues : Awaits(call[t], h) = 0 /\ (h # g => Awaits(n, h) = 0)
  BY <1>3 DEF Awaits
<1>5. ASSUME NEW h \in Glues, h # g
      PROVE  /\ Loaded(h)' - Awaits(call'[t], h) >= Loaded(h) - Awaits(call[t], h)
             /\ glue'[h].loc = glue[h].loc /\ ChunkOf(h)' = ChunkOf(h)
  <2>1. glue'[h] = glue[h]  BY <1>2, <1>5
  <2>2. Loaded(h)' = Loaded(h) /\ Loaded(h) \in 0..2
    BY <2>1, LoadedKept, LoadedMarked DEF PInv, UInv, IInv
  <2> QED  BY <1>1, <1>4, <1>5, <2>1, <2>2 DEF ChunkOf
<1>6. /\ Loaded(g)' - Awaits(call'[t], g) >= Loaded(g) - Awaits(call[t], g) \/ glue'[g].loc = None
      /\ glue'[g].loc # None => glue'[g].loc = glue[g].loc /\ ChunkOf(g)' = ChunkOf(g)
  <2>1. Loaded(g) \in 0..2  BY LoadedMarked DEF PInv, UInv, IInv
  <2> QED  BY <1>1, <1>2, <1>4, <2>1 DEF ChunkOf
<1>7. \A h \in Glues :
         \/ Loaded(h)' - Awaits(call'[t], h) >= Loaded(h) - Awaits(call[t], h)
         \/ GlueAtRest(h) /\ glue'[h].loc = None
  BY <1>5, <1>6
<1>8. \A h \in Glues : glue'[h].loc # None =>
         glue'[h].loc = glue[h].loc /\ (Marked(h) => ChunkOf(h)' = ChunkOf(h))
  BY <1>5, <1>6
<1>9. call'[t].at \in {"getLocPtr", "spin"} => Holds(call[t].glue)'
  BY <1>1
<1>10. \/ call'[t].glue \in {None, call[t].glue}
       \/ call'[t].glue \in Glues /\ GlueAtRest(call'[t].glue)
  BY <1>1
<1> QED  BY <1>1, <1>7, <1>8, <1>9, <1>10, PointersMove

\* Making an adhereTo keeps the handed out addresses right.
LEMMA AdherePoints ==
    ASSUME PInv, UInv', NEW t \in Threads, NEW g \in Glues, NEW p \in Ptrs, NEW load \in BOOLEAN,
           Adhere(t, g, p, load)
    PROVE  PInv'
<1> DEFINE e == [NoGlue EXCEPT !.data = p]
           b == [Idle EXCEPT !.at = "prepareUse", !.glue = g, !.chunk = chunk[p]]
<1>1. e \in GlueTypes /\ e.loc = None  BY DEF NoGlue, GlueTypes
<1>2. /\ call[t].at = "idle" /\ GlueAtRest(g) /\ glue' = [glue EXCEPT ![g] = e]
      /\ chunk' = chunk /\ status' = status
  BY DEF Adhere
<1>3. PICK n \in Calls : /\ call' = [call EXCEPT ![t] = n] /\ n.glue \in {None, g}
                         /\ n.at \in {"idle", "prepareUse"}
  <2>1. CASE call' = call
    <3>1. call' = [call EXCEPT ![t] = call[t]] /\ call[t] \in Calls
      BY <2>1 DEF PInv, UInv, IInv, Typed
    <3> QED  BY <1>2, <3>1, IdleHasNoPtr DEF PInv, UInv
  <2>2. CASE chunk[p] # NULL /\ call' = [call EXCEPT ![t] = b]
    <3>1. chunk[p] \in Chunks  BY <2>2 DEF Adhere, Readable, Live, PInv, UInv, IInv, Typed
    <3>2. b \in Calls /\ b.glue = g /\ b.at = "prepareUse"
      <4>1. b \in Calls  BY <3>1, IdleTyped DEF Calls, Stages
      <4>2. b.glue = g /\ b.left = 0 /\ b.at = "prepareUse" /\ b.then = "none"  BY DEF Idle
      <4> QED  BY <4>1, <4>2
    <3> HIDE DEF b
    <3> QED  BY <2>2, <3>2
  <2> QED  BY <2>1, <2>2 DEF Adhere, Continue
<1> HIDE DEF e
<1>4. n.at \notin {"getLocPtr", "spin"}  BY <1>3
<1> QED  BY <1>1, <1>2, <1>3, <1>4, GluePoints

\* Pulling through an adhereTo keeps the handed out addresses right.
LEMMA PullPoints ==
    ASSUME PInv, UInv', ~SharedGlue, NEW t \in Threads, NEW g \in Glues, NEW m \in Modes, Pull(t, g, m)
    PROVE  PInv'
<1>1. /\ call[t].at = "idle" /\ GlueAtRest(g) /\ chunk' = chunk /\ status' = status
      /\ \E n \in Calls, e \in GlueTypes :
            /\ call' = [call EXCEPT ![t] = n] /\ glue' = [glue EXCEPT ![g] = e] /\ n.glue = g
            /\ e.data = glue[g].data /\ e.loc = glue[g].loc
            /\ e.loadedReadable \/ e.loadedWritable
            /\ \/ n.at = "getLocPtr" /\ n.left = 0 /\ e = glue[g]
               \/ n.at = "setUse" /\ n.left = 1 /\ ~glue[g][m] /\ e = [glue[g] EXCEPT ![m] = TRUE]
  BY PullMoves DEF PInv, UInv
<1>2. PICK n \in Calls, e \in GlueTypes :
            /\ call' = [call EXCEPT ![t] = n] /\ glue' = [glue EXCEPT ![g] = e] /\ n.glue = g
            /\ e.data = glue[g].data /\ e.loc = glue[g].loc
            /\ e.loadedReadable \/ e.loadedWritable
            /\ \/ n.at = "getLocPtr" /\ n.left = 0 /\ e = glue[g]
               \/ n.at = "setUse" /\ n.left = 1 /\ ~glue[g][m] /\ e = [glue[g] EXCEPT ![m] = TRUE]
  BY <1>1
<1>3. glue'[g] = e /\ glue[g] \in GlueTypes  BY <1>2 DEF PInv, UInv, IInv, Typed
<1>4. Awaits(n, g) = n.left  BY <1>2 DEF Awaits
<1>5. Loaded(g) \in 0..2  BY LoadedMarked DEF PInv, UInv, IInv
<1>6. CASE n.at = "getLocPtr" /\ n.left = 0 /\ e = glue[g]
  <2>1. Loaded(g)' = Loaded(g)  BY <1>3, <1>6, LoadedKept
  <2>2. Marked(g)  BY <1>2, <1>6 DEF Marked
  <2>3. Waiting(g) = 0 /\ Loaded(g) > 0
    BY <1>1, <1>5, <2>2, RestAwaitsNothing, LoadedMarked DEF PInv, UInv, IInv
  <2>4. Holds(g)  BY <2>3 DEF Holds
  <2>5. call'[t] = n /\ \A u \in Threads : u # t => call'[u] = call[u]
    BY <1>2 DEF PInv, UInv, IInv, Typed
  <2>6. call[t].glue = None /\ None \notin Glues  BY <1>1, IdleHasNoPtr DEF PInv, UInv
  <2>7. Awaits(call[t], g) = 0  BY <2>6 DEF Awaits
  <2>8. Loaded(g)' - Awaits(call'[t], g) >= Loaded(g) - Awaits(call[t], g)
    BY <1>4, <1>5, <1>6, <2>1, <2>5, <2>7
  <2>9. Holds(g)'  BY <2>4, <2>5, <2>8, HoldsKept DEF PInv
  <2>10. Loaded(g)' - Awaits(n, g) >= Loaded(g)  BY <1>4, <1>5, <1>6, <2>1
  <2> QED  BY <1>1, <1>2, <2>9, <2>10, GluePoints
<1>7. CASE n.at = "setUse" /\ n.left = 1 /\ ~glue[g][m] /\ e = [glue[g] EXCEPT ![m] = TRUE]
  <2>1. Loaded(g) = Cardinality({k \in Modes : glue[g][k]}) /\ Loaded(g)' = Cardinality({k \in Modes : e[k]})
    BY <1>3 DEF Loaded
  <2>2. Cardinality({k \in Modes : e[k]}) = Cardinality({k \in Modes : glue[g][k]}) + 1
    <3>1. PICK d \in GlueTypes : d = glue[g]  BY <1>3
    <3>2. ~d[m] /\ e = [d EXCEPT ![m] = TRUE]  BY <1>7, <3>1
    <3>3. Cardinality({k \in Modes : [d EXCEPT ![m] = TRUE][k]}) = Cardinality({k \in Modes : d[k]}) + 1
      BY <3>2, LoadedMore
    <3> QED  BY <3>1, <3>2, <3>3
  <2>3. Loaded(g)' - Awaits(n, g) >= Loaded(g)  BY <1>4, <1>5, <1>7, <2>1, <2>2
  <2>4. n.at \notin {"getLocPtr", "spin"}  BY <1>7
  <2> QED  BY <1>1, <1>2, <2>3, <2>4, GluePoints
<1> QED  BY <1>2, <1>6, <1>7

\* Copying or assigning an adhereTo keeps the handed out addresses right.
LEMMA TakesAfterPoints ==
    ASSUME PInv, UInv', NEW t \in Threads, NEW g \in Glues, NEW h \in Glues,
           CopyAdhereTo(t, g, h) \/ AssignAdhereTo(t, g, h)
    PROVE  PInv'
<1>1. PICK uses : /\ TakesAfter(t, g, h, uses)
                  /\ call[t].at = "idle" /\ GlueAtRest(g) /\ Exists(h) /\ chunk' = chunk /\ status' = status
  BY DEF CopyAdhereTo, AssignAdhereTo
<1>2. \E n \in Calls, e \in GlueTypes :
              /\ call' = [call EXCEPT ![t] = n] /\ glue' = [glue EXCEPT ![g] = e]
              /\ e.loc = None
              /\ \/ n.glue = None /\ n.at = "idle"
                 \/ n.glue = g /\ n.at = "setUse"
  BY <1>1, TakesAfterMoves DEF PInv
<1>3. PICK n \in Calls, e \in GlueTypes :
              /\ call' = [call EXCEPT ![t] = n] /\ glue' = [glue EXCEPT ![g] = e]
              /\ e.loc = None
              /\ \/ n.glue = None /\ n.at = "idle"
                 \/ n.glue = g /\ n.at = "setUse"
  BY <1>2
<1>4. n.glue \in {None, g} /\ n.at \notin {"getLocPtr", "spin"}  BY <1>3
<1> QED  BY <1>1, <1>3, <1>4, GluePoints

\* Destroying an adhereTo keeps the handed out addresses right.
LEMMA DestroyAdhereToPoints ==
    ASSUME PInv, UInv', NEW t \in Threads, NEW g \in Glues, DestroyAdhereTo(t, g)
    PROVE  PInv'
<1>1. /\ call[t].at = "idle" /\ GlueAtRest(g) /\ chunk' = chunk /\ call' = call /\ status' = status
      /\ glue' = [glue EXCEPT ![g] = NoGlue]
  BY DEF DestroyAdhereTo
<1>2. NoGlue \in GlueTypes /\ NoGlue.loc = None  BY DEF NoGlue, GlueTypes
<1>3. PICK n \in Calls : call' = [call EXCEPT ![t] = n] /\ n.glue = None /\ n.at = "idle"
  <2>1. call[t] \in Calls /\ call' = [call EXCEPT ![t] = call[t]]
    BY <1>1 DEF PInv, UInv, IInv, Typed
  <2> QED  BY <1>1, <2>1, IdleHasNoPtr DEF PInv, UInv
<1>4. n.glue \in {None, g} /\ n.at \notin {"getLocPtr", "spin"}  BY <1>3
<1> QED  BY <1>1, <1>2, <1>3, <1>4, GluePoints

\* The manager unloads no chunk that an address is out for.
LEMMA QuietPoints ==
    ASSUME PInv, UInv', UNCHANGED vars \/ \E c \in Chunks : SwapOut(c)
    PROVE  PInv'
<1>1. chunk' = chunk /\ glue' = glue /\ call' = call  BY DEF vars, SwapOut
<1>2. \A c \in Chunks : status[c] = "ALLOCATED" /\ useCnt[c] > 0 => status'[c] = "ALLOCATED"
  BY DEF vars, SwapOut, PInv, UInv, IInv, Typed, UsesOK
<1>3. \A g : Waiting(g)' = Waiting(g) /\ Loaded(g)' = Loaded(g)
  BY <1>1, LoadedKept DEF Waiting
<1>4. \A g : Holds(g)' <=> Holds(g)  BY <1>3 DEF Holds
<1>5. Alone'  BY <1>1 DEF PInv, Alone
<1>6. \A t \in Threads : call'[t].at \in {"getLocPtr", "spin"} => Holds(call[t].glue)'
  BY <1>1, <1>4 DEF PInv, LocsOK
<1>7. \A g \in Glues : glue'[g].loc # None =>
         status'[glue'[g].loc] = "ALLOCATED" /\ glue'[g].loc = ChunkOf(g)' /\ Holds(g)'
  <2> SUFFICES ASSUME NEW g \in Glues, glue[g].loc # None
               PROVE  status'[glue[g].loc] = "ALLOCATED" /\ glue[g].loc = ChunkOf(g)' /\ Holds(g)'
    BY <1>1
  <2>1. status[glue[g].loc] = "ALLOCATED" /\ glue[g].loc = ChunkOf(g) /\ Holds(g)
    BY DEF PInv, LocsOK
  <2>2. glue[g].loc \in Chunks /\ useCnt[glue[g].loc] > 0  BY ShownIsUsed
  <2> QED  BY <1>1, <1>2, <1>4, <2>1, <2>2 DEF ChunkOf
<1>8. LocsOK'  BY <1>6, <1>7 DEF LocsOK
<1> QED  BY <1>5, <1>8 DEF PInv

\* The pointer invariant holds initially.
LEMMA PInvInit == Init => PInv
<1> SUFFICES ASSUME Init PROVE PInv  OBVIOUS
<1>1. glue = [g \in Glues |-> NoGlue] /\ call = [t \in Threads |-> Idle]  BY DEF Init
<1>2. NoGlue.loc = None /\ Idle.at = "idle" /\ Idle.glue = None  BY DEF NoGlue, Idle
<1> QED  BY <1>1, <1>2, UInvInit DEF PInv, Alone, LocsOK

\* Every step keeps the pointer invariant when threads do not share adhereTos.
LEMMA PInvNext == ASSUME ~SharedGlue PROVE PInv /\ [Next]_vars => PInv'
<1> SUFFICES ASSUME PInv, [Next]_vars PROVE PInv'  OBVIOUS
<1>1. UInv'  BY UInvNext DEF PInv
<1>2. CASE UNCHANGED vars  BY <1>1, <1>2, QuietPoints
<1>3. ASSUME NEW c \in Chunks, SwapOut(c) PROVE PInv'  BY <1>1, <1>3, QuietPoints
<1>4. ASSUME NEW t \in Threads,
             SetUse(t) \/ SwapIn(t) \/ Construct(t) \/ Destruct(t) \/ MFree(t) \/ GetLocPtr(t)
      PROVE  PInv'
  BY <1>1, <1>4, SetUsePoints, SwapInPoints, ConstructPoints, DestructPoints, MFreePoints, GetLocPtrPoints
<1>5. ASSUME NEW t \in Threads, NEW p \in Ptrs, CreateEmpty(t, p) \/ Destroy(t, p)
      PROVE  PInv'
  BY <1>1, <1>5, ManagedPtrPoints
<1>6. ASSUME NEW t \in Threads, NEW p \in Ptrs, NEW c \in Chunks, Create(t, p, c)
      PROVE  PInv'
  BY <1>1, <1>6, CreatePoints
<1>7. ASSUME NEW t \in Threads, NEW p \in Ptrs, NEW q \in Ptrs, Copy(t, p, q) \/ Assign(t, p, q)
      PROVE  PInv'
  BY <1>1, <1>7, ManagedPtrPoints
<1>8. ASSUME NEW t \in Threads, NEW g \in Glues, NEW p \in Ptrs, NEW load \in BOOLEAN,
             Adhere(t, g, p, load)
      PROVE  PInv'
  BY <1>1, <1>8, AdherePoints
<1>9. ASSUME NEW t \in Threads, NEW g \in Glues, NEW m \in Modes, Pull(t, g, m)
      PROVE  PInv'
  BY <1>1, <1>9, PullPoints
<1>10. ASSUME NEW t \in Threads, NEW g \in Glues, NEW h \in Glues,
              CopyAdhereTo(t, g, h) \/ AssignAdhereTo(t, g, h)
       PROVE  PInv'
  BY <1>1, <1>10, TakesAfterPoints
<1>11. ASSUME NEW t \in Threads, NEW g \in Glues, DestroyAdhereTo(t, g)
       PROVE  PInv'
  BY <1>1, <1>11, DestroyAdhereToPoints
<1> QED
  BY <1>2, <1>3, <1>4, <1>5, <1>6, <1>7, <1>8, <1>9, <1>10, <1>11 DEF Next

\* The memory that a pulled pointer shows is neither unloaded nor freed before its adhereTo
\* has given the use back, in a program that lets no two threads work on one adhereTo at a time.
THEOREM PointersAreHeld == ASSUME ~SharedGlue PROVE Spec => []PointersHold
<1>1. Spec => []PInv  BY PInvInit, PInvNext, PTL DEF Spec
<1>2. PInv => PointersHold  BY DEF PInv, UInv, RunsOK, LocsOK, PointersHold
<1> QED  BY <1>1, <1>2, PTL
=============================================================================
