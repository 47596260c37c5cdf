---------------------------- MODULE ObjectStore ----------------------------
(***************************************************************************)
(* What rambrain promises for the objects it manages: the content of an    *)
(* object changes only while a client holds a pointer to write through,    *)
(* in whatever order chunks go to the page file and come back in between.  *)
(***************************************************************************)
CONSTANTS Objects, Vals

VARIABLES value,            \* {content} of an object, {} if it does not exist
          open              \* objects some client may write

vars == <<value, open>>

Init == value = [o \in Objects |-> {}] /\ open = {}

Create(o) ==
    /\ value[o] = {}
    /\ \E v \in Vals : value' = [value EXCEPT ![o] = {v}]
    /\ UNCHANGED open

Open(o) ==
    /\ value[o] # {}
    /\ open' = open \cup {o}
    /\ UNCHANGED value

Write(o) ==
    /\ o \in open
    /\ \E v \in Vals : value' = [value EXCEPT ![o] = {v}]
    /\ UNCHANGED open

Close(o) ==
    /\ open' = open \ {o}
    /\ UNCHANGED value

Delete(o) ==
    /\ value[o] # {} /\ o \notin open
    /\ value' = [value EXCEPT ![o] = {}]
    /\ UNCHANGED open

Next == \E o \in Objects : Create(o) \/ Open(o) \/ Write(o) \/ Close(o) \/ Delete(o)

Spec == Init /\ [][Next]_vars
=============================================================================
