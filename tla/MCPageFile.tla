----------------------------- MODULE MCPageFile -----------------------------
(* Model-checking instance of PageFile: three chunks that do not fit into   *)
(* one page file together.                                                  *)
EXTENDS PageFile, TLC

CONSTANTS c1, c2, c3

Sizes == (c1 :> 3) @@ (c2 :> 4) @@ (c3 :> 6)

Plain   == [alignment |-> 1, record |-> 2]      \* 1 and sizeof ( pageFileLocation )
Aligned == [alignment |-> 4, record |-> 2]      \* direct access: 512, more than a location
BothLayouts == {Plain, Aligned}
=============================================================================
