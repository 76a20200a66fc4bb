---------------------------- MODULE MCCoocGraph ----------------------------
(* Model constants of CoocGraph: a post arrives without the pair or with it. *)
EXTENDS CoocGraph

MCTagLists == {{"t1"}, {"t1", "t2"}}
=============================================================================
