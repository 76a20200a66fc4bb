----------------------- MODULE MCInteractionDelivery -----------------------
(* Model values for InteractionDelivery: two events about one post. *)
EXTENDS InteractionDelivery, TLC
CONSTANTS p1, l1, l2

MCPostOf == (l1 :> p1) @@ (l2 :> p1)
=============================================================================
