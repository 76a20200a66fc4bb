--------------------------- MODULE MCProcessJobs ---------------------------
(* Model constants of ProcessJobs: one favourite, and a second that may be
   added later and that the other account owns already. *)
EXTENDS ProcessJobs

CONSTANTS a1, a2, p1, p2

MCFavourites == [a \in Accounts |-> IF a = a1 THEN <<p2>> ELSE <<p1>>]

MCOwned == [a \in Accounts |-> IF a = a1 THEN {} ELSE {p1}]
=============================================================================
