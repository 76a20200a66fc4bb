------------------------------ MODULE Evidence ------------------------------
(***************************************************************************)
(* What the delivery of looks promises, whatever happens between the page   *)
(* and the database: a look counts from the one step that records it to the *)
(* step that forgets it, and nothing is recorded that nobody made.          *)
(* InteractionDelivery implements it.                                       *)
(***************************************************************************)
EXTENDS Naturals

CONSTANT Looks  \* one event of one tab session about one post

VARIABLES
    made,     \* looks a card reported
    recorded, \* rows of feed_interactions
    counted   \* counted[l]: what l adds to account_tag_feedback

vars == <<made, recorded, counted>>

Init == made = {} /\ recorded = {} /\ counted = [l \in Looks |-> 0]

Make(l) ==
    /\ made' = made \cup {l}
    /\ UNCHANGED <<recorded, counted>>

Record(fresh) ==
    /\ fresh \subseteq made \ recorded
    /\ recorded' = recorded \cup fresh
    /\ counted' = [l \in Looks |-> IF l \in fresh THEN counted[l] + 1 ELSE counted[l]]
    /\ UNCHANGED made

Forget(ls) ==
    /\ ls \subseteq recorded
    /\ recorded' = recorded \ ls
    /\ counted' = [l \in Looks |-> IF l \in ls THEN 0 ELSE counted[l]]
    /\ UNCHANGED made

Next ==
    \/ \E l \in Looks : Make(l)
    \/ \E ls \in SUBSET Looks : Record(ls) \/ Forget(ls)

Spec == Init /\ [][Next]_vars

\* A recorded look counts once, one that is not recorded does not count
\* (inserted > 0, record_feed_interactions_batch).
CountedOnce == \A l \in Looks : counted[l] = IF l \in recorded THEN 1 ELSE 0
=============================================================================
