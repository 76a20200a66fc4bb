------------------------------ MODULE SeenTable ------------------------------
(***************************************************************************)
(* The posts one account's dedup windows hold, as everything but the        *)
(* database may take them: what one look, one import, one deletion or the   *)
(* passing of days does to the answers of SEEN_POST_IDS_SQL.                *)
(*                                                                          *)
(* SeenRegistry implements it, with the windows read from its tables; the   *)
(* caches of SeenCache copy it and are modelled over its steps.             *)
(***************************************************************************)
CONSTANTS Posts, Windows

VARIABLE seen   \* seen[w]: posts with evidence young enough for window w

Contents == [Windows -> SUBSET Posts]

Init == seen \in Contents

\* A look that is recorded counts in every window at once.
Look(posts) == seen' = [w \in Windows |-> seen[w] \cup posts]

\* Imported evidence counts in the windows that reach back to its date.
Backfill(posts) ==
    \E reached \in SUBSET Windows :
        seen' = [w \in Windows |-> IF w \in reached THEN seen[w] \cup posts ELSE seen[w]]

\* A piece of evidence about a post goes; windows that have other evidence of
\* it keep the post.
Forget(p) ==
    \E left \in SUBSET Windows :
        seen' = [w \in Windows |-> IF w \in left THEN seen[w] \ {p} ELSE seen[w]]

Clear == seen' = [w \in Windows |-> {}]

\* Days pass, and nothing becomes younger.
Age == seen' \in Contents /\ \A w \in Windows : seen'[w] \subseteq seen[w]

\* What can happen within a day.
Write ==
    \/ \E posts \in SUBSET Posts : Look(posts) \/ Backfill(posts)
    \/ \E p \in Posts : Forget(p)
    \/ Clear

Next == Write \/ Age

Spec == Init /\ [][Next]_seen
=============================================================================
