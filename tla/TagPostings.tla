----------------------------- MODULE TagPostings -----------------------------
(***************************************************************************)
(* The tag postings of the catalog: tags_posts, the document frequency the  *)
(* database keeps beside every tag (tags.df), and the delta each            *)
(* transaction hands to the in-memory index (db/tags.rs, db/posts.rs).      *)
(*                                                                          *)
(* Posts of one batch do not interact here, so a batch is one post.  A post *)
(* without a row and a post without tags look alike.  Tags the importing    *)
(* account blacklists are missing from the set a save is given.             *)
(***************************************************************************)
EXTENDS Integers, FiniteSets

CONSTANTS Posts, Tags

ASSUME FinitePosts == IsFiniteSet(Posts)

VARIABLES
    tagged,     \* tagged[p]: the rows of tags_posts about p
    df          \* df[t]: the column tags.df

NoDelta == [t \in Tags |-> 0]

\* The count that recompute_df_for_tags takes.
Carriers(t, postings) == {p \in Posts : t \in postings[p]}

PostingsTypeOK ==
    /\ tagged \in [Posts -> SUBSET Tags]
    /\ df \in [Tags -> Nat]

PostingsInit ==
    /\ tagged = [p \in Posts |-> {}]
    /\ df = [t \in Tags |-> 0]

-----------------------------------------------------------------------------
(* Mistakes this code could make, each put in place of a definition below to
   see that a property notices it *)

CountBeforeInsert(touched, postings) ==
    [t \in Tags |-> IF t \in touched
                    THEN Cardinality(Carriers(t, tagged)) ELSE df[t]]

-----------------------------------------------------------------------------

\* recompute_df_for_tags, in the same transaction as the postings.
Recounted(touched, postings) ==
    [t \in Tags |-> IF t \in touched
                    THEN Cardinality(Carriers(t, postings)) ELSE df[t]]

\* save_posts_tags_batch_in_tx: INSERT OR IGNORE, then a recount of every tag
\* mentioned.  The delta counts the rows that were really inserted.
Save(p, tags) ==
    /\ tagged' = [tagged EXCEPT ![p] = @ \cup tags]
    /\ df' = Recounted(tags, tagged')

SaveDelta(p, tags) == [t \in Tags |-> IF t \in tags \ tagged[p] THEN 1 ELSE 0]

\* replace_posts_tags_batch: the rows of the post are deleted first, so every
\* tag of the new set counts as inserted and no dropped tag is recounted.
Hydrate(p, tags) ==
    /\ tagged[p] # {}
    /\ tagged' = [tagged EXCEPT ![p] = tags]
    /\ df' = Recounted(tags, tagged')

HydrateDelta(tags) == [t \in Tags |-> IF t \in tags THEN 1 ELSE 0]

\* delete_posts_by_ids_in_tx: the cascade takes the postings.
Remove(p) ==
    /\ tagged[p] # {}
    /\ tagged' = [tagged EXCEPT ![p] = {}]
    /\ df' = Recounted(tagged[p], tagged')

RemoveDelta(p) == [t \in Tags |-> IF t \in tagged[p] THEN -1 ELSE 0]

-----------------------------------------------------------------------------
(* Properties *)

\* The stored frequency never falls short of the postings, so no tag in use is
\* scored as rarer than it is, in whatever order posts are saved, hydrated and
\* deleted (recompute_df_for_tags at the end of each transaction).
DfCoversPostings == \A t \in Tags : Cardinality(Carriers(t, tagged)) <= df[t]

\* Hydration leaves no stale scorer data behind: the stored frequency is the
\* number of postings ("retaining removed tags would leave stale
\* scorer/category data", replace_posts_tags_batch).
DfIsExact == \A t \in Tags : Cardinality(Carriers(t, tagged)) = df[t]
=============================================================================
