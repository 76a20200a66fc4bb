------------------------------ MODULE CoocGraph ------------------------------
(***************************************************************************)
(* How often two tags meet on a post: tag_cooccurrence, counted live by     *)
(* tracked saves (db/tags.rs) and once at boot by a resumable backfill      *)
(* (db/cooccurrence_backfill.rs), and account_tag_cooccurrence, counted     *)
(* live for the account whose favourite a post is, wiped by a full import   *)
(* and rebuilt by the backfill (db/cooccurrence.rs).                        *)
(*                                                                          *)
(* Both tables only ever add the pairs of one post or drop everything, so   *)
(* a count is kept here as its summands: how many times each post has been  *)
(* counted for each pair.  The row of a pair exists when a summand is       *)
(* positive.  There is one account; its other state is in ProcessJobs.      *)
(***************************************************************************)
EXTENDS Integers, FiniteSets

CONSTANTS
    Tags,
    TagLists,  \* the tag sets that posts arrive with
    LastId,    \* posts have the ids 1..LastId
    BatchSize, \* COOC_BACKFILL_BATCH
    MaxLives,  \* bound: times a post gets its first tag row
    MaxSaves   \* bound: times a pair of one post is counted for the account

ASSUME GraphConstantsOK ==
    /\ TagLists \subseteq SUBSET Tags
    /\ LastId \in Nat /\ BatchSize \in Nat \ {0} /\ MaxLives \in Nat /\ MaxSaves \in Nat

Posts == 1..LastId

Pairs == {q \in SUBSET Tags : \E s, t \in q : s # t /\ q = {s, t}}

VARIABLES
    rows,      \* rows[p]: tags_posts
    lib,       \* accounts_post of the account
    global,    \* tag_cooccurrence, by post
    personal,  \* account_tag_cooccurrence of the account, by post
    watermark, \* tag_cooccurrence_backfill.last_post_id
    filler,    \* the cooc-backfill thread
    teardown,  \* a full import has dropped the library, and not yet the pairs
    \* ghosts
    lives,     \* lives[p]: times the post went from no tags to some
    passes,    \* passes[p]: times the backfill counted the post
    late       \* pairs a post got uncounted, at an id the backfill was done with

vars == <<rows, lib, global, personal, watermark, filler, teardown, lives, passes, late>>

FillerStep == {"boot", "reading", "counting", "account", "rebuilding", "off"}

Counts == [Posts -> [Pairs -> Nat]]

TypeOK ==
    /\ rows \in [Posts -> SUBSET Tags]
    /\ lib \in SUBSET Posts
    /\ global \in Counts /\ personal \in Counts
    /\ watermark \in 0..LastId
    /\ filler \in [at : FillerStep, last : 0..LastId, batch : SUBSET Posts, pending : BOOLEAN]
    /\ teardown \in BOOLEAN
    /\ lives \in [Posts -> Nat] /\ passes \in [Posts -> Nat]
    /\ late \in SUBSET (Posts \X Pairs)

NoCounts == [p \in Posts |-> [q \in Pairs |-> 0]]

Filler(at, last, batch, pending) ==
    [at |-> at, last |-> last, batch |-> batch, pending |-> pending]

Init ==
    /\ rows = [p \in Posts |-> {}]
    /\ lib = {}
    /\ global = NoCounts /\ personal = NoCounts
    /\ watermark = 0
    /\ filler = Filler("boot", 0, {}, FALSE)
    /\ teardown = FALSE
    /\ lives = [p \in Posts |-> 0] /\ passes = [p \in Posts |-> 0]
    /\ late = {}

-----------------------------------------------------------------------------
(* Mistakes this code could make, each put in place of a definition below to
   see that a property notices it *)

NeverHadTags(p) == TRUE

PastTheBatch(last) == last + 1

UpsertPairs(p, q) == FALSE

SkipABatch(last) == {p \in Posts : p > last + 1 /\ rows[p] # {}}

RetryForever == Filler("reading", watermark, {}, filler.pending)

-----------------------------------------------------------------------------
(* Saves *)

\* The pairs of a post with these tags are counted once more.
Counted(table, p, tags) ==
    [table EXCEPT ![p] = [q \in Pairs |-> IF q \subseteq tags THEN @[q] + 1 ELSE @[q]]]

\* Everything up to here is counted by the backfill, or about to be from a
\* batch that is already listed.
Horizon == IF filler.last > watermark THEN filler.last ELSE watermark

NewPairs(p, tags) == {q \in Pairs : q \subseteq tags /\ ~(q \subseteq rows[p])}

\* The rows of p become tags; counted says whether the save counts its pairs.
Tagged(p, tags, counted) ==
    /\ lives' = IF rows[p] = {} /\ tags # {} THEN [lives EXCEPT ![p] = @ + 1] ELSE lives
    /\ rows' = [rows EXCEPT ![p] = tags]
    /\ late' = {pq \in late : pq[1] # p \/ pq[2] \subseteq tags}
               \cup IF ~counted /\ p <= Horizon THEN {p} \X NewPairs(p, tags) ELSE {}

Revivable(p) == rows[p] = {} => lives[p] < MaxLives

Untagged(p) == rows[p] = {}

\* save_posts_with_tags for a favourite: the global pairs when the post had no
\* tags, the account's pairs in any case.
SaveFavourite(p, tags) ==
    /\ Revivable(p) /\ \A q \in Pairs : personal[p][q] < MaxSaves
    /\ Tagged(p, rows[p] \cup tags, Untagged(p))
    /\ global' = IF Untagged(p) THEN Counted(global, p, tags) ELSE global
    /\ personal' = Counted(personal, p, tags)
    /\ lib' = lib \cup {p}
    /\ UNCHANGED <<watermark, filler, teardown, passes>>

\* upsert_catalog_posts_with_tags
SaveCatalog(p, tags) ==
    /\ Revivable(p)
    /\ Tagged(p, rows[p] \cup tags, FALSE)
    /\ UNCHANGED <<lib, global, personal, watermark, filler, teardown, passes>>

\* replace_posts_tags_batch
Hydrate(p, tags) ==
    /\ rows[p] # {}
    /\ Tagged(p, tags, FALSE)
    /\ UNCHANGED <<lib, global, personal, watermark, filler, teardown, passes>>

\* The cascade of a deleted post; the counts are not taken back.
Deleted(ps) ==
    /\ rows' = [p \in Posts |-> IF p \in ps THEN {} ELSE rows[p]]
    /\ late' = {pq \in late : pq[1] \notin ps}

\* prune_orphan_posts_batched
Prune(p) ==
    /\ p \notin lib
    /\ Deleted({p})
    /\ UNCHANGED <<lib, global, personal, watermark, filler, teardown, lives, passes>>

\* drop_account_posts: what no other account owns is deleted.
DropLibrary ==
    /\ ~teardown /\ teardown' = TRUE
    /\ lib' = {}
    /\ \E exclusive \in SUBSET lib : Deleted(exclusive)
    /\ UNCHANGED <<global, personal, watermark, filler, lives, passes>>

\* drop_account_cooccurrence
DropPairs ==
    /\ teardown /\ teardown' = FALSE
    /\ personal' = NoCounts
    /\ UNCHANGED <<rows, lib, global, watermark, filler, lives, passes, late>>

-----------------------------------------------------------------------------
(* The backfill thread *)

Ahead(last) == {p \in Posts : p > last /\ rows[p] # {}}

\* needs_global_backfill and accounts_needing_cooc; the thread stops at once
\* when an import is running.
Probe ==
    /\ filler.at = "boot"
    /\ LET pending == lib # {} /\ personal = NoCounts
       IN  \/ filler' = Filler("off", 0, {}, FALSE)
           \/ /\ Ahead(watermark) # {}
              /\ filler' = Filler("reading", watermark, {}, pending)
           \/ /\ Ahead(watermark) = {} /\ pending
              /\ filler' = Filler("account", 0, {}, pending)
    /\ UNCHANGED <<rows, lib, global, personal, watermark, teardown, lives, passes, late>>

\* The next ids in ascending order, on a pool connection.
Batch(ids) == {p \in ids : Cardinality({o \in ids : o < p}) < BatchSize}

ReadBatch ==
    /\ filler.at = "reading"
    /\ LET batch == Batch(Ahead(filler.last))
       IN  filler' =
             IF batch # {}
             THEN Filler("counting", CHOOSE p \in batch : \A o \in batch : o <= p, batch,
                         filler.pending)
             ELSE Filler(IF filler.pending THEN "account" ELSE "off", 0, {}, FALSE)
    /\ UNCHANGED <<rows, lib, global, personal, watermark, teardown, lives, passes, late>>

Advanced(last) == last

\* One transaction: the pairs the posts have now, and the watermark.
CountBatch ==
    /\ filler.at = "counting"
    /\ global' = [p \in Posts |-> IF p \in filler.batch
                                    THEN Counted(global, p, rows[p])[p] ELSE global[p]]
    /\ passes' = [p \in Posts |-> IF p \in filler.batch THEN passes[p] + 1 ELSE passes[p]]
    /\ watermark' = Advanced(filler.last)
    /\ filler' = Filler("reading", filler.last, {}, filler.pending)
    /\ UNCHANGED <<rows, lib, personal, teardown, lives, late>>

GivenUp == Filler("off", 0, {}, FALSE)

\* A read or a commit fails, and the thread returns.
BatchFails ==
    /\ filler.at \in {"reading", "counting"}
    /\ filler' = GivenUp
    /\ UNCHANGED <<rows, lib, global, personal, watermark, teardown, lives, passes, late>>

\* set_account_tag_cooccurrence wipes in one transaction and inserts in another.
WipeAccount ==
    /\ filler.at = "account"
    /\ personal' = NoCounts
    /\ filler' = Filler("rebuilding", 0, {}, FALSE)
    /\ UNCHANGED <<rows, lib, global, watermark, teardown, lives, passes, late>>

\* The insert is plain: the row of a pair that is there already refuses all of it.
Refused(p, q) ==
    /\ p \in lib /\ q \subseteq rows[p]
    /\ \E o \in Posts : personal[o][q] > 0

RebuildAccount ==
    /\ filler.at = "rebuilding"
    /\ personal' = IF \E p \in Posts, q \in Pairs : Refused(p, q) THEN personal
                   ELSE [p \in Posts |-> [q \in Pairs |->
                          IF p \in lib /\ q \subseteq rows[p] THEN personal[p][q] + 1
                          ELSE personal[p][q]]]
    /\ filler' = Filler("off", 0, {}, FALSE)
    /\ UNCHANGED <<rows, lib, global, watermark, teardown, lives, passes, late>>

Restart ==
    /\ filler' = Filler("boot", 0, {}, FALSE)
    /\ teardown' = FALSE
    /\ UNCHANGED <<rows, lib, global, personal, watermark, lives, passes, late>>

Backfill == Probe \/ ReadBatch \/ CountBatch \/ BatchFails \/ WipeAccount \/ RebuildAccount

Next ==
    \/ \E p \in Posts, tags \in TagLists :
         SaveFavourite(p, tags) \/ SaveCatalog(p, tags) \/ Hydrate(p, tags)
    \/ \E p \in Posts : Prune(p)
    \/ DropLibrary \/ DropPairs
    \/ Backfill
    \/ Restart

Spec == Init /\ [][Next]_vars

\* The thread runs on; nobody has to save, import or restart.
FairSpec == Spec /\ WF_vars(Backfill)

-----------------------------------------------------------------------------
(* Properties *)

\* However saves, crashes, restarts and deletions follow each other, a post is
\* counted into the global graph at most once by a save in each life of its
\* tags, and at most once by the backfill ever (the watermark and the pairs
\* "must share a commit", set_global_cooc_watermark; had_tags).
OvercountIsBounded ==
    \A p \in Posts :
        /\ passes[p] <= 1 /\ (passes[p] = 1 => p <= watermark)
        /\ \A q \in Pairs : global[p][q] <= lives[p] + passes[p]

\* At or below the watermark every pair of a post is counted, unless the post
\* got it from a path that counts nothing, when the backfill was already past
\* its id or had listed the batch that takes it past (global_cooc_watermark).
NothingIsSkipped ==
    \A p \in Posts, q \in Pairs :
        p <= watermark /\ q \subseteq rows[p] /\ <<p, q>> \notin late => global[p][q] > 0

\* A rebuild of the account that goes through counts no pair of a post twice
\* and misses none of the library's, although favourites are saved, retagged
\* and deleted between its two transactions (set_account_tag_cooccurrence).
RebuildCountsOnce ==
    [][filler.at = "rebuilding" /\ filler'.at = "off" /\ personal' # personal =>
         \A p \in Posts, q \in Pairs :
             /\ p \in lib /\ q \subseteq rows[p] => personal'[p][q] = 1
             /\ personal'[p][q] > 1 => personal[p][q] > 1]_vars

\* The thread comes to its end: it never lists a batch twice, although posts
\* are saved and deleted around it (backfill_global_tag_cooccurrence).
BackfillEnds == filler.at = "reading" ~> filler.at \in {"off", "boot"}
=============================================================================
