---------------------------- MODULE SeenRegistry ----------------------------
(***************************************************************************)
(* The durable evidence of what an account has already seen: the table     *)
(* feed_interactions (db/feed.rs), the exposure registry feed_shown_posts   *)
(* and the aggregate account_tag_feedback, every one of them written        *)
(* through the single SQLite writer, so a transaction is one step.          *)
(*                                                                          *)
(* A request that fails the ownership check changes nothing and is left     *)
(* out.  Time is counted in days, the unit of both dedup windows and of the *)
(* registry's retention.                                                    *)
(***************************************************************************)
EXTENDS Integers, FiniteSets

CONSTANTS
    Accounts,       \* accounts the device may address
    Posts,
    Tags,
    Sessions,       \* feed session ids minted by browser tabs
    Import,         \* the session id restored rows carry
    TagsOf,         \* TagsOf[p]: the tags linked to p in tags_posts
    ShortDays,      \* runtime.dedup_lookback_days
    LongDays,       \* LONG_TERM_DEDUP_DAYS
    RetentionDays,  \* SHOWN_RETENTION_DAYS
    Events,         \* event types in use
    MaxBatch,       \* bound: interactions in one batch or one export
    MaxCount,       \* bound: no batch is recorded past this feedback count
    MaxDay          \* bound: days a behaviour lasts

Never == -1

ASSUME ConstantsOK ==
    /\ Import \notin Sessions
    /\ TagsOf \in [Posts -> SUBSET Tags]
    /\ Events \subseteq {"qualified_impression", "open"}
    /\ IsFiniteSet(Accounts) /\ IsFiniteSet(Posts) /\ IsFiniteSet(Sessions)
    /\ {MaxBatch, MaxCount, MaxDay} \subseteq Nat

\* What the comment on SHOWN_RETENTION_DAYS asks of the deployment.
ASSUME RetentionCoversWindows ==
    /\ {ShortDays, LongDays, RetentionDays} \subseteq Nat \ {0}
    /\ ShortDays <= RetentionDays /\ LongDays <= RetentionDays

Day == {Never} \cup Nat

\* UNIQUE(account_id, post_id, event_type, session_id)
Row == [account : Accounts, post : Posts, event : Events,
        session : Sessions \cup {Import}]

Counts == [imp : Nat, pos : Nat]

VARIABLES
    catalog,    \* posts with a row in `posts`
    served,     \* posts some response handed to a browser
    created,    \* created[r]: day the interaction row was written, or Never
    shown,      \* shown[a][p]: last_shown_at, or Never
    feedback,   \* feedback[a][t]: impression and positive counts
    restoring,  \* accounts whose import has committed but not been aggregated
    now

vars == <<catalog, served, created, shown, feedback, restoring, now>>

TypeOK ==
    /\ catalog \subseteq Posts
    /\ served \subseteq Posts
    /\ created \in [Row -> Day]
    /\ shown \in [Accounts -> [Posts -> Day]]
    /\ feedback \in [Accounts -> [Tags -> Counts]]
    /\ restoring \subseteq Accounts
    /\ now \in Nat

Init ==
    /\ catalog \in SUBSET Posts
    /\ served = {}
    /\ created = [r \in Row |-> Never]
    /\ shown = [a \in Accounts |-> [p \in Posts |-> Never]]
    /\ feedback = [a \in Accounts |-> [t \in Tags |-> [imp |-> 0, pos |-> 0]]]
    /\ restoring = {}
    /\ now = 0

-----------------------------------------------------------------------------
(* Reading the evidence *)

InWindow(day, days) == day # Never /\ day >= now - days

\* SEEN_POST_IDS_SQL: an interaction or a confirmed sighting.
Seen(a, days) ==
    {p \in Posts :
        \/ InWindow(shown[a][p], days)
        \/ \E r \in Row : /\ r.account = a /\ r.post = p
                          /\ InWindow(created[r], days)}

\* The rows of `rows` about a tag, one count per event type.
Count(rows, a, t, e) ==
    Cardinality({r \in rows : r.account = a /\ r.event = e /\ t \in TagsOf[r.post]})

Tally(rows, a) ==
    [t \in Tags |-> [imp |-> Count(rows, a, t, "qualified_impression"),
                     pos |-> Count(rows, a, t, "open")]]

Written == {r \in Row : created[r] # Never}

-----------------------------------------------------------------------------
(* Mistakes this code could make, each put in place of a definition below to
   see that a property notices it *)

CountRetries(batch) == batch            \* the row count of the request, not of the insert

KeepFirstSighting(old) == IF old = Never THEN now ELSE old

UnflooredCount(n) == n

StaleEarly(day) == day # Never /\ day <= now - RetentionDays

-----------------------------------------------------------------------------
(* Operations *)

\* A response reaches the browser; a live post's catalog row is written by a
\* task of its own, which may not have run yet.
Serve(p) ==
    /\ p \notin served
    /\ served' = served \cup {p}
    /\ UNCHANGED <<catalog, created, shown, feedback, restoring, now>>

PersistCatalog(p) ==
    /\ p \notin catalog
    /\ catalog' = catalog \cup {p}
    /\ UNCHANGED <<served, created, shown, feedback, restoring, now>>

FreshRows(batch) == {r \in batch : created[r] = Never}

\* UPSERT_SHOWN_POST_SQL: a later look always moves last_shown_at.
LastShown(old) == now

\* POST /interaction (a batch of one) and /interaction/batch.  INSERT OR IGNORE
\* skips rows that exist; a row whose post is not in the catalog breaks the
\* foreign key and rolls the whole transaction back.
RecordBatch(batch) ==
    LET fresh == FreshRows(batch)
    IN  /\ \A r \in fresh : r.post \in catalog
        /\ created' = [r \in Row |-> IF r \in fresh THEN now ELSE created[r]]
        /\ shown' = [a \in Accounts |-> [p \in Posts |->
               IF \E r \in fresh : r.account = a /\ r.post = p
               THEN LastShown(shown[a][p]) ELSE shown[a][p]]]
        /\ feedback' = [a \in Accounts |-> [t \in Tags |->
               [imp |-> feedback[a][t].imp + Tally(fresh, a)[t].imp,
                pos |-> feedback[a][t].pos + Tally(fresh, a)[t].pos]]]
        /\ UNCHANGED <<catalog, served, restoring, now>>

MaxZero(n) == IF n < 0 THEN 0 ELSE n

\* Remove one event, reverse its aggregate and drop the exposure row.
Undo(r) ==
    /\ created[r] # Never
    /\ created' = [created EXCEPT ![r] = Never]
    /\ shown' = [shown EXCEPT ![r.account][r.post] = Never]
    /\ feedback' = [feedback EXCEPT ![r.account] = [t \in Tags |->
           [imp |-> MaxZero(@[t].imp - Tally({r}, r.account)[t].imp),
            pos |-> MaxZero(@[t].pos - Tally({r}, r.account)[t].pos)]]]
    /\ UNCHANGED <<catalog, served, restoring, now>>

\* Forget everything the account saw (its feed session rows: FeedSession).
Clear(a) ==
    /\ created' = [r \in Row |-> IF r.account = a THEN Never ELSE created[r]]
    /\ shown' = [shown EXCEPT ![a] = [p \in Posts |-> Never]]
    /\ feedback' = [feedback EXCEPT ![a] = Tally({}, a)]
    /\ UNCHANGED <<catalog, served, restoring, now>>

\* Import, first transaction: the exported rows under the fixed session.
Restore(a, items, day) ==
    LET offered == {r \in Row : /\ r.account = a /\ r.session = Import
                                /\ <<r.post, r.event>> \in items}
        fresh == FreshRows(offered)
    IN  /\ items # {}
        /\ \A r \in fresh : r.post \in catalog
        /\ created' = [r \in Row |-> IF r \in fresh THEN day ELSE created[r]]
        /\ restoring' = restoring \cup {a}
        /\ UNCHANGED <<catalog, served, shown, feedback, now>>

\* Import, second transaction: the aggregate recomputed from the whole history.
RebuildFeedback(a) ==
    /\ a \in restoring
    /\ restoring' = restoring \ {a}
    /\ feedback' = [feedback EXCEPT ![a] = Tally(Written, a)]
    /\ UNCHANGED <<catalog, served, created, shown, now>>

\* The process stops between the two transactions of an import.
Crash ==
    /\ restoring # {}
    /\ restoring' = {}
    /\ UNCHANGED <<catalog, served, created, shown, feedback, now>>

\* Decay takes a rounded share of every count once a day has passed, `half`
\* half-lives of it; a row at zero is deleted, which reads as zero.
Decayed(n, half) == IF half = 1 THEN (n + 1) \div 2 ELSE 0

Decay(a, half) ==
    /\ now > 0
    /\ feedback' = [feedback EXCEPT ![a] = [t \in Tags |->
           [imp |-> Decayed(@[t].imp, half), pos |-> Decayed(@[t].pos, half)]]]
    /\ UNCHANGED <<catalog, served, created, shown, restoring, now>>

\* Every catalog delete; ON DELETE CASCADE takes the interactions with it.
DeletePost(p) ==
    /\ p \in catalog
    /\ catalog' = catalog \ {p}
    /\ created' = [r \in Row |-> IF r.post = p THEN Never ELSE created[r]]
    /\ UNCHANGED <<served, shown, feedback, restoring, now>>

Stale(day) == day # Never /\ day < now - RetentionDays

\* Retention of the exposure registry, run by the cache pruner.
PruneShown ==
    /\ \E a \in Accounts, p \in Posts : Stale(shown[a][p])
    /\ shown' = [a \in Accounts |-> [p \in Posts |->
           IF Stale(shown[a][p]) THEN Never ELSE shown[a][p]]]
    /\ UNCHANGED <<catalog, served, created, feedback, restoring, now>>

NextDay ==
    /\ now < MaxDay
    /\ now' = now + 1
    /\ UNCHANGED <<catalog, served, created, shown, feedback, restoring>>

\* What one POST may carry: cards of one browser, on posts it was served.
Batches ==
    {b \in SUBSET {r \in Row : r.session # Import /\ r.post \in served} :
        /\ b # {} /\ Cardinality(b) <= MaxBatch
        /\ \A r \in b, t \in Tags : LET f == feedback[r.account][t]
                                   IN  f.imp < MaxCount /\ f.pos < MaxCount}

Exports == {items \in SUBSET (Posts \X Events) : Cardinality(items) <= MaxBatch}

Next ==
    \/ \E p \in Posts : Serve(p) \/ PersistCatalog(p) \/ DeletePost(p)
    \/ \E b \in Batches : RecordBatch(b)
    \/ \E r \in Row : Undo(r)
    \/ \E a \in Accounts : Clear(a) \/ RebuildFeedback(a)
    \/ \E a \in Accounts, items \in Exports, d \in 0..now : Restore(a, items, d)
    \/ \E a \in Accounts, half \in {1, 2} : Decay(a, half)
    \/ Crash
    \/ PruneShown
    \/ NextDay

Spec == Init /\ [][Next]_vars

-----------------------------------------------------------------------------
(* Properties *)

\* A sighting that is still registered is at least as recent as every row a
\* browser recorded for the post, so age-based retention never judges a post
\* by an older look than its last one (upsert_shown_posts in the same
\* transaction as the interaction, prune_shown_posts by last_shown_at).
SightingIsLatest ==
    \A r \in Row :
        r.session # Import /\ shown[r.account][r.post] # Never
            => created[r] <= shown[r.account][r.post]

\* A post leaves a dedup window only because days pass, because the account
\* clears its history or undoes an event on it, or because the post was known
\* through interactions alone and its catalog row is deleted.  Retention never
\* forgets a look a window still needs, and a registered sighting outlives the
\* catalog row (SHOWN_RETENTION_DAYS, V36__feed_shown_posts.sql).
WindowsForgetOnlyOnRemoval ==
    [][\A a \in Accounts, days \in {ShortDays, LongDays} :
         \A p \in Seen(a, days) \ Seen(a, days)' :
           \/ now' # now
           \/ Clear(a)
           \/ \E r \in Written : r.account = a /\ r.post = p /\ Undo(r)
           \/ ~InWindow(shown[a][p], days) /\ p \in catalog \ catalog']_vars

Windows == {"recent", "long"}

\* What get_recently_seen_post_ids and get_long_term_seen_post_ids answer.
Lookback(w) == IF w = "recent" THEN ShortDays ELSE LongDays
Dedup(a) == [w \in Windows |-> Seen(a, Lookback(w))]

Table(a) == INSTANCE SeenTable WITH Posts <- Posts, Windows <- Windows, seen <- Dedup(a)

\* Posts about which a batch brings a row that the account does not have.
Looked(a, b) == {p \in Posts : \E r \in b : r.account = a /\ r.post = p /\ created[r] = Never}

\* The two windows of every account change only the way SeenTable says, which
\* is what the caches rely on: within a day one write at a time, a recorded
\* batch being one look that enters both windows, and over days only losses
\* (merge_recent_seen and merge_long_term_seen apply the same ids to both).
WindowsAreATable ==
    [][\A a \in Accounts :
         /\ now' = now => Table(a)!Write \/ UNCHANGED Dedup(a)
         /\ now' # now => Table(a)!Age
         /\ \A b \in Batches : RecordBatch(b) => Table(a)!Look(Looked(a, b))]_vars

\* The aggregate never gains more than the history gains in the same step,
\* whatever is retried or replayed, except when it is recomputed and then it
\* is exactly the history (record_feed_interactions_batch, a re-imported
\* export, rebuild_account_tag_feedback).
FeedbackFollowsHistory ==
    [][\A a \in Accounts, t \in Tags :
           LET old == Tally(Written, a)[t]
               new == Tally(Written', a)[t]
           IN  \/ feedback'[a][t] = new
               \/ /\ feedback'[a][t].imp - feedback[a][t].imp
                        <= IF new.imp > old.imp THEN new.imp - old.imp ELSE 0
                  /\ feedback'[a][t].pos - feedback[a][t].pos
                        <= IF new.pos > old.pos THEN new.pos - old.pos ELSE 0]_vars
=============================================================================
