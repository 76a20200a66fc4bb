------------------------------ MODULE SeenCache ------------------------------
(***************************************************************************)
(* The short-lived copies of one account's seen posts (db/hydrate_cache.rs):*)
(* one entry for the short dedup window and one for the long window, filled *)
(* by readers that query the table outside any lock, extended by the writer *)
(* that records a look and dropped by the writer that removes one.  Accounts*)
(* have entries of their own and do not interact.                           *)
(*                                                                          *)
(* What the table does is taken from SeenTable, which SeenRegistry is shown *)
(* to implement.                                                            *)
(***************************************************************************)
CONSTANTS
    Posts,
    Readers,    \* feed requests in flight
    Writers     \* interaction requests in flight

Windows == {"recent", "long"}

ASSUME ReadersAreNoWindows == Readers \cap Windows = {}

VARIABLES
    seen,       \* seen[w]: what the table says, the answer of SEEN_POST_IDS_SQL
    warm,       \* windows whose entry exists and is younger than its TTL
    entry,      \* entry[w]: the set it holds; nothing when it is not warm
    reader,     \* reader[r]: where a cache read of a request stands
    todo,       \* todo[u]: cache updates a committed write has yet to apply
    \* ghost: what each warm entry or fill in flight could not know
    raced,      \* looks recorded after its query and before its store
    imported    \* looks an import added after its query

vars == <<seen, warm, entry, reader, todo, raced, imported>>

Table == INSTANCE SeenTable WITH Posts <- Posts, Windows <- Windows, seen <- seen

Idle == [at |-> "idle", window |-> "recent", answer |-> {}]

Reading == [at : {"idle", "missed", "answered"}, window : Windows, answer : SUBSET Posts]

\* A writer's cache updates: the short window's, then the long one's.
Job == [op : {"merge", "clear", "none"}, next : Windows \cup {"done"}, posts : SUBSET Posts]

Done == [op |-> "none", next |-> "done", posts |-> {}]

\* Ghost sets exist for the entries and for the fills in flight.
Copies == Windows \cup Readers

TypeOK ==
    /\ seen \in [Windows -> SUBSET Posts]
    /\ warm \subseteq Windows /\ \A w \in Windows \ warm : entry[w] = {}
    /\ entry \in [Windows -> SUBSET Posts]
    /\ reader \in [Readers -> Reading]
    /\ todo \in [Writers -> Job]
    /\ raced \in [Copies -> SUBSET Posts]
    /\ imported \in [Copies -> SUBSET Posts]

Init ==
    /\ Table!Init
    /\ warm = {}
    /\ entry = [w \in Windows |-> {}]
    /\ reader = [r \in Readers |-> Idle]
    /\ todo = [u \in Writers |-> Done]
    /\ raced = [c \in Copies |-> {}]
    /\ imported = [c \in Copies |-> {}]

-----------------------------------------------------------------------------
(* Mistakes this code could make, each put in place of a definition below to
   see that a property notices it *)

RecentOnly(job) == Done

MergeFabricates(w, posts) ==
    /\ entry' = [entry EXCEPT ![w] = @ \cup posts]
    /\ UNCHANGED <<warm, raced, imported>>

NeverExpires(w) == FALSE

-----------------------------------------------------------------------------
(* Writers: one transaction, then one locked cache update after another *)

Merging(posts) == [op |-> "merge", next |-> "recent", posts |-> posts]

Clearing == [op |-> "clear", next |-> "recent", posts |-> {}]

After(job) == IF job.next = "recent" THEN [job EXCEPT !.next = "long"] ELSE Done

\* Fills whose query is behind them have missed what commits now.
InFlight == {r \in Readers : reader[r].at = "answered"}

\* The transaction of a batch that inserted rows about `posts`.
Record(u, posts) ==
    /\ todo[u] = Done /\ posts # {}
    /\ Table!Look(posts)
    /\ todo' = [todo EXCEPT ![u] = Merging(posts)]
    /\ raced' = [c \in Copies |-> IF c \in InFlight THEN raced[c] \cup posts ELSE raced[c]]
    /\ UNCHANGED <<warm, entry, reader, imported>>

\* The transaction of an undo that deleted its row.
Undo(u, p) ==
    /\ todo[u] = Done
    /\ Table!Forget(p)
    /\ todo' = [todo EXCEPT ![u] = Clearing]
    /\ UNCHANGED <<warm, entry, reader, raced, imported>>

\* The transaction of a cleared history.
Clear(u) ==
    /\ todo[u] = Done
    /\ Table!Clear
    /\ todo' = [todo EXCEPT ![u] = Clearing]
    /\ UNCHANGED <<warm, entry, reader, raced, imported>>

\* merge_into: a no-op on an absent or expired entry.
Merge(w, posts) ==
    /\ entry' = [entry EXCEPT ![w] = IF w \in warm THEN @ \cup posts ELSE @]
    /\ UNCHANGED <<warm, raced, imported>>

\* clear_set, an expired entry and an evicted one: the window has no entry.
Drop(w) ==
    /\ warm' = warm \ {w}
    /\ entry' = [entry EXCEPT ![w] = {}]
    /\ raced' = [raced EXCEPT ![w] = {}]
    /\ imported' = [imported EXCEPT ![w] = {}]

\* The next cache update of a writer, under the lock of its map.
UpdateCache(u) ==
    /\ todo[u] # Done
    /\ \/ todo[u].op = "merge" /\ Merge(todo[u].next, todo[u].posts)
       \/ todo[u].op = "clear" /\ Drop(todo[u].next)
    /\ todo' = [todo EXCEPT ![u] = After(@)]
    /\ UNCHANGED <<seen, reader>>

\* An import writes rows of any age and updates no cache.
Import(posts) ==
    /\ posts # {}
    /\ Table!Backfill(posts)
    /\ imported' = [c \in Copies |->
           IF c \in InFlight \cup warm THEN imported[c] \cup posts ELSE imported[c]]
    /\ UNCHANGED <<warm, entry, reader, todo, raced>>

\* A catalog row is deleted and takes its interactions along; no cache is told.
DeletePost(p) ==
    /\ Table!Forget(p)
    /\ UNCHANGED <<warm, entry, reader, todo, raced, imported>>

\* Days pass: a window lets go of the looks that have become too old for it.
Age ==
    /\ Table!Age
    /\ UNCHANGED <<warm, entry, reader, todo, raced, imported>>

-----------------------------------------------------------------------------
(* Readers: get_recently_seen_post_ids and get_long_term_seen_post_ids *)

Miss(r, w) ==
    /\ reader[r].at = "idle" /\ w \notin warm
    /\ reader' = [reader EXCEPT ![r].at = "missed", ![r].window = w]
    /\ UNCHANGED <<seen, warm, entry, todo, raced, imported>>

Query(r) ==
    /\ reader[r].at = "missed"
    /\ reader' = [reader EXCEPT ![r].at = "answered", ![r].answer = seen[reader[r].window]]
    /\ raced' = [raced EXCEPT ![r] = {}]
    /\ imported' = [imported EXCEPT ![r] = {}]
    /\ UNCHANGED <<seen, warm, entry, todo>>

Store(r) ==
    /\ reader[r].at = "answered"
    /\ LET w == reader[r].window
       IN  /\ warm' = warm \cup {w}
           /\ entry' = [entry EXCEPT ![w] = reader[r].answer]
           /\ raced' = [raced EXCEPT ![w] = raced[r], ![r] = {}]
           /\ imported' = [imported EXCEPT ![w] = imported[r], ![r] = {}]
    /\ reader' = [reader EXCEPT ![r] = Idle]
    /\ UNCHANGED <<seen, todo>>

\* The entry outlives its TTL, or is evicted as the oldest of a full map; reads
\* and merges treat both as absent.
Expire(w) ==
    /\ w \in warm
    /\ Drop(w)
    /\ UNCHANGED <<seen, reader, todo>>

Next ==
    \/ \E u \in Writers :
         \/ \E posts \in SUBSET Posts : Record(u, posts)
         \/ \E p \in Posts : Undo(u, p)
         \/ Clear(u)
         \/ UpdateCache(u)
    \/ \E posts \in SUBSET Posts : Import(posts)
    \/ \E p \in Posts : DeletePost(p)
    \/ Age
    \/ \E r \in Readers : (\E w \in Windows : Miss(r, w)) \/ Query(r) \/ Store(r)
    \/ \E w \in Windows : Expire(w)

Spec == Init /\ [][Next]_vars

\* Time passes, and a request that has started runs to its end.
Fairness ==
    /\ \A w \in Windows : WF_vars(Expire(w))
    /\ \A r \in Readers : WF_vars(Query(r) \/ Store(r))
    /\ \A u \in Writers : WF_vars(UpdateCache(u))

FairSpec == Spec /\ Fairness

-----------------------------------------------------------------------------
(* Properties *)

\* Looks whose merge into window w has not run yet.
Unmerged(w) == UNION {todo[u].posts : u \in {v \in Writers : todo[v].next \in {"recent", w}}}

\* A warm entry misses a seen post only if the post's look raced the fill, is
\* about to be merged, or came from an import: otherwise the feed would serve
\* it again for a whole TTL (merge_recent_seen, merge_long_term_seen).
MissesOnlyRacingLooks ==
    \A w \in Windows :
        w \in warm => seen[w] \ entry[w] \subseteq raced[w] \cup imported[w] \cup Unmerged(w)

\* What a read returns settles on the table: a look that stays in a window ends
\* up in its warm entry, and one that left it does not, without any invalidation
\* being exact (the 20 s and 30 s TTLs of hydrate_cache.rs).
StaleIsTemporary ==
    \A p \in Posts, w \in Windows :
        /\ <>[](p \in seen[w]) => <>[](w \in warm => p \in entry[w])
        /\ <>[](p \notin seen[w]) => <>[](w \in warm => p \notin entry[w])
=============================================================================
