----------------------------- MODULE MediaStore -----------------------------
(***************************************************************************)
(* The originals kept on disk: the files under media/ (media_store.rs),     *)
(* their index media_entries (db/media.rs), the download worker             *)
(* (media_fetch_worker.rs) and the routes that delete a post or clear the   *)
(* whole cache (routes/catalog_manage.rs).                                  *)
(*                                                                          *)
(* A file and its row are written and removed in two steps each, nobody     *)
(* holds a lock across them, and the process may end between any two.       *)
(* Every original has one byte.  Eviction takes the rows with the oldest    *)
(* mtime; a touch is sent and forgotten, so any row may be the oldest.      *)
(***************************************************************************)
EXTENDS Integers, Sequences, FiniteSets

CONSTANTS
    Posts,
    Worker,     \* the download worker, which also evicts
    Removers,   \* requests that delete a post or clear the cache
    Broken,     \* posts without an extension, or whose original is never served
    BatchSize,  \* BATCH
    Attempts,   \* ATTEMPTS
    Budget,     \* media_cache_max_bytes, 0 for no limit
    EvictBatch, \* the 16 of evict_to_budget
    MaxMoves    \* bound: what others do in one behaviour

ASSUME StoreConstantsOK ==
    /\ IsFiniteSet(Posts) /\ Posts # {}
    /\ Worker \notin Removers /\ Broken \subseteq Posts
    /\ BatchSize \in Nat \ {0} /\ Attempts \in Nat \ {0} /\ EvictBatch \in Nat \ {0}
    /\ Budget \in Nat /\ MaxMoves \in Nat

Tasks == Removers \cup {Worker}

VARIABLES
    posts,   \* rows of posts
    owned,   \* posts in somebody's library
    hidden,  \* posts without a file_url, or with is_deleted
    seen,    \* all posts, the one with the latest last_seen_at first
    indexed, \* media_entries
    files,   \* originals on disk
    paused,  \* WORKER_PAUSED
    collecting, \* media_cache_enabled: an operator may switch it while the server runs
    worker,  \* where the worker stands, and its local variables
    removal, \* removal[t]: the files and rows t is taking away
    moves,   \* moves of the others, so far
    \* ghosts
    torn,    \* posts whose file went while its row stayed or was to come
    cut      \* an eviction was given up or cut short since the last full one

vars == <<posts, owned, hidden, seen, indexed, files, paused, collecting, worker, removal,
          moves, torn, cut>>
library == <<posts, owned, hidden, seen>>
store == <<indexed, files>>
switches == <<paused, collecting>>
ghosts == <<torn, cut>>

WorkerStep == {"idle", "item", "loading", "saved", "evicting", "gone", "purging"}

RemovalStep == {"none", "unlinked", "unowned", "removing"}

WorkerRecord == [at : WorkerStep, batch : Seq(Posts), post : Posts, tries : 0..Attempts - 1]

RemovalRecord == [at : RemovalStep, list : SUBSET Posts, done : SUBSET Posts, wipe : BOOLEAN]

TypeOK ==
    /\ posts \in SUBSET Posts /\ owned \in SUBSET posts /\ hidden \in SUBSET posts
    /\ seen \in Seq(Posts)
    /\ indexed \in SUBSET posts /\ files \in SUBSET Posts
    /\ paused \in BOOLEAN /\ collecting \in BOOLEAN /\ cut \in BOOLEAN
    /\ worker \in WorkerRecord
    /\ removal \in [Tasks -> RemovalRecord]
    /\ moves \in Nat
    /\ torn \in SUBSET Posts

At(step) == [worker EXCEPT !.at = step]

NoRemoval == [at |-> "none", list |-> {}, done |-> {}, wipe |-> FALSE]

Resting == [at |-> "idle", batch |-> <<>>, post |-> CHOOSE p \in Posts : TRUE, tries |-> 0]

Orders ==
    {s \in [1..Cardinality(Posts) -> Posts] : \A i, j \in DOMAIN s : s[i] = s[j] => i = j}

Init ==
    /\ posts = {} /\ owned = {} /\ hidden = {}
    /\ seen \in Orders
    /\ indexed = {} /\ files = {}
    /\ paused = FALSE /\ collecting = TRUE
    /\ worker = Resting
    /\ removal = [t \in Tasks |-> NoRemoval]
    /\ moves = 0
    /\ torn = {} /\ cut = FALSE

WithinBudget == Budget = 0 \/ Cardinality(indexed) <= Budget

-----------------------------------------------------------------------------
(* Mistakes this code could make, each put in place of a definition below to
   see that a property notices it *)

NoForeignKey(p) == TRUE

RowFirst(p) == files

OneTooMany == Budget = 0 \/ Cardinality(indexed) <= Budget + 1

EndPass == Resting

-----------------------------------------------------------------------------
(* Removing files, then their rows *)

Removing(list, wipe) == [at |-> "removing", list |-> list, done |-> {}, wipe |-> wipe]

\* What a removal has taken from disk and is about to take from the index.
Doomed(t) == IF removal[t].at = "removing" THEN removal[t].done ELSE {}

RemoveFile(t) ==
    /\ removal[t].at = "removing"
    /\ \E p \in removal[t].list \ removal[t].done :
        /\ files' = files \ {p}
        /\ removal' = [removal EXCEPT ![t].done = @ \cup {p}]
        /\ torn' = IF worker.at = "saved" /\ worker.post = p THEN torn \cup {p} ELSE torn
    /\ UNCHANGED <<library, indexed, switches, worker, moves, cut>>

\* delete_media_entries, clear_media_entries
DeleteRows(t) ==
    /\ removal[t].at = "removing" /\ removal[t].done = removal[t].list
    /\ indexed' = IF removal[t].wipe THEN {} ELSE indexed \ removal[t].list
    /\ removal' = [removal EXCEPT ![t] = NoRemoval]
    /\ UNCHANGED <<library, files, switches, worker, moves, ghosts>>

\* The rows stay without their files; an eviction is given up.
DeleteRowsFails(t) ==
    /\ removal[t].at = "removing" /\ removal[t].done = removal[t].list
    /\ removal' = [removal EXCEPT ![t] = NoRemoval]
    /\ torn' = torn \cup removal[t].list
    /\ IF t = Worker /\ worker.at = "evicting"
       THEN worker' = At("item") /\ cut' = TRUE
       ELSE UNCHANGED <<worker, cut>>
    /\ UNCHANGED <<library, store, switches, moves>>

Remove(t) == RemoveFile(t) \/ DeleteRows(t) \/ DeleteRowsFails(t)

-----------------------------------------------------------------------------
(* The download worker *)

\* pending_saved_original_posts: the saved posts that can be asked for and have no
\* row, the latest last_seen_at first, no more than a batch.
IsPending(p) == p \in owned /\ p \notin hidden /\ p \notin indexed

Pending == {p \in Posts : IsPending(p)}

Later(o, p) == \E i, j \in DOMAIN seen : i < j /\ seen[i] = o /\ seen[j] = p

Newest == {p \in Pending : Cardinality({o \in Pending : Later(o, p)}) < BatchSize}

StartPass ==
    /\ worker.at = "idle" /\ ~paused /\ collecting
    /\ \E batch \in [1..Cardinality(Newest) -> Newest] :
         /\ \A i, j \in DOMAIN batch : i < j => Later(batch[i], batch[j])
         /\ worker' = [worker EXCEPT !.at = "item", !.batch = batch]
    /\ UNCHANGED <<library, store, switches, removal, moves, ghosts>>

\* An original without an extension is passed over, and one that is indexed by
\* now; one whose entry cannot be read is fetched again.
Treatments(p) ==
    {"loading"} \cup (IF p \in Broken \/ p \in indexed THEN {"item"} ELSE {})

NextItem ==
    /\ worker.at = "item"
    /\ IF paused \/ worker.batch = <<>> THEN worker' = Resting
       ELSE \E step \in Treatments(Head(worker.batch)) :
              worker' = [worker EXCEPT !.batch = Tail(@), !.post = Head(worker.batch),
                                       !.tries = 0, !.at = step]
    /\ UNCHANGED <<library, store, switches, removal, moves, ghosts>>

\* save_original renames the file into place.
OnDisk(p) == files \cup {p}

Download(p) ==
    /\ worker.at = "loading" /\ worker.post = p /\ p \notin Broken
    /\ files' = OnDisk(p)
    /\ torn' = torn \ {p}
    /\ worker' = At("saved")
    /\ UNCHANGED <<library, indexed, switches, removal, moves, cut>>

\* The row references its post.
HasPost(p) == p \in posts

\* upsert_media_entry
IndexOriginal(p) ==
    /\ worker.at = "saved" /\ worker.post = p /\ HasPost(p)
    /\ indexed' = indexed \cup {p}
    /\ worker' = At("evicting")
    /\ UNCHANGED <<library, files, switches, removal, moves, ghosts>>

\* run_pass goes on with the rest of its batch.
AfterFailure == At("item")

\* The transfer or the row fails: the next attempt, or the next item.
AttemptFails ==
    /\ worker.at \in {"loading", "saved"}
    /\ worker' = IF worker.tries + 1 = Attempts THEN AfterFailure
                 ELSE [worker EXCEPT !.tries = @ + 1, !.at = "loading"]
    /\ UNCHANGED <<library, store, switches, removal, moves, ghosts>>

\* indexed_bytes against the limit
Fits == WithinBudget

\* evict_to_budget; after a batch the total is looked at again.
Evict ==
    /\ worker.at = "evicting" /\ removal[Worker].at = "none"
    /\ IF Fits
       THEN /\ worker' = At("item") /\ cut' = FALSE
            /\ UNCHANGED removal
       ELSE \E oldest \in SUBSET indexed :
              /\ IF Cardinality(indexed) <= EvictBatch THEN oldest = indexed
                 ELSE Cardinality(oldest) = EvictBatch
              /\ removal' = [removal EXCEPT ![Worker] = Removing(oldest, FALSE)]
              /\ UNCHANGED <<worker, cut>>
    /\ UNCHANGED <<library, store, switches, moves, torn>>

\* indexed_bytes takes a total that cannot be read for zero, and a list of the
\* oldest entries that cannot be read ends the loop: over budget or not, the
\* eviction is over.
EvictionStops ==
    /\ worker.at = "evicting" /\ removal[Worker].at = "none" /\ Budget # 0
    /\ worker' = At("item") /\ cut' = TRUE
    /\ UNCHANGED <<library, store, switches, removal, moves, torn>>

\* The CDN says that the post is gone: delete_and_unindex, whose failure is
\* ignored, then the post.
Gone ==
    /\ worker.at = "loading"
    /\ worker' = At("gone")
    /\ UNCHANGED <<library, store, switches, removal, moves, ghosts>>

Unindex ==
    /\ worker.at = "gone"
    /\ worker' = At("purging")
    /\ \/ /\ worker.post \in indexed
          /\ removal' = [removal EXCEPT ![Worker] = Removing({worker.post}, FALSE)]
       \/ UNCHANGED removal
    /\ UNCHANGED <<library, store, switches, moves, ghosts>>

\* A post is deleted and its row cascades; the file stays.
PostDeleted(p) ==
    /\ posts' = posts \ {p} /\ owned' = owned \ {p} /\ hidden' = hidden \ {p}
    /\ indexed' = indexed \ {p}
    /\ UNCHANGED <<seen, files>>

\* delete_catalog_posts_by_ids; best effort, like the removal before it.
Purge ==
    /\ worker.at = "purging" /\ removal[Worker].at = "none"
    /\ worker' = At("item")
    /\ \/ PostDeleted(worker.post)
       \/ UNCHANGED <<library, store>>
    /\ UNCHANGED <<switches, removal, moves, ghosts>>

Work ==
    \/ StartPass \/ NextItem \/ AttemptFails \/ Evict \/ EvictionStops
    \/ Gone \/ Unindex \/ Purge
    \/ \E p \in Posts : Download(p) \/ IndexOriginal(p)
    \/ Remove(Worker)

-----------------------------------------------------------------------------
(* The others *)

Move == moves < MaxMoves /\ moves' = moves + 1

\* An import saves the post for some account, as upstream has it.
Save(p) ==
    /\ Move
    /\ posts' = posts \cup {p} /\ owned' = owned \cup {p}
    /\ hidden' \in {hidden \ {p}, hidden \cup {p}}
    /\ \E i \in DOMAIN seen :
         /\ seen[i] = p
         /\ seen' = <<p>> \o SubSeq(seen, 1, i - 1) \o SubSeq(seen, i + 1, Len(seen))
    /\ UNCHANGED <<store, switches, worker, removal, ghosts>>

\* Retention, or the account's teardown, deletes the post.
DropPost(p) ==
    /\ Move /\ p \in posts
    /\ PostDeleted(p)
    /\ UNCHANGED <<switches, worker, removal, ghosts>>

Pause ==
    /\ Move /\ ~paused /\ paused' = TRUE
    /\ UNCHANGED <<library, store, collecting, worker, removal, ghosts>>

Resume ==
    /\ paused /\ paused' = FALSE
    /\ UNCHANGED <<library, store, collecting, worker, removal, moves, ghosts>>

\* save_favourites and save_all; a pass under way does not look at them again.
Toggle ==
    /\ collecting' = ~collecting
    /\ IF collecting THEN Move ELSE UNCHANGED moves
    /\ UNCHANGED <<library, store, paused, worker, removal, ghosts>>

\* delete_catalog_post_route: one account's link, perhaps not the last one.
Unlink(t, p) ==
    /\ Move /\ removal[t].at = "none" /\ p \in owned
    /\ \/ owned' = owned \ {p}
       \/ UNCHANGED owned
    /\ removal' = [removal EXCEPT ![t].at = "unlinked", ![t].list = {p}]
    /\ UNCHANGED <<posts, hidden, seen, store, switches, worker, ghosts>>

\* post_still_saved
CheckSaved(t) ==
    /\ removal[t].at = "unlinked"
    /\ removal' = [removal EXCEPT ![t] =
                     IF @.list \cap owned # {} THEN NoRemoval ELSE [@ EXCEPT !.at = "unowned"]]
    /\ UNCHANGED <<library, store, switches, worker, moves, ghosts>>

\* delete_and_unindex
LookUp(t) ==
    /\ removal[t].at = "unowned"
    /\ removal' = [removal EXCEPT ![t] =
                     IF @.list \subseteq indexed THEN Removing(@.list, FALSE) ELSE NoRemoval]
    /\ UNCHANGED <<library, store, switches, worker, moves, ghosts>>

\* clear_cache
Clear(t) ==
    /\ Move /\ removal[t].at = "none"
    /\ removal' = [removal EXCEPT ![t] = Removing(indexed, TRUE)]
    /\ UNCHANGED <<library, store, switches, worker, ghosts>>

\* The database fails before anything is taken.
RequestFails(t) ==
    /\ removal[t].at \in {"unlinked", "unowned"}
    /\ removal' = [removal EXCEPT ![t] = NoRemoval]
    /\ UNCHANGED <<library, store, switches, worker, moves, ghosts>>

Request(t) == CheckSaved(t) \/ LookUp(t) \/ RequestFails(t) \/ Remove(t)

Crash ==
    /\ Move
    /\ worker' = Resting /\ paused' = FALSE
    /\ removal' = [t \in Tasks |-> NoRemoval]
    /\ torn' = torn \cup UNION {Doomed(t) : t \in Tasks}
    /\ cut' = (cut \/ ~WithinBudget)
    /\ UNCHANGED <<library, store, collecting>>

Next ==
    \/ Work
    \/ \E p \in Posts : Save(p) \/ DropPost(p)
    \/ \E t \in Removers : Request(t) \/ Clear(t) \/ \E p \in Posts : Unlink(t, p)
    \/ Pause \/ Resume \/ Toggle \/ Crash

Spec == Init /\ [][Next]_vars

\* Threads run on, and a download or an insert that is tried for ever succeeds
\* once.
Fairness ==
    /\ WF_vars(Work)
    /\ \A t \in Removers : WF_vars(Request(t))
    /\ \A p \in Posts : SF_vars(Download(p)) /\ SF_vars(IndexOriginal(p))

FairSpec == Spec /\ Fairness

-----------------------------------------------------------------------------
(* Properties *)

\* A row never stands without its file but for three reasons: a removal is
\* about to take the row as well, it ended between the two, or it took the file
\* of an original that was just being stored (store_original, "Keeps the file
\* and the media_entries row in sync").
RowHasFileUnlessTorn ==
    indexed \subseteq files \cup torn \cup UNION {Doomed(t) : t \in Tasks}

\* The index is over its budget only while the worker is evicting, or when an
\* eviction was cut short by a restart or given up on one of the three errors it
\* ends with, and none has ended since (evict_to_budget).
BudgetUnlessCut == WithinBudget \/ worker.at = "evicting" \/ cut

Stored(p) == p \in indexed /\ p \in files

\* What is wanted fits: nothing that is stored has to make room for the rest.
Roomy == Budget = 0 \/ Cardinality(indexed \cup (Pending \ Broken)) <= Budget

\* A saved post gets its original in the end, although failed downloads,
\* evictions, deletes and restarts come between, and although others in its batch
\* can never be fetched: run_pass goes on past what fails, and pending posts are
\* looked for anew.  Not if the broken ones fill a batch (nothing remembers a
\* failure, LIMIT), nor if the wanted ones do not fit: those evict each other.  The
\* moves of the others end: newer saves without end would starve an older post.
SavedIsStored ==
    Cardinality(Broken) < BatchSize =>
        \A p \in Posts \ Broken :
            p \in owned ~> \/ Stored(p) \/ p \in torn
                          \/ p \notin owned \/ p \in hidden
                          \/ paused \/ ~collecting \/ ~Roomy
=============================================================================
