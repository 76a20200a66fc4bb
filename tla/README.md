# A formal model of E621-Feed

E621-Feed is a self-hosted recommendation feed: a Rust server (`parser-api`, Rocket
and one SQLite file) imports the favourites of e621 accounts, keeps a catalog of
posts, scores candidates by tag statistics and serves pages of them to a browser
client (`parser-web`, Yew, and a service worker).  This directory holds TLA+ models
of the parts of it whose correctness depends on the order of things: transactions of
several requests, threads that read outside a lock, caches filled behind a writer's
back, imports that stop half-way, files and rows that are written apart, a service
worker that delivers late and twice, retries, aborted requests and sweeps.

Every module is a translation of the code, not of the documentation; a comment in
`docs/` or in the source counts as a claim to be checked.  Where the code does
something other than it claims, a run shows it (see *Disagreements*).

- [Parts of the system](#parts-of-the-system)
- [What the modules model](#what-the-modules-model)
- [Runs](#runs)
- [Disagreements between code and comments](#disagreements-between-code-and-comments)
- [Fairness](#fairness)
- [Proofs](#proofs)
- [Abstractions](#abstractions)
- [Not modelled, and why](#not-modelled-and-why)

## Parts of the system

Paths are below `src/`; `api` is `parser-api/src`, `web` is `parser-web/src`.

### What an account has seen

| part | state | operations | hard because | correct when |
|---|---|---|---|---|
| **feed evidence** `api/db/feed.rs`, `db/profiles.rs` | tables `feed_interactions` (unique per account, post, event, session), `feed_shown_posts` (last sighting), `account_tag_feedback` (impressions and positives per tag) | record one or a batch, undo, clear, import, rebuild the aggregate, decay it, prune, and the cascade of a catalog delete | duplicates and retries of one look; three tables that must agree; an import in two transactions; undo after decay; two devices | a post is forgotten only when somebody asked or time passed; the aggregate never outgrows the history; counts never go negative |
| **seen-set cache** `api/db/hydrate_cache.rs` | two maps account -> (set of posts, time): the short and the long dedup window | read through, merge after a record, clear after an undo, expiry, eviction of the oldest | readers query outside the lock; the writer updates the two maps after its commit, one after the other | what an entry misses is bounded and temporary |
| **feed sessions** `api/db/sessions.rs`, `routes/feed.rs`, `web/pages/feed.rs` | tables `feed_sessions`, `feed_session_posts`, keyed by (session, account); the tab's session id | touch, read the shown set, select, record the page; clear; prune | three transactions per request; abandoned requests that the server finishes; a clear or a sweep between them; a minute that is both "active" and "prunable" | one scroll never repeats a post; accounts do not share a scroll |
| **interaction delivery** `web/interaction_queue.rs`, `parser-web/static/sw.js` | the buffer of looks and its timer, the IndexedDB outbox | debounce, flush, flush on unload, keep, replay on sync | lost and doubled deliveries; replay after newer actions; a worker stopped between any two steps | a look counts once however often it is sent, and none vanishes unless a batch is dropped |

### What the catalog says about tags

| part | state | operations | hard because | correct when |
|---|---|---|---|---|
| **tag postings** `api/db/tags.rs`, `db/posts.rs` | `tags_posts`, `tags.df`, per-account counts | save a batch, replace a post's tags, delete posts | the frequency is kept beside the rows it counts; each path recounts another set of tags | the stored frequency agrees with the rows |
| **document-frequency index** `api/utils/idf.rs` | `IDF_CACHE`, `IDF_DIRTY`, `IDF_REBUILDING`, `BUMP_DRIFT_COUNT`, `BUMP_GENERATION`, `BUMP_LOCK` | bump, mark dirty, look up, rebuild thread, evict | the rebuild reads outside the lock; marks race the thread that leaves; eviction takes no lock | one rebuilder, no lost wake-up, no lost bump |
| **tag relation graph** `api/utils/tag_relation.rs` | a cached graph with the same two flags | mark, look up, rebuild, evict | as above | as above |
| **co-occurrence tables** `api/db/cooccurrence.rs`, `db/cooccurrence_backfill.rs` | pair counts, global and per account; a watermark | live ingest, backfill at boot, rebuild of one account | two writers of the same counts, one of them restartable | each post's pairs are counted once |
| **catalog** `api/db/posts.rs`, `db/catalog.rs`, `db/pools.rs` | `posts` and what hangs on it | save, delete by age, by account, unowned | cascades reach some tables and not others | what refers to a post goes with it |
| **catalog hydrator** `api/media_hydrator.rs` | posts without media fields | pick, ask upstream, repair or purge | an answer that is partial or late | nothing is purged that upstream still has |
| **candidate selection and scoring** `api/utils/scorer/*`, `utils/composition.rs`, `blacklist.rs` | none | rank, diversify, compose | six passes that each rearrange what the ones before them arranged | every quota is met or was impossible, and the passes end |

### What brings data in

| part | state | operations | hard because | correct when |
|---|---|---|---|---|
| **import jobs** `api/jobs.rs`, `pipeline.rs`, `sync.rs` | the job registry, the account's library | claim, progress, finish, evict; full and incremental import | evict and restart under a running job; an import that stops half-way | one job per account; the library is whole after a success |
| **prefetch workers** `api/prefetch.rs`, `prefetch_backfill.rs` | last-prefetch stamps, targets, a breaker | pick a due account, fetch, stamp, cool down | upstream failures in a row | every account becomes due again |
| **media store** `api/media_store.rs`, `media_fetch_worker.rs`, `db/media.rs` | files and index rows | store, read, evict to a byte budget, clear | file and row are written and removed apart | no row without a file, the budget holds |
| **upstream client** `api/api.rs`, `load_monitor.rs`, `utils/page_fetch.rs` | a response cache with validators, a rate budget | fetch, revalidate, back off | eviction during a conditional request | a 304 always has a body to stand for |
| **database writer** `api/db/mod.rs` | one write connection, a pool of readers | `with_write_tx`, checkpoint, shutdown | late writers at shutdown | a write transaction is atomic and alone |
| **cache pruner** `api/cache_pruner.rs` | none of its own | calls the other parts' sweeps | runs beside everything | (its calls are actions of their modules) |

### The rest

Accounts, ownership and tokens (`db/accounts.rs`, `db/instance.rs`, `auth.rs`,
`crypto.rs`) decide who may call what: the models start after those checks have
passed.  Request limits (`ratelimit.rs`), profiles, subscriptions and digests
(aggregates recomputed in one transaction), web pages, operator tools and the server
shell keep no state whose interleavings matter; `PROJECT.json` says so of each.

### How the parts meet

```
 browser tab ──page request──► routes/feed ──touch, read, record──► feed_sessions
     │                            │  ▲                              (FeedSession)
     │ looks, undo, clear         │  └─exclude── seen-set cache ◄─fill── feed_interactions,
     ▼                            │              (SeenCache)             feed_shown_posts
 POST /interaction ──transaction──┼───────────────────▲──merge, clear──  (SeenRegistry)
                                  │ live posts, saved by a task of their own
                                  ▼
 import, hydrator, pruner ──transaction──► tags_posts, tags.df (TagPostings)
        │ delta after the commit                 │ read outside any lock
        ▼                                        ▼
      bump_idf ───────────────► IDF_CACHE ◄── rebuild thread      (IdfIndex)
```

A page is selected from posts outside the windows of `SeenCache`, which copies `Seen`
of `SeenRegistry`, and outside the scroll set of `FeedSession`.  These three share no
variable: each promises its part of "what was shown does not come back" separately,
because the code relies on each alone (the scroll set covers the time before a look is
recorded, the windows the time after).  `HeadQuotas` rearranges that page;
`InteractionDelivery` carries the looks at it back to the transactions of
`SeenRegistry`; `Evidence` is what the two sides agree on.  On the other side of the
catalog, the library that `ProcessJobs` fills is the one whose originals `MediaStore`
downloads and whose pairs `CoocGraph` counts: each of these modules keeps of the
library what it reads and lets the imports of the others be any save and any drop.

## What the modules model

### SeenRegistry — the durable evidence

Every writer goes through the single SQLite writer, so one action is one transaction.

| variable | code |
|---|---|
| `catalog` | posts with a row in `posts` |
| `served` | posts a response handed to a browser (client-side fact) |
| `created[r]` | `feed_interactions`: the day row `r` was written; `Never` is no row |
| `shown[a][p]` | `feed_shown_posts.last_shown_at` |
| `feedback[a][t]` | `account_tag_feedback` |
| `restoring` | accounts whose import has committed its rows and not rebuilt the aggregate |
| `now` | days |

Actions: `RecordBatch` (`record_feed_interactions_batch`, and the single
`record_feed_interaction` as a batch of one: insert-or-ignore, the sightings and the
aggregate of the rows really inserted), `Undo` (`remove_feed_interaction`), `Clear`
(`clear_feed_interactions`), `Restore` then `RebuildFeedback` (the two transactions of
an import) with `Crash` between them, `Decay` (`decay_account_tag_feedback`),
`DeletePost` (all catalog deletes with their cascade), `PruneShown`
(`prune_shown_posts`), `PersistCatalog` and `Serve` (a live post reaches the browser
and the catalog separately), `NextDay`.

### SeenTable — what the dedup windows may do

`SeenTable` is an abstract specification of one account's two windows: `seen[w]` is the
answer of `SEEN_POST_IDS_SQL` for window `w`, and it changes by a look (into every
window), an import (into the windows that reach back to its date), the removal of
evidence, a clear, or age.  It is the contract between the next two modules.
`SeenRegistry` implements it: `Dedup(a)` reads the windows off `feed_interactions` and
`feed_shown_posts`, `Table(a) == INSTANCE SeenTable WITH seen <- Dedup(a), ...` maps each
account, and `WindowsAreATable` says which step of the table each transaction is (a
batch is one `Look` of what it names; nothing grows when a day passes).  `SeenCache`
takes the steps of the table from it, so that what is assumed of the table there is what
is shown of it here.

### SeenCache — the two cached windows

`seen` is the variable of `SeenTable`, and every writer takes one step of it (`Record`
is `Table!Look`, `Undo` and `DeletePost` are `Table!Forget`, `Import` is
`Table!Backfill`); nothing is assumed of how the two windows relate.  `warm`, `entry` are the map entries; `reader` is where a read-through stands (missed,
queried, stored: three steps, because the query runs outside the lock); `todo` is what
a writer that has committed still has to apply, first to the short window, then to the
long one.  The ghosts `raced` and `imported` remember which looks an entry or a fill
cannot know; they influence nothing.  `Import` and `DeletePost` change the table and no
cache, as the code does; `Age` lets the windows move on; `Expire` is TTL and eviction together,
since the code treats an expired entry as absent everywhere.

### FeedSession — one scroll

A key is (tab's session id, account), the primary key of `feed_sessions`.  A request
walks through `Send`, `Touch` (`touch_or_create_feed_session`), `ReadShown`
(`get_session_shown_post_ids`, only for an active session), `Finish`
(`record_session_shown_posts` and the response) or `Refuse` (the row is gone).
`GiveUp` is a lost response or an aborted page: the server still finishes.  `Clear`,
`Prune` and `Tick` are the account's clear, the sweep, and half a minute of time;
half a minute because `num_minutes()` rounds down, which makes a session active for up
to a minute after the sweep may take it.

### TagPostings and IdfIndex — tag frequencies and their copy in memory

`TagPostings` has the two tables as variables and the three kinds of transaction as
operators over them, with the delta each hands to the index.  `IdfIndex` extends it
and adds everything in memory.  A caller commits (`Commit`), then bumps (`Bump`, under
`BUMP_LOCK`, which stays held through the `mark_idf_dirty` it may call), or marks
(`Mark`) or looks up (`Lookup`), then claims the rebuild flag (`Spawn`).  A rebuild
thread is the program counter `worker[w].at`, one value per point between two shared
accesses of `spawn_rebuild_if_needed`:

```
 start ─Take─► taken ─LoadGeneration─► loaded ─Read─► read ─Store─► start | cool
   └──(flag was clear)──► cool ─Cool─► start | leaving ◄─ReadFails─ loaded
 leaving ─Leave─► released ─Recheck─► idle | waking ─Respawn─► start | idle
```

`EvictIndex` and `EvictMark` are the two parts of `evict_if_idle`, which takes no lock.

### InteractionDelivery and Evidence — from a card to the database

`buffer[t]` and `timer[t]` are the tab's queue and the handle of its debounce timer,
`request[q]` a POST of the page, `outbox[i]` a batch the service worker keeps, `sync` the
browser's registration of the one-shot sync, `replay[r]` the list one sync event read from
the outbox and the batch it has in flight; `catalog`, `recorded` and `counted` are the
server.  `Push` flushes at `FLUSH_AT` or on an open, `Debounce` and
`Hide` flush too, `Kill` ends a tab without an event.  A request is accepted or refused
as a whole (`Arrive`), is answered (`Answered`), fails with or without the server having
seen it (`Fail`), or is taken over by the worker (`Keep`), which may fail to store it
and says 202 all the same.  The worker then asks for a sync (`ScheduleSync`), which the
browser may not know or refuse.  A replay (`StartReplay`, `SendAgain`, `Accepted`,
`Refused`, `RemovePending`, `Skip`) starts for a registered sync, which it uses up, or for
a periodic one, which comes when the browser likes; it overlaps with others, may read an
empty outbox for one it cannot read, and ends by itself (`Finish`: the event has succeeded,
whatever is still in the outbox) or is stopped anywhere (`Stop`: the browser tries the sync
again, or gives it up).  `Forget`, `Persist` and `DeletePost` are undo, clear and the catalog.
The ghosts `made` and `gone` say which looks a card reported and which were dropped or
taken back since.

`Evidence` is the abstract specification: a look is made, recorded once and counted by
that same step, or forgotten together with its count.  `E == INSTANCE Evidence WITH ...`
maps its three variables to the ones of the same names; `EvidenceOnce == E!Spec` says that
buffers, lost answers and overlapping replays are invisible in the database.

### ProcessJobs — imports of favourites

| variable | code |
|---|---|
| `remote[a]` | the favourites upstream, newest first; they change while an import runs |
| `recent[a]` | the versions of them that a cached response may still show |
| `lib[a]` | `accounts_post` |
| `job[a]` | `JOBS`: the entry of the account |
| `run[r]` | where a task stands, with its local variables |
| `evicted[a]` (ghost) | a run was evicted, and one has been left ever since |

A task goes through `Start` (or `StartSync`), `ReadAccount`, `Choose`
(`resolve_process_mode`), then `Drop` for a full import or `BeginIncremental`, then per
page `FetchPage` or `PageFails`, and `SavePage`, until `PagesEnd` or an overlap, and
`RefreshProfiles`.  `StepFails` is an error of any other awaited call, `Die` a panic,
`Crash` a restart.  `Favourite`, `Unfavourite` and `ResponsesExpire` are upstream,
`PruneJob` is the pruner.  An entry does not say whose it is, so a run that outlived its
entry finishes its successor's.  Three ghosts in `run[r]` carry the conditions of
`WholeUnlessDisturbed`: `clean`, `skipped`, `sound`.

### CoocGraph — how often two tags meet

`global[p][q]` and `personal[p][q]` say how many times post `p` has been counted for
pair `q`; the code's counters are the sums over posts.  Saves (`SaveFavourite`,
`SaveCatalog`, `Hydrate`), deletes (`Prune`, `DropLibrary` then `DropPairs`), the
backfill thread of a boot (`Probe`, `ReadBatch`, `CountBatch`, `BatchFails`,
`WipeAccount`, `RebuildAccount`) with its `watermark`, and `Restart`.  The ghosts count
what the bound is stated in: `lives[p]`, the times a post went from no tags to some,
`passes[p]`, the times the backfill counted it, and `late`, the pairs a post got from a
path that counts nothing at an id the backfill was done with.

### MediaStore — originals on disk and their index

`files` and `indexed` are changed in separate steps by three kinds of task: the worker
(`StartPass`, `NextItem`, `Download`, `IndexOriginal`, `AttemptFails`, `Evict`,
`EvictionStops`, `Gone`, `Unindex`, `Purge`), a request that deletes a post (`Unlink`,
`CheckSaved`, `LookUp`, `RequestFails`) and one that clears the cache (`Clear`).  All three
remove through `RemoveFile` (one file at a time), then `DeleteRows` or `DeleteRowsFails`.
`Save`, which may hide the post (no `file_url`, or deleted upstream) or show it again,
`DropPost`, `Pause`, `Resume`, `Toggle` (`media_cache_enabled`, which a new pass looks at)
and `Crash` are the world around them.  The ghosts record the two ways the code gives up
half-way: `torn`, a file that went while its row stayed or was still to come, and `cut`, an
eviction that a restart cut short or that ended over budget on an error: the size could not
be read and was taken for zero, the oldest entries could not be listed, or their rows could
not be deleted.

### HeadQuotas — the passes over a ranked list

`list` is the order, `post` what the passes see of each post (age class, artists in
order, character), `pass` and `band` where they stand.  One step is one swap or the end
of a band or a pass: `DiversifyArtists`, `DiversifyCharacters` (`enforce_group_quota`),
`FreshFloor`, `OldFloor`, `OldCeiling`, `Spread`.  The ranking they start from is any
order of any posts.

Each component has an `MC…` module (the model's constants) and its proofs in a
`…_proofs` module; `IdfIndex_proofs` is about the pair of `TagPostings` and `IdfIndex`,
and `FeedPage_proofs` about the two halves of a page, `HeadQuotas` (its order) and
`FeedSession` (its scroll), which is why the definitions of `HeadQuotas` that every
specification has are called `QuotaInit`, `QuotaNext`, `QuotaSpec`.
The operators under *Mistakes this code could make* in a module are not used by its
specification: each is a plausible slip, put in place of the definition it imitates to
see that the property beside it in `PROJECT.json` notices.

## Runs

Passing runs:

| run | asks | instance | distinct states |
|---|---|---|---|
| `evidence` | do the three evidence tables stay consistent through records, retries, undo, clear, import, decay, deletes and pruning, and are their windows a `SeenTable`? | 1 account, 1 post, 1 tag, one browser session and the import's; both event types; batches of 2; windows of 1 and 2 days, retention 2; 4 days; no batch past a count of 2 | 30,090 |
| `race` | what can a warm entry miss, and does it settle? | 1 post, 1 reader, 2 writers, both windows, which hold any posts to begin with | 17,862 |
| `scroll` | does one scroll repeat a post, do accounts mix, are expired sessions collected? | 2 accounts, 1 tab, 1 post, 2 requests, TTL 1 minute (2 ticks) | 24,806 |
| `rebuild` | one rebuilder, no lost bump, no lost wake-up, no frequency below its rows | 2 posts, 1 tag, 2 callers, 2 threads, drift threshold 2, 2 bumps, 1 failed read | 254,479 |
| `import` | can two imports overlap, what shrinks a library, is it whole at the end, is a slot ever stuck? | 2 accounts (one imported), 2 posts, 2 tasks, automatic imports and syncs, pages of 1, caps of 3 pages, 2 failures in a row end a run, 1 change upstream | 213,532 |
| `pairs` | how often can a post be counted, is one ever skipped, is a rebuild exact, does the backfill end? | 2 posts, tag sets with and without the one pair, batches of 1, 2 lives of a post's tags, 2 counted saves | 713,864 |
| `media` | when does a row stand without its file, when is the budget exceeded, is a saved post stored in the end? | 3 posts, one of them broken, the worker, 2 requests, batch 2, 2 attempts, budget 1, 3 moves of the others | 95,365 |
| `delivery` | does a look count once, can it vanish, is it tried at all? | 2 looks at one post, 1 tab, 1 request at a time, the replays of a sync and a periodic sync, 1 outbox key, flush at 2 | 265,920 |
| `compose` | are minimums, floors and ceilings reached and kept, do the passes end? | every order of 5 posts of 4 kinds, 8 settings, windows of 2 (two full bands and a post below them), a top of 3 | 74,296 |

Why these bounds reach the interesting cases:

- `evidence`: with 4 days, a sighting enters the short window, leaves it, leaves the
  long one and becomes prunable, in this order.  Two events of one session and one
  imported row are three rows on one post, enough for a duplicate, for an undo that
  leaves another row, and for an aggregate that was halved before it is subtracted
  from.  `RetentionDays = LongDays` is the tightest retention the code's comment
  allows.
- `race`: the windows start with any contents, since the process starts cold over a
  table that is not empty.  A look is one post and posts do not interact in a set union; two writers
  give the merge that runs after a later clear.  One reader gives the fill that is
  overtaken; a second one can only store another such answer.
- `scroll`: two requests, one abandoned and one awaited, are needed for a set that is
  recorded by a request nobody waits for; two accounts for the switch within a tab.
  `MaxIdle` is past both expiry criteria.
- `rebuild`: two threads are the one that leaves and its successor; two callers give a
  bump between read and store and a mark between the last look at the flag and its
  release.  A threshold of 2 makes both branches of the drift counter happen in two
  bumps.  `MaxBumps` bounds the generation counter, `MaxFailures` the failed reads.
- `import`: two tasks are an evicted run and its successor, or an import beside a sync.
  With pages of one post, one favourite and a second that is added later or is there
  already, a library has a first page, a second one, an empty one after them, an
  overlap and a gap.  The second account owns a post of the first, for the teardown.
  With two failures allowed in a row, one is skipped over and one ends the run.
- `pairs`: batches of one make the watermark stand between the posts; two lives are a
  post that was deleted and saved again; a tag set without the pair lets a post get it
  later, from a save that no longer counts.
- `media`: a budget of one makes the second original evict the first; two requests are
  a clear that overtakes a delete.  Three moves are a save, an interruption and one
  more of either, or three saves.  The posts outnumber the batch, and one of them can never
  be fetched: it takes its place in a batch of two again and again, beside one that must
  not wait for it.  Two that can be fetched do not fit the budget together; that they may
  then evict each other for ever, so that a third never enters a batch, is what `Roomy`
  excepts: without it `SavedIsStored` is violated (three posts that can be fetched, batch
  1, budget 1).  Three such posts, batch 1 and a budget of two were explored once and pass
  as well (119,246 states).
- `delivery`: the second look joins a batch, starts one of its own or follows an
  undo; two replays are the overlap of a sync and a periodic sync; one outbox key is an
  outbox that is full and reused, also while a replay is still in its loop.  Two keys,
  where the replay of one batch goes on past the failure of the other, and no periodic sync
  were explored once and pass as well (333,141 states).
- `compose`: five posts are two bands and one below them, so a swap takes from the next
  band and from beyond the last.  Both ends of each setting (off, on) are included;
  the kinds are one of each age, one artist with two and a collaboration.

Violation runs check one claim each, on the smallest instance that shows it; they are
the findings below.

## Disagreements between code and comments

| run | the claim | what the code does |
|---|---|---|
| `hydrate` | replacing the rows avoids "stale scorer/category data" (`api/db/tags.rs:50`) | only the tags of the new set are recounted; a dropped tag keeps its `df`, and rebuilds load it |
| `gap` | "Everything older is already in our DB" (`api/pipeline.rs:509`); "If a job dies along with the process, the user just retries" (`api/jobs.rs:5`) | an import that stopped after its first page left the newest favourites; the retry is incremental, meets them on page one and stops, so the older ones never come |
| `fight` | artist swaps preserve the age class, "so the two ceilings cannot undo each other" (`api/utils/composition.rs:44`) | a swap is checked against the band its victim leaves; an old post it sends into the next band takes that one over its ceiling, although younger posts are below |

What the code does guarantee beside each of them is stated by the passing runs:
`DfCoversPostings` beside `hydrate`, `WholeUnlessDisturbed` beside `gap` (an incremental
import is complete when its library had no gap to begin with), `CeilingHolds` beside
`fight` (in the head, the ceiling survives to the end; that it does in every band where
no artist is limited is the theorem `CeilingsFightOverArtists`).

Read off the models while writing them, and not run:

- `db/feed.rs:118` says that an undo cannot affect another device; `:161` deletes the
  account's one sighting, which a look on another device may have refreshed.  The other
  device's own row still filters the post inside the window, which is why
  `WindowsForgetOnlyOnRemoval` counts any undo on the post as a reason.
- `V36__feed_shown_posts.sql:30` expects interactions with a live post that has no
  `posts` row; the foreign key of `feed_interactions` refuses them, with their batch.
- `hydrate_cache.rs:83` skips a merge into an absent entry since "the next read rebuilds
  it"; a read that queried before the commit may store after the skipped merge.
  `raced` in `MissesOnlyRacingLooks` is that look.
- `utils/idf.rs:281` says that a failed rebuild bows out; it raises the flag and, seeing
  it on its way out, starts its own successor at once.
- `db/tags.rs:145` says that applying effects after the commit keeps index and rows in
  step; a rebuild between commit and bump reads the rows, and the bump adds them again.
- `pipeline.rs:30`–`33` says that page failures abort a run "rather than silently
  completing with dropped favourites"; a page that fails alone is skipped, its
  favourites are dropped and the run completes (`skipped` in `WholeUnlessDisturbed`).
- `sw.js:540` clones the request after `fetch` may have used its body up: then nothing
  is stored, and the page is told 202.  `Keep` has both outcomes.
- `sw.js:554` says of a kept batch that "it will be delivered later", `:576` and `:578` that
  it is kept "for a later retry", "for the next sync".  A sync is registered once per kept
  batch, and its handler succeeds whatever it could not deliver, so the browser does not
  try again: the next sync is that of another batch that fails, or a periodic one, which
  only an installed app with permission gets (`pwa.js:177`–`195`).  `LookGetsItsTry`
  therefore speaks of one try.
- `docs/offline-catalog.md:262` says that an orphaned file stays on disk "until the cache
  is cleared"; the clear deletes the files the index lists, so a file without a row
  stays after it as well.
- `prefetch.rs:294` compares seconds since the last prefetch with a Unix timestamp, so
  an account that was prefetched once is never due again.

## Fairness

Safety properties are checked and proved of `Spec`, without fairness.  The liveness
properties use `FairSpec`:

- **SeenCache** (`StaleIsTemporary`): `Expire` is weakly fair, because an entry's age
  only grows and an old one is treated as absent; a request that has started runs to its
  end (`Query`, `Store`, `UpdateCache`).  Nobody has to make a request.
- **FeedSession** (`ExpiredSessionsAreCollected`): `Tick` is time, `Prune` is the
  pruner's loop, which sleeps and sweeps for the life of the process.  Nothing is asked
  of tabs or routes: an expired session is collected although its tab keeps asking.
  `Tick` waits for requests that have touched their session: they answer well within
  half a minute.
- **IdfIndex** (`RebuildIsServed`): a thread that is running takes its next step
  (`Bump`, `Spawn`, `Step`).  Callers need not commit, mark or look up; the pruner need
  not evict; the database fails at most `MaxFailures` times.  Bumps are finite
  (`MaxBumps`): under an endless stream of them a rebuild may indeed be outdated for
  ever, which `PROJECT.json` lists as a hazard of the code.
- **ProcessJobs** (`SlotIsFreed`): only the pruner is fair.  A task may hang at any of
  its steps, and its slot is freed all the same.
- **CoocGraph** (`BackfillEnds`): the backfill thread takes its next step.  Saves and
  deletes may go on around it.
- **MediaStore** (`SavedIsStored`): worker and requests take their next step (weak);
  a download, and the insert of its row, that is tried again and again succeeds once
  (strong), because each pass picks the pending posts anew and a network or a database
  that is refused for ever is another claim.  The property is about a library that comes to
  rest (`MaxMoves`): newer saves without end would starve an older post.  It excepts a
  worker that is paused or switched off, posts that are hidden, and times when what is
  wanted does not fit the budget (`Roomy`).
- **InteractionDelivery** (`LookGetsItsTry`): timers fire and requests end; a sync that is
  registered starts its handler, which is what the browser does once it is online; a handler
  that is not stopped takes its next step (weak).  The browser gives a sync up before it has
  stopped it for ever, so a handler that is started again and again gets to each batch
  (strong, on `SendAgain`).  Nothing is asked of the periodic sync, nor that a batch is ever
  accepted, nor that the browser registers a sync (`sync = "lost"` is one of the outcomes).
- **HeadQuotas** (`PassesEnd`): the passes are a loop that runs on.

## Proofs

TLAPS checks the theorems of eight modules for every value of the constants: any number
of accounts, posts, tags, sessions, readers, writers, tabs, requests, replays, callers,
threads and imports, any page size, batch size, cap and budget.

| module | theorem | states |
|---|---|---|
| `SeenRegistry_proofs` | `TypeCorrect`, `SightingCorrect`, `WindowsCorrect`, `FeedbackCorrect`, `ImplementsTable`, `WindowsAreTable` | `TypeOK`, `SightingIsLatest`, `WindowsForgetOnlyOnRemoval`, `FeedbackFollowsHistory`, `Table(a)!Spec` for every account (the refinement), `WindowsAreATable` |
| `SeenCache_proofs` | `TypeCorrect`, `CacheCorrect` | `TypeOK`, `MissesOnlyRacingLooks` |
| `FeedPage_proofs` | `TypeCorrect`, `ScrollCorrect`, `AccountsCorrect` | of `FeedSession`: `TypeOK`, `NoRepeatInScroll`, `AccountsAreIndependent` |
| | `QuotaTypeCorrect`, `FloorsCorrect`, `CeilingCorrect`, `MinimumCorrect`, `PassesProgress`, `CeilingsFightOverArtists` | of `HeadQuotas`: `QuotaTypeOK`, `FloorsAreMet`, `CeilingHolds`, `MinimumIsReached`, that each step lowers a variant, and `CeilingsDoNotFight` where no artist is limited |
| `IdfIndex_proofs` | `TypeCorrect`, `FrequencyCorrect`, `RebuilderCorrect`, `BumpCorrect` | `TypeOK`, `DfCoversPostings`, `OneRebuilder`, `NoBumpLost` |
| `InteractionDelivery_proofs` | `TypeCorrect`, `NothingVanishes`, `DeliveryIsEvidence`, `CountedWithItsRow` | `TypeOK`, `NoLookVanishes`, `EvidenceOnce` (the refinement), `E!CountedOnce` |
| `ProcessJobs_proofs` | `TypeCorrect`, `OverlapNeedsEviction`, `TeardownOnly`, `UndisturbedIsWhole` | `TypeOK`, `OverlapOnlyAfterEviction`, `OnlyOwnTeardownShrinks`, `WholeUnlessDisturbed` |
| `CoocGraph_proofs` | `TypeCorrect`, `CountedAtMost`, `NoneBehindTheWatermark`, `RebuildIsExact` | `TypeOK`, `OvercountIsBounded`, `NothingIsSkipped`, `RebuildCountsOnce` |
| `MediaStore_proofs` | `TypeCorrect`, `RowsHaveFiles`, `BudgetHolds` | `TypeOK`, `RowHasFileUnlessTorn`, `BudgetUnlessCut` |

**Assumptions** are the named `ASSUME`s of the modules.  `RetentionCoversWindows` is
the only one that restricts a deployment: both windows fit into the retention of the
registry.  The code asserts that in a comment on `SHOWN_RETENTION_DAYS`, and reads
`dedup_lookback_days` without clamping it.  The rest say that sets are finite or not
empty, that bounds and sizes are naturals, that names are distinct and that functions
have the domains their comments say; of the passes over a page, that a minimum of
artists or characters is no larger than the top it is asked of (2 and 3 of 20 in
`enforce_diversity_quota`) and that an artist list is a sequence (`ConstantsOK`, `RequestsOK`, `FinitePosts`,
`IndexConstantsOK`, `ReadersAreNoWindows`, `ImportConstantsOK`, `GraphConstantsOK`,
`StoreConstantsOK`, `DeliveryConstantsOK`, `QuotaConstantsOK`).

**SeenRegistry.**  The invariant `Latest` is `TypeOK`, `NoFutureDates` and
`SightingIsLatest`.  No row and no sighting is dated after today: without that, a
fresh look (dated today) would not dominate an older row, and the induction fails at
`RecordBatch`.  `WindowsCorrect` then goes through the actions once more: retention
only removes a sighting that is outside every window, which is where
`RetentionCoversWindows` enters, and a catalog delete cannot remove a sighting.
`FeedbackCorrect` needs no more than `TypeOK`: the rows a batch inserts are disjoint from
the history (`CountDisjoint`), so both gain the same; everything else takes counts away
or recounts them.  `ImplementsTable` finds for every transaction the step of `SeenTable`
it is: the windows a look enters do not depend on the window, since it is dated today;
an undo leaves the windows that other evidence of the post reaches; retention, decay and
the rebuild of the aggregate change no window at all.

**SeenCache.**  `Coherent` strengthens the property to fills that are still in flight:
`AnswersMissOnlyRacingLooks` says of an answer what `MissesOnlyRacingLooks` says of an
entry, so that `Store` carries one over into the other; `JobsHaveAKind` says that a
pending update really is a merge or a clear.

**FeedSession.**  Four facts together are inductive: the tab waits only for a request
of its own (`OwnRequest`); what was rendered in time is in the recorded set
(`RenderedIsRecorded`); the answer the tab waits for excludes all of it
(`AwaitedIsCovered`); nothing was repeated.  The third holds because a tab has at most
one request outstanding: an abandoned request may add to the recorded set behind an
awaited one, but not to what was rendered.  A sweep empties both sides at once.

**IdfIndex.**  For the frequencies, each transaction recounts at least the tags whose
rows it adds (`RecountCovers`).  For exclusion, every step moves at most one thread, and
a thread enters the rebuilding states only over a clear flag (`MoveOne`).  For bumps,
`BumpInv` adds `SeenInPast` (no thread has seen a generation that is still to come) and
`OnlyReadersMiss`: then a bump moves the generation past every reader it could hurt.

**InteractionDelivery.**  `NoLookVanishes` is not inductive: a request that was answered
is about to go, and so is an outbox batch whose replay was answered.  `Covered` leaves
both out of the places a look may be and holds all the same, since the answer came with
the rows; so it does a request the worker has taken over, which carries nothing any more.
That the rows are those of the batch needs `FreshKeys` (a key is not reused
while a replay holds its batch) and `HoldsWhatItSent`.  `NextKeepsIInv` proves, for each
action, the invariant and the step of `Evidence` it is: `Accept` is `Record` of the
fresh part, an undo, a clear and a delete are `Forget`, `Push` is `Make`, and all that
the network does is a stutter.

**ProcessJobs.**  `Slot` says that without an eviction an account has at most one living
run, and then its entry says so; a left-over run that finishes its successor's entry is
why `evicted` must outlive the eviction.  `ProgressOf` says how far an undisturbed run
has come: the favourites on the pages before its own are in the library
(`Saved(s, known, k)`).  That saving page after page is saving everything rests on
lemmas about division (`DivMod`, `DivUnique`, `PageOfMono`), with which `PagesCover`
shows that the number of pages asked for reaches the last favourite, `EmptyPage` that
nothing comes after an empty page, and `OverlapEnds` that in a library without gaps
everything after a known post is known.

**CoocGraph.**  `Listing` ties the listed batch to the watermark; `NoneLeftOut` extends
`NothingIsSkipped` to the ids up to the end of the listed batch (`Passed`), because the
watermark will jump there when the batch commits.  A batch is the lowest ids ahead, so
that nothing is left behind: `LargestExists` (by well-foundedness) gives the id it ends
at.

**MediaStore.**  Beside the two properties the invariant holds `JustStored` (an original
between its two steps is on disk or was taken since), `RemovalShape` (a removal takes
only what it listed, so its rows cover its files) and `WorkerRemoves` (the worker's own
removals belong to an eviction or a purge, so the end of one leads back to the budget
check, or, when it fails, to `cut`).  `TypeCorrect` rests on the invariant (a row that is inserted belongs to a post
that still exists) and on what `Save` does to the order of posts, a sequence from which
the post is cut and to whose front it goes.

**HeadQuotas.**  Every action is first reduced to what it does (`DiversifyMoves`,
`FloorMoves`, `CeilingMoves`, `SpreadMoves`): it ends a pass or a band for a stated
reason, or swaps two places of which one is in the part at hand and one below.  Whatever
a swap does to a count then follows from where its two places are: a range that holds
both or neither counts what it did (`SwapWithin`), a range that holds one gains and
loses what the two posts are (`SwapAcross`).  Neither floor is inductive without the pass
it is met in: `FloorReached` shows that the pass ends with it met (when nothing in the
head is expendable, the head is all fresh or old, and the other kind is within its own
quota), and `FloorsHeld` carries it through the rest.  `CeilingHolds` needs that bands
start at multiples of the window (`BandsOK`), so that a swap in one band touches no
finished one.  `PassesProgress` is the safety half of `PassesEnd`: with `Work`, a natural
number, every step goes on to a later pass or band or lowers `Work` (distinct keys that
are missing, places the floor has not taken, old posts in the band, credits over the
artist cap, the last counted as the set `Excess` of which each swap takes one away and to
which it adds none).

**Only model-checked**: the eight liveness properties (`StaleIsTemporary`,
`ExpiredSessionsAreCollected`, `RebuildIsServed`, `SlotIsFreed`, `BackfillEnds`,
`SavedIsStored`, `LookGetsItsTry`, `PassesEnd`), since neither fairness nor `ENABLED` is
within the prover's reach.  Every invariant and every action property of the passing runs
is a theorem.

## Abstractions

- Posts, tags, accounts and sessions are model values.  `TagsOf` is a constant in
  `SeenRegistry`: the aggregate of one event does not see a post being retagged between
  the event and its undo.
- A request the ownership check refuses, and an event type the aggregate ignores, change
  no aggregate and are left out.
- Decay is a half-life or many of them; rounding is the code's, half up.
- The bounds `MaxBatch`, `MaxCount`, `MaxDay`, `MaxBumps`, `MaxFailures`, `MaxChanges`,
  `MaxLives`, `MaxSaves`, `MaxMoves` and the set `Imported` are guards of the actions
  they bound; `MaxIdle` stops a clock that no comparison reads any more.  No invariant
  depends on their values: the theorems hold for all of them.
- `SeenCache` has one account: entries of two accounts interact only through eviction
  of the oldest, which `Expire` covers.
- `FeedSession` leaves the ranking open: a page is any subset of what is not excluded.
- `IdfIndex` leaves out the number of posts, the collision of equal names in different
  tag groups, and the copy-on-write inside `bump_idf`: `Bump` is one step, so the
  eviction that such a copy undoes is not in the model.  At most `Workers` threads are
  alive; a spawn that would need one more waits.
- `ProcessJobs` leaves out progress counters, the 60-second cache of owned ids, the
  catalog rows beside `accounts_post` and the sync of a pasted list.  A page that was
  answered is saved or fails as a whole.  An incremental import keeps the owned set it
  loaded when it began, also when another run tears the library down meanwhile; it then
  does not save those posts again (`clean` excepts it).
- `CoocGraph` has one account.  A count is kept by post, which the code's counters are
  sums of.  That a post saved live is counted once more by the backfill of the next
  boot, as the comment of the V30 migration allows, is the `passes[p]` of the bound.
- `MediaStore` gives each original one byte, leaves out a post whose extension changes
  and the serving of a stored file, and takes any row for the oldest, since a touch is
  sent and forgotten.  The budget is a constant, although the code reads it anew at each
  eviction: a limit that is lowered takes effect at the next one only.  Three consequences
  of the code appear in the exceptions of its properties: a crash between file and row
  removal leaves a row whose file is never downloaded again (`torn`); posts that can never
  be fetched starve older ones once they fill a batch (`SavedIsStored` has fewer of them,
  `Cardinality(Broken) < BatchSize`); and when the wanted originals exceed the budget, the
  worker stores and evicts without end, and may fill each batch with the same ones
  (`Roomy`).
- `InteractionDelivery` keeps a buffer as a set, since order within a batch changes
  nothing, takes a sync that the browser tries again for one that is registered again, and leaves the reasons for a refusal open (device scope, rate limit, a
  missing post).
- `HeadQuotas` starts from any order in place of the scores and the MMR ranking, and
  leaves the report of the passes out.  The character pass may undo what the artist pass
  reached: `MinimumIsReached` speaks of each pass at its own end.

## Not modelled, and why

- **Scoring, channels, calibration, taste themes** (`utils/scorer/*`, `taste_themes.rs`,
  `bin/calibrate/*`): most of the lines of the server.  They are floating-point
  arithmetic over a snapshot of the database; their state is local to one call, and a
  model would repeat the formulas.  What comes after the ranking is `HeadQuotas`.
- **Tag relation graph** (`utils/tag_relation.rs`): rebuilt by the flags and the
  hand-over of `IdfIndex`, without drift and generation; a second copy of that protocol
  would show nothing that `OneRebuilder` and `RebuildIsServed` do not.
- **Catalog hydrator, prefetch workers, upstream client, database writer**: the next
  modules this development would get.  `Hydrator`: a partial answer against rows that
  changed meanwhile.  `Prefetch`: targets, the cooldown stamp and the breaker; its
  cooldown comparison is wrong as it stands (`prefetch.rs:294`, among the hazards), so a
  model would say little before that is repaired.  `UpstreamClient`: revalidation
  against eviction of the cached body; what imports see of it, answers that are minutes
  old, is `recent` in `ProcessJobs`.  `DbWriter`: late writers at shutdown; what every
  module takes from it is that a write transaction is one step.
- **The feed page** (`web/pages/feed.rs`): its request loop is in `FeedSession`; the
  switch of accounts under a running request (`:171`, among the hazards) needs the page's
  own list and is not.
- **Accounts, ownership, tokens, request limits**: access control and real time.
- **Profiles, subscriptions, digest, catalog reads and statistics**: aggregates
  recomputed from the library in one transaction, and queries.  The deletes of the
  catalog appear as `Prune`, `DropLibrary`, `DropPost`, `DeletePost` and `Remove` in the
  modules whose tables they cascade into.
- **Presentation, operator tools, the server shell.**

The models therefore cover the parts where order, failure and concurrency decide, and a
small share of all lines: arithmetic, SQL that reads, forms and pages are most of the
repository.
