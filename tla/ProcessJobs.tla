---------------------------- MODULE ProcessJobs ----------------------------
(***************************************************************************)
(* Imports of favourites: the job registry (jobs.rs), the two modes of      *)
(* /process (pipeline.rs), the direct sync (sync.rs) and the teardown of an *)
(* account's library (db/posts.rs), while the owner goes on favouriting     *)
(* upstream, upstream answers out of a cache or fails, the pruner evicts    *)
(* jobs, tasks die and the server restarts.                                 *)
(*                                                                          *)
(* A run of /process holds the registry's entry of its account; a sync does *)
(* not.  An entry does not say which run it belongs to, so whoever is left  *)
(* running for the account writes into whatever entry is there.             *)
(***************************************************************************)
EXTENDS Integers, Sequences, FiniteSets

CONSTANTS
    Accounts, Posts,
    Runs,        \* tasks: /process runs and direct syncs
    PageSize,    \* posts_limit
    FullCap,     \* FULL_MODE_MAX_PAGES
    IncrementalCap, SyncCap, \* the caps of the other two loops
    MaxConsecutiveFailures,  \* MAX_CONSECUTIVE_PAGE_FAILURES
    Modes,       \* ways of importing in use
    Imported,    \* bound: accounts that are imported, and change upstream
    MaxChanges,  \* bound: changes upstream in one behaviour
    Favourites,  \* Favourites[a]: what is favourited upstream at first, newest first
    Owned        \* Owned[a]: the library an earlier process left

ASSUME ImportConstantsOK ==
    /\ Accounts # {}
    /\ PageSize \in Nat \ {0} /\ MaxConsecutiveFailures \in Nat \ {0}
    /\ FullCap \in Nat \ {0} /\ IncrementalCap \in Nat \ {0} /\ SyncCap \in Nat \ {0}
    /\ Modes \subseteq {"auto", "full", "incremental", "sync"}
    /\ Imported \subseteq Accounts /\ MaxChanges \in Nat
    /\ Favourites \in [Accounts -> Seq(Posts)] /\ Owned \in [Accounts -> SUBSET Posts]

VARIABLES
    remote,  \* remote[a]: the favourites upstream, newest first
    recent,  \* recent[a]: the versions of remote[a] a cached response may show
    lib,     \* accounts_post
    job,     \* JOBS: the entry of an account
    changes, \* upstream, so far
    run,     \* where a task stands, and its local variables
    \* ghosts
    evicted  \* evicted[a]: a run was evicted, and since then one was always left

vars == <<remote, recent, changes, lib, job, run, evicted>>

JobPhase == {"none", "running", "done", "failed"}

RunStep == {"idle", "starting", "counted", "dropping", "loading", "fetching", "saving",
            "imported"}

\* favs: favorite_count; page: the next one to fetch; pages: the last one a
\* full import asks for; owned: local_owned; got: a page fetched and not yet
\* saved.  Ghosts: clean, nothing upstream or in the library moved under the
\* run; skipped, it went on past a page that failed; sound, its library had
\* no gap when it loaded local_owned.
RunRecord == [at : RunStep, acct : Accounts, mode : {"auto", "full", "incremental", "sync"},
              favs : Nat, page : Nat \ {0}, pages : Nat,
              fails : 0..MaxConsecutiveFailures - 1,
              owned : SUBSET Posts, got : SUBSET Posts,
              clean : BOOLEAN, skipped : BOOLEAN, sound : BOOLEAN]

Fresh(a, mode, at) ==
    [at |-> at, acct |-> a, mode |-> mode, favs |-> 0, page |-> 1, pages |-> 0, fails |-> 0,
     owned |-> {}, got |-> {}, clean |-> FALSE, skipped |-> FALSE, sound |-> FALSE]

Idle == Fresh(CHOOSE a \in Accounts : TRUE, "auto", "idle")

TypeOK ==
    /\ remote \in [Accounts -> Seq(Posts)]
    /\ recent \in [Accounts -> SUBSET Seq(Posts)]
    /\ changes \in Nat
    /\ lib \in [Accounts -> SUBSET Posts]
    /\ job \in [Accounts -> JobPhase]
    /\ run \in [Runs -> RunRecord]
    /\ evicted \in [Accounts -> BOOLEAN]

Init ==
    /\ remote = Favourites
    /\ recent = [a \in Accounts |-> {Favourites[a]}]
    /\ changes = 0
    /\ lib = Owned
    /\ job = [a \in Accounts |-> "none"]
    /\ run = [r \in Runs |-> Idle]
    /\ evicted = [a \in Accounts |-> FALSE]

-----------------------------------------------------------------------------
(* Mistakes this code could make, each put in place of a definition below to
   see that a property notices it *)

ClaimRunning(a) == TRUE

KeepZombies(a) == job[a] \in {"done", "failed"}

AllOwned(a) == lib[a]

OnePageShort(r) == IF run[r].mode = "incremental" THEN IncrementalCap ELSE run[r].pages - 1

OneFailureLate(r) == run[r].fails + 1 > MaxConsecutiveFailures

-----------------------------------------------------------------------------
(* Upstream *)

Listed(s) == {s[i] : i \in DOMAIN s}

\* Page k of a list of favourites; past the end it is empty.
Page(s, k) == {s[i] : i \in {j \in DOMAIN s : (j - 1) \div PageSize = k - 1}}

\* Whatever is known has everything older known as well.
Gapless(s, known) == \A i, j \in DOMAIN s : i < j /\ s[i] \in known => s[j] \in known

\* A run of a other than r finds that something moved.
Disturb(a) ==
    [s \in Runs |-> IF run[s].acct = a THEN [run[s] EXCEPT !.clean = FALSE] ELSE run[s]]

Becomes(a, s) ==
    /\ changes < MaxChanges
    /\ changes' = changes + 1
    /\ remote' = [remote EXCEPT ![a] = s]
    /\ recent' = [recent EXCEPT ![a] = @ \cup {s}]
    /\ run' = Disturb(a)
    /\ UNCHANGED <<lib, job, evicted>>

Favourite(a) ==
    \E p \in Posts \ Listed(remote[a]) : Becomes(a, <<p>> \o remote[a])

Unfavourite(a) ==
    \E i \in DOMAIN remote[a] :
        Becomes(a, SubSeq(remote[a], 1, i - 1) \o SubSeq(remote[a], i + 1, Len(remote[a])))

\* The cached responses that show older versions expire.
ResponsesExpire(a) ==
    /\ recent' = [recent EXCEPT ![a] = {remote[a]}]
    /\ UNCHANGED <<remote, changes, lib, job, run, evicted>>

\* get_account and get_favorites go through the response cache, the sync does not.
Answers(r) == IF run[r].mode = "sync" THEN {remote[run[r].acct]} ELSE recent[run[r].acct]

-----------------------------------------------------------------------------
(* The registry *)

Living(a) == {r \in Runs : run[r].acct = a /\ run[r].mode # "sync" /\ run[r].at # "idle"}

\* try_begin
Claimable(a) == job[a] # "running"

\* finish, at the end of the task; a sync only answers its request.
Finish(r, phase) ==
    LET a == run[r].acct
    IN  /\ job' = IF run[r].mode # "sync" /\ job[a] # "none"
                  THEN [job EXCEPT ![a] = phase] ELSE job
        /\ run' = [run EXCEPT ![r] = Idle]
        /\ UNCHANGED <<remote, recent, changes, lib, evicted>>

\* prune_finished_jobs: a finished entry past its retention, or a running one
\* past its timeout.
Prunable(a) == job[a] # "none"

PruneJob(a) ==
    /\ Prunable(a)
    /\ job' = [job EXCEPT ![a] = "none"]
    /\ evicted' = [evicted EXCEPT ![a] = @ \/ (job[a] = "running" /\ Living(a) # {})]
    /\ UNCHANGED <<remote, recent, changes, lib, run>>

\* The task panics: nobody finishes its entry.
Die(r) ==
    /\ run[r].at # "idle"
    /\ run' = [run EXCEPT ![r] = Idle]
    /\ UNCHANGED <<remote, recent, changes, lib, job, evicted>>

\* The registry and the response cache are in memory.
Crash ==
    /\ recent' = [a \in Accounts |-> {remote[a]}]
    /\ job' = [a \in Accounts |-> "none"]
    /\ run' = [r \in Runs |-> Idle]
    /\ evicted' = [a \in Accounts |-> FALSE]
    /\ UNCHANGED <<remote, changes, lib>>

-----------------------------------------------------------------------------
(* One import *)

\* process_posts; a claim that is refused changes nothing.
Start(r, a) ==
    /\ run[r].at = "idle" /\ Claimable(a)
    /\ \E mode \in Modes \ {"sync"} : run' = [run EXCEPT ![r] = Fresh(a, mode, "starting")]
    /\ job' = [job EXCEPT ![a] = "running"]
    /\ evicted' = [evicted EXCEPT ![a] = @ /\ Living(a) # {}]
    /\ UNCHANGED <<remote, recent, changes, lib>>

\* sync_account_direct
StartSync(r, a) ==
    /\ run[r].at = "idle" /\ "sync" \in Modes
    /\ run' = [run EXCEPT ![r] = Fresh(a, "sync", "starting")]
    /\ UNCHANGED <<remote, recent, changes, lib, job, evicted>>

PagesNeeded(favs) == favs \div PageSize + (IF favs % PageSize > 0 THEN 1 ELSE 0)

Capped(pages, cap) == IF pages < cap THEN pages ELSE cap

\* A loop ends: its local variables go with it.
Imports(r) ==
    [run EXCEPT ![r] = [Fresh(run[r].acct, run[r].mode, "imported") EXCEPT
        !.clean = run[r].clean, !.skipped = run[r].skipped, !.sound = run[r].sound]]

\* get_account for a /process run, get_user_with_key for a sync.
ReadAccount(r) ==
    LET a == run[r].acct
    IN  /\ run[r].at = "starting"
        /\ \E s \in Answers(r) :
             run' = [run EXCEPT
                ![r].favs = Len(s),
                ![r].pages = IF run[r].mode = "sync" THEN Capped(Len(s) \div PageSize + 1, SyncCap)
                             ELSE Capped(PagesNeeded(Len(s)), FullCap),
                ![r].clean = Answers(r) = {remote[a]},
                ![r].at = IF run[r].mode = "sync" THEN "fetching" ELSE "counted"]
        /\ UNCHANGED <<remote, recent, changes, lib, job, evicted>>

\* resolve_process_mode, on the number of posts the account owns at that moment.
Resolved(r) ==
    LET local == Cardinality(lib[run[r].acct])
    IN  IF run[r].mode # "auto" THEN run[r].mode
        ELSE IF local = 0 \/ run[r].favs < local THEN "full" ELSE "incremental"

Choose(r) ==
    /\ run[r].at = "counted"
    /\ run' = [run EXCEPT ![r].mode = Resolved(r), ![r].favs = 0,
                          ![r].at = IF Resolved(r) = "full" THEN "dropping" ELSE "loading"]
    /\ UNCHANGED <<remote, recent, changes, lib, job, evicted>>

\* The posts that go with the account's rows; their rows of other accounts
\* cascade.
ExclusivelyOwned(a) == {p \in lib[a] : \A b \in Accounts \ {a} : p \notin lib[b]}

\* drop_account_posts; drop_account_cooccurrence follows in a transaction of its own.
Drop(r) ==
    LET a == run[r].acct
    IN  /\ run[r].at = "dropping"
        /\ lib' = [b \in Accounts |-> IF b = a THEN {} ELSE lib[b] \ ExclusivelyOwned(a)]
        /\ run' = [Disturb(a) EXCEPT ![r].clean = run[r].clean, ![r].at = "fetching"]
        /\ UNCHANGED <<remote, recent, changes, job, evicted>>

\* The head of run_incremental_fetch
BeginIncremental(r) ==
    LET a == run[r].acct
    IN  /\ run[r].at = "loading"
        /\ run' = [run EXCEPT ![r].owned = lib[a],
                              ![r].sound = Gapless(remote[a], lib[a]),
                              ![r].at = "fetching"]
        /\ UNCHANGED <<remote, recent, changes, lib, job, evicted>>

LastPage(r) == IF run[r].mode = "incremental" THEN IncrementalCap ELSE run[r].pages

\* A page arrives; a full import saves an empty one like any other.
FetchPage(r) ==
    /\ run[r].at = "fetching" /\ run[r].page <= LastPage(r)
    /\ \E s \in Answers(r) :
         LET posts == Page(s, run[r].page)
         IN  run' = IF posts = {} /\ run[r].mode # "full" THEN Imports(r)
                    ELSE [run EXCEPT ![r].got = posts, ![r].fails = 0, ![r].at = "saving"]
    /\ UNCHANGED <<remote, recent, changes, lib, job, evicted>>

\* A page fails: a malformed one, one too many in a row, or any page of a sync
\* ends the import; otherwise the next page is asked for.
TooMany(r) == run[r].fails + 1 >= MaxConsecutiveFailures

PageFails(r) ==
    /\ run[r].at = "fetching" /\ run[r].page <= LastPage(r)
    /\ \/ Finish(r, "failed")
       \/ /\ run[r].mode # "sync" /\ ~TooMany(r)
          /\ run' = [run EXCEPT ![r].fails = @ + 1, ![r].page = @ + 1, ![r].skipped = TRUE]
          /\ UNCHANGED <<remote, recent, changes, lib, job, evicted>>

Overlaps(r) == run[r].mode = "incremental" /\ run[r].got \cap run[r].owned # {}

\* save_posts_with_tags, in an incremental import for what was not owned when it
\* began; an overlap ends it.
SavePage(r) ==
    LET a == run[r].acct
    IN  /\ run[r].at = "saving"
        /\ lib' = [lib EXCEPT ![a] = @ \cup (run[r].got \ run[r].owned)]
        /\ run' = IF Overlaps(r) THEN Imports(r)
                  ELSE [run EXCEPT ![r].page = @ + 1, ![r].got = {}, ![r].at = "fetching"]
        /\ UNCHANGED <<remote, recent, changes, job, evicted>>

PagesEnd(r) ==
    /\ run[r].at = "fetching" /\ run[r].page > LastPage(r)
    /\ run' = Imports(r)
    /\ UNCHANGED <<remote, recent, changes, lib, job, evicted>>

\* refresh_account_profiles_skip_cooc
RefreshProfiles(r) == run[r].at = "imported" /\ Finish(r, "done")

\* Every other call that is awaited may fail and end the import.
StepFails(r) == run[r].at \notin {"idle", "fetching"} /\ Finish(r, "failed")

Step(r) ==
    \/ ReadAccount(r) \/ Choose(r) \/ Drop(r) \/ BeginIncremental(r)
    \/ FetchPage(r) \/ PageFails(r) \/ SavePage(r) \/ PagesEnd(r) \/ RefreshProfiles(r)
    \/ StepFails(r)

Next ==
    \/ \E a \in Imported : Favourite(a) \/ Unfavourite(a) \/ ResponsesExpire(a) \/ PruneJob(a)
    \/ \E r \in Runs, a \in Imported : Start(r, a) \/ StartSync(r, a)
    \/ \E r \in Runs : Step(r) \/ Die(r)
    \/ Crash

Spec == Init /\ [][Next]_vars

\* The pruner goes round; a task may hang at any of its steps.
Fairness == \A a \in Accounts : WF_vars(PruneJob(a))

FairSpec == Spec /\ Fairness

-----------------------------------------------------------------------------
(* Properties *)

\* Two /process runs of an account are under way only after the pruner took a
\* running one for a zombie; a run that was left over and reports into its
\* successor's entry makes no third possible without that (try_begin,
\* prune_finished_jobs, finish).
OverlapOnlyAfterEviction ==
    \A a \in Accounts : \A r, s \in Living(a) : r # s => evicted[a]

\* An account's library shrinks only by its own full import: the posts deleted
\* with it are nobody else's, and nothing an import does later takes a row
\* away (drop_account_posts, "a post with any other owner is not selected").
OnlyOwnTeardownShrinks ==
    [][\A a \in Accounts :
           ~(lib[a] \subseteq lib'[a]) =>
               \E r \in Runs : /\ run[r].acct = a /\ run[r].mode = "full"
                               /\ run[r].at = "dropping" /\ run'[r].at = "fetching"]_vars

\* What an import could reach: the caps are part of the promise.
Reachable(r) ==
    LET n == Len(remote[run[r].acct])
    IN  CASE run[r].mode = "full" -> n <= FullCap * PageSize
          [] run[r].mode = "incremental" -> n <= IncrementalCap * PageSize
          [] OTHER -> n < SyncCap * PageSize

\* An import that gets to its end has brought in every favourite, when nothing moved
\* under it (upstream, in the response cache, by another run's teardown), no
\* page was skipped, and an incremental one started from a library without gaps
\* (run_full_fetch, run_incremental_fetch, sync_account_direct).
WholeUnlessDisturbed ==
    \A r \in Runs :
        /\ run[r].at = "imported" /\ run[r].clean /\ ~run[r].skipped /\ Reachable(r)
        /\ run[r].mode = "incremental" => run[r].sound
        => Listed(remote[run[r].acct]) \subseteq lib[run[r].acct]

\* No entry stays "running" for ever, also when its task hangs or dies
\* (prune_finished_jobs, "Evict zombie Running jobs").
SlotIsFreed == \A a \in Accounts : job[a] = "running" ~> job[a] # "running"

\* "Reached the boundary between new and already-known favs.  Everything older
\* is already in our DB" (run_incremental_fetch).
OverlapMeansComplete ==
    \A r \in Runs :
        run[r].at = "saving" /\ Overlaps(r) /\ run[r].clean =>
            Gapless(remote[run[r].acct], lib[run[r].acct] \cup run[r].got)
=============================================================================
