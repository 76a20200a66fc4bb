------------------------------ MODULE IdfIndex ------------------------------
(***************************************************************************)
(* The in-memory document-frequency index (utils/idf.rs) beside the tag     *)
(* postings it caches: transactions that commit first and bump the index    *)
(* afterwards, the rebuild thread that reads the database outside any lock, *)
(* the generation it compares before it stores, the drift counter that asks *)
(* for a rebuild, the wake-up protocol of IDF_DIRTY and IDF_REBUILDING, and *)
(* the eviction of an idle index.                                           *)
(*                                                                          *)
(* The number of posts, the index's other field, is left out.               *)
(***************************************************************************)
EXTENDS TagPostings

CONSTANTS
    Callers,        \* requests and jobs that write tags, mark or look up
    Workers,        \* bound: rebuild threads alive at once
    DriftThreshold, \* runtime.idf_bump_drift_threshold
    Operations,     \* kinds of transaction in use
    MaxBumps,       \* bound: bumps in one behaviour
    MaxFailures     \* bound: rebuilds the database refuses

ASSUME IndexConstantsOK ==
    /\ Operations \subseteq {"save", "hydrate", "remove"}
    /\ DriftThreshold \in Nat \ {0} /\ MaxBumps \in Nat /\ MaxFailures \in Nat

VARIABLES
    index,      \* IDF_CACHE; a zero count is an absent entry
    dirty,      \* IDF_DIRTY
    rebuilding, \* IDF_REBUILDING
    drift,      \* BUMP_DRIFT_COUNT
    generation, \* BUMP_GENERATION
    caller,     \* caller[c]: where a caller stands, and the delta it holds
    worker,     \* worker[w]: where a rebuild thread stands
    evicting,   \* the pruner is between its two stores
    failures,
    \* ghosts
    unread,     \* unread[w]: callers that committed after w read the database
    wanted      \* someone asked for a rebuild, and none was stored since

memory == <<index, dirty, rebuilding, drift, generation, evicting>>
ghosts == <<unread, wanted>>
vars == <<tagged, df, index, dirty, rebuilding, drift, generation, caller, worker,
          evicting, failures, unread, wanted>>

CallerStep == {"idle", "committed", "marking", "waking"}

Rebuilding == {"start", "taken", "loaded", "read", "cool", "leaving"}

WorkerStep == Rebuilding \cup {"idle", "released", "waking"}

TypeOK ==
    /\ PostingsTypeOK
    /\ index \in [Tags -> Nat]
    /\ dirty \in BOOLEAN /\ rebuilding \in BOOLEAN /\ evicting \in BOOLEAN
    /\ drift \in 0..DriftThreshold - 1
    /\ generation \in Nat
    /\ caller \in [Callers -> [at : CallerStep, delta : [Tags -> Int]]]
    /\ worker \in [Workers -> [at : WorkerStep, seen : Nat, snap : [Tags -> Nat]]]
    /\ failures \in Nat
    /\ unread \in [Workers -> SUBSET Callers]
    /\ wanted \in BOOLEAN

Empty == [t \in Tags |-> 0]

Init ==
    /\ PostingsInit
    /\ index = Empty
    /\ dirty = TRUE /\ rebuilding = FALSE
    /\ drift = 0 /\ generation = 0
    /\ caller = [c \in Callers |-> [at |-> "idle", delta |-> NoDelta]]
    /\ worker = [w \in Workers |-> [at |-> "idle", seen |-> 0, snap |-> Empty]]
    /\ evicting = FALSE /\ failures = 0
    /\ unread = [w \in Workers |-> {}]
    /\ wanted = FALSE

-----------------------------------------------------------------------------
(* Mistakes this code could make, each put in place of a definition below to
   see that a property notices it *)

Unfloored(n) == n

SameGeneration == generation

ForgetMark(w) == FALSE

ClaimAnyway(w) == TRUE

-----------------------------------------------------------------------------
(* Callers *)

\* Where a rebuild thread goes next; what it read dies with each turn of its loop.
Go(w, at) == worker' = [worker EXCEPT ![w] = [at |-> at, seen |-> 0, snap |-> Empty]]

\* BUMP_LOCK is held to the end of bump_idf, the call of mark_idf_dirty included.
LockFree == \A c \in Callers : caller[c].at # "marking"

Pending == {c \in Callers : caller[c].at = "committed"}

\* A tag transaction commits; its delta is applied after with_write_tx returns,
\* and an empty one is dropped.
Committed(c, delta) ==
    /\ caller' = IF delta = NoDelta THEN caller
                 ELSE [caller EXCEPT ![c] = [at |-> "committed", delta |-> delta]]
    /\ unread' = IF delta = NoDelta THEN unread
                 ELSE [w \in Workers |-> IF worker[w].at = "read"
                                           THEN unread[w] \cup {c} ELSE unread[w]]

Commit(c) ==
    /\ caller[c].at = "idle"
    /\ generation + Cardinality(Pending) < MaxBumps
    /\ \E p \in Posts :
         \/ /\ "save" \in Operations
            /\ \E tags \in SUBSET Tags : Save(p, tags) /\ Committed(c, SaveDelta(p, tags))
         \/ /\ "hydrate" \in Operations
            /\ \E tags \in SUBSET Tags : Hydrate(p, tags) /\ Committed(c, HydrateDelta(tags))
         \/ /\ "remove" \in Operations
            /\ Remove(p) /\ Committed(c, RemoveDelta(p))
    /\ UNCHANGED <<memory, worker, failures, wanted>>

Floor(n) == IF n < 0 THEN 0 ELSE n

NextGeneration == generation + 1

\* bump_idf, under BUMP_LOCK.
Bump(c) ==
    /\ caller[c].at = "committed" /\ LockFree
    /\ index' = [t \in Tags |-> Floor(index[t] + caller[c].delta[t])]
    /\ generation' = NextGeneration
    /\ \/ /\ drift + 1 < DriftThreshold
          /\ drift' = drift + 1
          /\ caller' = [caller EXCEPT ![c] = [at |-> "idle", delta |-> NoDelta]]
          /\ UNCHANGED <<dirty, wanted>>
       \/ /\ drift + 1 >= DriftThreshold
          /\ drift' = 0
          /\ dirty' = TRUE /\ wanted' = TRUE
          /\ caller' = [caller EXCEPT ![c] = [at |-> "marking", delta |-> NoDelta]]
    /\ UNCHANGED <<tagged, df, rebuilding, worker, evicting, failures, unread>>

\* mark_idf_dirty at the end of an import.
Mark(c) ==
    /\ caller[c].at = "idle"
    /\ dirty' = TRUE /\ wanted' = TRUE
    /\ caller' = [caller EXCEPT ![c].at = "waking"]
    /\ UNCHANGED <<tagged, df, index, rebuilding, drift, generation, worker, evicting,
                   failures, unread>>

\* current_idf finds the index dirty; what it returns is the index as it is.
Lookup(c) ==
    /\ caller[c].at = "idle" /\ dirty
    /\ wanted' = TRUE
    /\ caller' = [caller EXCEPT ![c].at = "waking"]
    /\ UNCHANGED <<tagged, df, memory, worker, failures, unread>>

\* spawn_rebuild_if_needed
Spawn(c) ==
    /\ caller[c].at \in {"marking", "waking"}
    /\ caller' = [caller EXCEPT ![c].at = "idle"]
    /\ \/ rebuilding /\ UNCHANGED <<rebuilding, worker>>
       \/ /\ ~rebuilding
          /\ rebuilding' = TRUE
          /\ \E w \in Workers : worker[w].at = "idle" /\ Go(w, "start")
    /\ UNCHANGED <<tagged, df, index, dirty, drift, generation, evicting, failures, ghosts>>

-----------------------------------------------------------------------------
(* The rebuild thread *)

\* IDF_DIRTY.swap(false)
Take(w) ==
    /\ worker[w].at = "start"
    /\ dirty' = FALSE
    /\ Go(w, IF dirty THEN "taken" ELSE "cool")
    /\ UNCHANGED <<tagged, df, index, rebuilding, drift, generation, caller, evicting,
                   failures, ghosts>>

LoadGeneration(w) ==
    /\ worker[w].at = "taken"
    /\ worker' = [worker EXCEPT ![w].at = "loaded", ![w].seen = generation]
    /\ UNCHANGED <<tagged, df, memory, caller, failures, ghosts>>

\* IdfIndex::from_db
Read(w) ==
    /\ worker[w].at = "loaded"
    /\ worker' = [worker EXCEPT ![w].at = "read", ![w].snap = df]
    /\ UNCHANGED <<tagged, df, memory, caller, failures, ghosts>>

ReadFails(w) ==
    /\ worker[w].at = "loaded" /\ failures < MaxFailures
    /\ failures' = failures + 1
    /\ dirty' = TRUE
    /\ Go(w, "leaving")
    /\ UNCHANGED <<tagged, df, index, rebuilding, drift, generation, caller, evicting,
                   unread, wanted>>

\* The store, under BUMP_LOCK, or a second read asked for.
Store(w) ==
    /\ worker[w].at = "read" /\ LockFree
    /\ \/ /\ worker[w].seen = generation
          /\ index' = worker[w].snap
          /\ drift' = 0
          /\ wanted' = FALSE
          /\ Go(w, "start")
          /\ UNCHANGED dirty
       \/ /\ worker[w].seen # generation
          /\ dirty' = TRUE
          /\ Go(w, "cool")
          /\ UNCHANGED <<index, drift, wanted>>
    /\ unread' = [unread EXCEPT ![w] = {}]
    /\ UNCHANGED <<tagged, df, rebuilding, generation, caller, evicting, failures>>

\* The cooldown ends early when the flag is raised, or at its deadline.
Cool(w) ==
    /\ worker[w].at = "cool"
    /\ Go(w, IF dirty THEN "start" ELSE "leaving")
    /\ UNCHANGED <<tagged, df, memory, caller, failures, ghosts>>

Leave(w) ==
    /\ worker[w].at = "leaving"
    /\ rebuilding' = FALSE
    /\ Go(w, "released")
    /\ UNCHANGED <<tagged, df, index, dirty, drift, generation, evicting, caller, failures,
                   ghosts>>

\* A mark that found IDF_REBUILDING still set left the wake-up to this thread.
MustRespawn(w) == dirty

Recheck(w) ==
    /\ worker[w].at = "released"
    /\ Go(w, IF MustRespawn(w) THEN "waking" ELSE "idle")
    /\ UNCHANGED <<tagged, df, memory, caller, failures, ghosts>>

\* spawn_rebuild_if_needed from the thread that ends; its successor takes its place.
Claimable(w) == ~rebuilding

Respawn(w) ==
    /\ worker[w].at = "waking"
    /\ rebuilding' = TRUE
    /\ Go(w, IF Claimable(w) THEN "start" ELSE "idle")
    /\ UNCHANGED <<tagged, df, index, dirty, drift, generation, evicting, caller, failures,
                   ghosts>>

-----------------------------------------------------------------------------
(* The cache pruner: evict_if_idle stores without BUMP_LOCK *)

EvictIndex ==
    /\ ~evicting /\ index # Empty
    /\ index' = Empty
    /\ evicting' = TRUE
    /\ UNCHANGED <<tagged, df, dirty, rebuilding, drift, generation, caller, worker, failures,
                   ghosts>>

EvictMark ==
    /\ evicting
    /\ drift' = 0
    /\ dirty' = TRUE
    /\ evicting' = FALSE
    /\ UNCHANGED <<tagged, df, index, rebuilding, generation, caller, worker, failures, ghosts>>

Step(w) ==
    \/ Take(w) \/ LoadGeneration(w) \/ Read(w) \/ Store(w) \/ Cool(w) \/ Leave(w)
    \/ Recheck(w) \/ Respawn(w)

Next ==
    \/ \E c \in Callers : Commit(c) \/ Bump(c) \/ Mark(c) \/ Lookup(c) \/ Spawn(c)
    \/ \E w \in Workers : Step(w) \/ ReadFails(w)
    \/ EvictIndex
    \/ EvictMark

Spec == Init /\ [][Next]_vars

\* Threads run; nothing is asked of users, of the pruner or of the database.
Fairness ==
    /\ \A c \in Callers : WF_vars(Bump(c)) /\ WF_vars(Spawn(c))
    /\ \A w \in Workers : WF_vars(Step(w))

FairSpec == Spec /\ Fairness

-----------------------------------------------------------------------------
(* Properties *)

\* One thread rebuilds at a time, and the flag says whether one does, through
\* every hand-over between a thread that leaves and one that is spawned
\* (IDF_REBUILDING).
OneRebuilder ==
    /\ \A v, w \in Workers :
         worker[v].at \in Rebuilding /\ worker[w].at \in Rebuilding => v = w
    /\ rebuilding <=> \E w \in Workers : worker[w].at \in Rebuilding

\* A rebuild that is still allowed to store misses no delta that was already
\* bumped: "a read that raced a commit cannot overwrite the newer in-memory
\* value" (BUMP_GENERATION).
NoBumpLost ==
    \A w \in Workers :
        worker[w].at = "read" /\ worker[w].seen = generation =>
            \A c \in unread[w] : caller[c].at = "committed"

\* A rebuild that was asked for is stored, although marks race the thread that
\* is leaving, reads fail for a while, bumps outdate reads and the index is
\* evicted meanwhile (the recheck after IDF_REBUILDING is released).
RebuildIsServed == wanted ~> ~wanted
=============================================================================
