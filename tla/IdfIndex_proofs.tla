--------------------------- MODULE IdfIndex_proofs ---------------------------
(***************************************************************************)
(* For every number of posts, tags, callers and rebuild threads: the        *)
(* state is well typed, the stored frequencies cover the postings, one      *)
(* thread rebuilds at a time, and no rebuild that may store lacks a bumped  *)
(* delta.                                                                   *)
(***************************************************************************)
EXTENDS IdfIndex, FiniteSetTheorems, TLAPS

USE FinitePosts, IndexConstantsOK

-----------------------------------------------------------------------------
(* Postings *)

\* Recounts are natural numbers.
LEMMA RecountType ==
    ASSUME PostingsTypeOK, NEW touched, NEW postings
    PROVE  Recounted(touched, postings) \in [Tags -> Nat]
<1>1. ASSUME NEW t \in Tags PROVE Cardinality(Carriers(t, postings)) \in Nat
    BY FS_Subset, FS_CardinalityType DEF Carriers
<1> QED BY <1>1 DEF PostingsTypeOK, Recounted

\* A recount after the postings of one post changed covers them all, when every
\* tag the post gained is among those recounted.
LEMMA RecountCovers ==
    ASSUME PostingsTypeOK, DfCoversPostings, NEW p \in Posts, NEW tags \in SUBSET Tags,
           NEW touched, tags \subseteq tagged[p] \cup touched
    PROVE  LET after == [tagged EXCEPT ![p] = tags]
           IN  \A t \in Tags : Cardinality(Carriers(t, after)) <= Recounted(touched, after)[t]
<1> DEFINE after == [tagged EXCEPT ![p] = tags]
<1> SUFFICES ASSUME NEW t \in Tags
             PROVE  Cardinality(Carriers(t, after)) <= Recounted(touched, after)[t]
    OBVIOUS
<1>1. \A postings : Cardinality(Carriers(t, postings)) \in Nat /\ IsFiniteSet(Carriers(t, postings))
    BY FS_Subset, FS_CardinalityType DEF Carriers
<1>2. CASE t \in touched
    BY <1>1, <1>2 DEF Recounted
<1>3. CASE t \notin touched
  <2>1. Carriers(t, after) \subseteq Carriers(t, tagged)
      BY <1>3 DEF Carriers, PostingsTypeOK
  <2>2. Cardinality(Carriers(t, after)) <= Cardinality(Carriers(t, tagged))
      BY <1>1, <2>1, FS_Subset
  <2>3. Recounted(touched, after)[t] = df[t] /\ df[t] \in Nat
      BY <1>3 DEF Recounted, PostingsTypeOK
  <2> QED BY <1>1, <2>2, <2>3 DEF DfCoversPostings
<1> QED BY <1>2, <1>3

\* What the three transactions have in common.
LEMMA PostingsStep ==
    ASSUME PostingsTypeOK, NEW p \in Posts, NEW tags \in SUBSET Tags,
           Save(p, tags) \/ Hydrate(p, tags) \/ Remove(p)
    PROVE  /\ PostingsTypeOK'
           /\ DfCoversPostings => DfCoversPostings'
<1>1. ASSUME Save(p, tags) PROVE PostingsTypeOK' /\ (DfCoversPostings => DfCoversPostings')
  <2>1. tagged' = [tagged EXCEPT ![p] = tagged[p] \cup tags] /\ df' = Recounted(tags, tagged')
      BY <1>1 DEF Save
  <2> QED BY <2>1, RecountType, RecountCovers DEF PostingsTypeOK, DfCoversPostings
<1>2. ASSUME Hydrate(p, tags) PROVE PostingsTypeOK' /\ (DfCoversPostings => DfCoversPostings')
  <2>1. tagged' = [tagged EXCEPT ![p] = tags] /\ df' = Recounted(tags, tagged')
      BY <1>2 DEF Hydrate
  <2> QED BY <2>1, RecountType, RecountCovers DEF PostingsTypeOK, DfCoversPostings
<1>3. ASSUME Remove(p) PROVE PostingsTypeOK' /\ (DfCoversPostings => DfCoversPostings')
  <2>1. tagged' = [tagged EXCEPT ![p] = {}] /\ df' = Recounted(tagged[p], tagged')
      BY <1>3 DEF Remove
  <2> QED BY <2>1, RecountType, RecountCovers DEF PostingsTypeOK, DfCoversPostings
<1> QED BY <1>1, <1>2, <1>3

-----------------------------------------------------------------------------
(* Types *)

LEMMA DeltaType ==
    ASSUME NEW p \in Posts, NEW tags
    PROVE  /\ SaveDelta(p, tags) \in [Tags -> Int]
           /\ HydrateDelta(tags) \in [Tags -> Int]
           /\ RemoveDelta(p) \in [Tags -> Int]
BY DEF SaveDelta, HydrateDelta, RemoveDelta

LEMMA CommittedType ==
    ASSUME TypeOK, NEW c \in Callers, NEW delta \in [Tags -> Int], Committed(c, delta)
    PROVE  /\ caller' \in [Callers -> [at : CallerStep, delta : [Tags -> Int]]]
           /\ unread' \in [Workers -> SUBSET Callers]
BY DEF Committed, TypeOK, CallerStep

LEMMA CommitShape ==
    ASSUME NEW c \in Callers, Commit(c)
    PROVE  \E p \in Posts, tags \in SUBSET Tags, delta \in [Tags -> Int] :
               /\ Save(p, tags) \/ Hydrate(p, tags) \/ Remove(p)
               /\ Committed(c, delta)
BY DeltaType DEF Commit

LEMMA GoType ==
    ASSUME TypeOK, NEW w \in Workers, NEW at \in WorkerStep, Go(w, at)
    PROVE  worker' \in [Workers -> [at : WorkerStep, seen : Nat, snap : [Tags -> Nat]]]
BY DEF Go, TypeOK, Empty

LEMMA Zeros ==
    /\ 0 \in 0..DriftThreshold - 1
    /\ Empty \in [Tags -> Nat]
    /\ NoDelta \in [Tags -> Int]
BY DEF Empty, NoDelta

LEMMA TypeInit == Init => TypeOK
<1> SUFFICES ASSUME Init PROVE TypeOK
    OBVIOUS
<1>1. PostingsTypeOK
    BY DEF Init, PostingsInit, PostingsTypeOK
<1>2. caller \in [Callers -> [at : CallerStep, delta : [Tags -> Int]]]
    BY Zeros DEF Init, CallerStep
<1>3. worker \in [Workers -> [at : WorkerStep, seen : Nat, snap : [Tags -> Nat]]]
    BY Zeros DEF Init, WorkerStep
<1> QED BY Zeros, <1>1, <1>2, <1>3 DEF Init, TypeOK

LEMMA CallerType ==
    ASSUME TypeOK, NEW c \in Callers,
           Commit(c) \/ Bump(c) \/ Mark(c) \/ Lookup(c) \/ Spawn(c)
    PROVE  TypeOK'
<1>1. ASSUME Commit(c) PROVE TypeOK'
  <2>1. PICK p \in Posts, tags \in SUBSET Tags, delta \in [Tags -> Int] :
            /\ Save(p, tags) \/ Hydrate(p, tags) \/ Remove(p)
            /\ Committed(c, delta)
      BY <1>1, CommitShape
  <2>2. PostingsTypeOK'
      BY <2>1, PostingsStep DEF TypeOK
  <2> QED BY <1>1, <2>1, <2>2, CommittedType DEF Commit, TypeOK, memory
<1>2. ASSUME Bump(c) PROVE TypeOK'
  <2>1. index' \in [Tags -> Nat]
      BY <1>2 DEF Bump, Floor, TypeOK
  <2>2. caller' \in [Callers -> [at : CallerStep, delta : [Tags -> Int]]]
    <3>1. CASE caller' = [caller EXCEPT ![c] = [at |-> "idle", delta |-> NoDelta]]
        BY <3>1, Zeros DEF TypeOK, CallerStep
    <3>2. CASE caller' = [caller EXCEPT ![c] = [at |-> "marking", delta |-> NoDelta]]
        BY <3>2, Zeros DEF TypeOK, CallerStep
    <3> QED BY <1>2, <3>1, <3>2 DEF Bump
  <2>3. drift' \in 0..DriftThreshold - 1 /\ generation' \in Nat
      BY <1>2 DEF Bump, TypeOK, NextGeneration
  <2> QED BY <1>2, <2>1, <2>2, <2>3 DEF Bump, TypeOK, PostingsTypeOK
<1>3. ASSUME Mark(c) PROVE TypeOK'
    BY <1>3 DEF Mark, TypeOK, PostingsTypeOK, CallerStep
<1>4. ASSUME Lookup(c) PROVE TypeOK'
    BY <1>4 DEF Lookup, TypeOK, PostingsTypeOK, CallerStep, memory
<1>5. ASSUME Spawn(c) PROVE TypeOK'
  <2>1. caller' \in [Callers -> [at : CallerStep, delta : [Tags -> Int]]]
      BY <1>5 DEF Spawn, TypeOK, CallerStep
  <2>2. worker' \in [Workers -> [at : WorkerStep, seen : Nat, snap : [Tags -> Nat]]]
      BY <1>5, GoType DEF Spawn, TypeOK, WorkerStep, Rebuilding
  <2>3. rebuilding' \in BOOLEAN
      BY <1>5 DEF Spawn, TypeOK
  <2> QED BY <1>5, <2>1, <2>2, <2>3 DEF Spawn, TypeOK, PostingsTypeOK, ghosts
<1> QED BY <1>1, <1>2, <1>3, <1>4, <1>5

LEMMA WorkerType ==
    ASSUME TypeOK, NEW w \in Workers, Step(w) \/ ReadFails(w)
    PROVE  TypeOK'
<1> USE DEF WorkerStep, Rebuilding, PostingsTypeOK
<1>1. ASSUME Take(w) PROVE TypeOK'
    BY <1>1, GoType DEF Take, TypeOK, ghosts
<1>2. ASSUME LoadGeneration(w) PROVE TypeOK'
    BY <1>2 DEF LoadGeneration, TypeOK, memory, ghosts
<1>3. ASSUME Read(w) PROVE TypeOK'
    BY <1>3 DEF Read, TypeOK, memory, ghosts
<1>4. ASSUME ReadFails(w) PROVE TypeOK'
    BY <1>4, GoType DEF ReadFails, TypeOK
<1>5. ASSUME Store(w) PROVE TypeOK'
  <2>1. worker' \in [Workers -> [at : WorkerStep, seen : Nat, snap : [Tags -> Nat]]]
      BY <1>5, GoType DEF Store
  <2>2. index' \in [Tags -> Nat] /\ drift' \in 0..DriftThreshold - 1
      BY <1>5, Zeros DEF Store, TypeOK
  <2>3. dirty' \in BOOLEAN /\ wanted' \in BOOLEAN
      BY <1>5 DEF Store, TypeOK
  <2>4. unread' \in [Workers -> SUBSET Callers]
      BY <1>5 DEF Store, TypeOK
  <2> QED BY <1>5, <2>1, <2>2, <2>3, <2>4 DEF Store, TypeOK
<1>6. ASSUME Cool(w) PROVE TypeOK'
    BY <1>6, GoType DEF Cool, TypeOK, memory, ghosts
<1>7. ASSUME Leave(w) PROVE TypeOK'
    BY <1>7, GoType DEF Leave, TypeOK, ghosts
<1>8. ASSUME Recheck(w) PROVE TypeOK'
    BY <1>8, GoType DEF Recheck, TypeOK, memory, ghosts
<1>9. ASSUME Respawn(w) PROVE TypeOK'
    BY <1>9, GoType DEF Respawn, TypeOK, ghosts
<1> QED BY <1>1, <1>2, <1>3, <1>4, <1>5, <1>6, <1>7, <1>8, <1>9 DEF Step

LEMMA TypeStep == TypeOK /\ [Next]_vars => TypeOK'
<1> SUFFICES ASSUME TypeOK, [Next]_vars PROVE TypeOK'
    OBVIOUS
<1>1. CASE EvictIndex
    BY <1>1 DEF EvictIndex, TypeOK, PostingsTypeOK, Empty, ghosts
<1>2. CASE EvictMark
    BY <1>2, Zeros DEF EvictMark, TypeOK, PostingsTypeOK, ghosts
<1>3. CASE UNCHANGED vars
    BY <1>3 DEF vars, TypeOK, PostingsTypeOK
<1> QED BY <1>1, <1>2, <1>3, CallerType, WorkerType DEF Next

\* Every reachable state is well typed: no bump, however late, drives a
\* frequency of the index below zero (IdfIndex::bump).
THEOREM TypeCorrect == Spec => []TypeOK
BY TypeInit, TypeStep, PTL DEF Spec

-----------------------------------------------------------------------------
(* The stored frequencies *)

LEMMA CoverStep == TypeOK /\ DfCoversPostings /\ [Next]_vars => DfCoversPostings'
<1> SUFFICES ASSUME TypeOK, DfCoversPostings, [Next]_vars PROVE DfCoversPostings'
    OBVIOUS
<1>1. ASSUME NEW c \in Callers, Commit(c) PROVE DfCoversPostings'
    BY <1>1, CommitShape, PostingsStep DEF TypeOK
<1>2. CASE UNCHANGED <<tagged, df>>
    BY <1>2 DEF DfCoversPostings, Carriers
<1>3. ASSUME NEW c \in Callers, Bump(c) \/ Mark(c) \/ Lookup(c) \/ Spawn(c)
      PROVE  UNCHANGED <<tagged, df>>
    BY <1>3 DEF Bump, Mark, Lookup, Spawn
<1>4. ASSUME NEW w \in Workers, Step(w) \/ ReadFails(w) PROVE UNCHANGED <<tagged, df>>
    BY <1>4 DEF Step, Take, LoadGeneration, Read, ReadFails, Store, Cool, Leave, Recheck, Respawn
<1>5. CASE EvictIndex \/ EvictMark \/ UNCHANGED vars
    BY <1>2, <1>5 DEF EvictIndex, EvictMark, vars
<1> QED BY <1>1, <1>2, <1>3, <1>4, <1>5 DEF Next

\* The stored frequency of a tag never falls short of its postings
\* (recompute_df_for_tags), even where hydration leaves it too high.
THEOREM FrequencyCorrect == Spec => []DfCoversPostings
<1>1. Init => DfCoversPostings
  <2> SUFFICES ASSUME Init, NEW t \in Tags PROVE Cardinality(Carriers(t, tagged)) <= df[t]
      BY DEF DfCoversPostings
  <2>1. Carriers(t, tagged) = {} /\ df[t] = 0
      BY DEF Init, PostingsInit, Carriers
  <2> QED BY <2>1, FS_EmptySet
<1> QED BY <1>1, TypeCorrect, CoverStep, PTL DEF Spec

-----------------------------------------------------------------------------
(* One rebuild thread *)

\* A step that moves one thread keeps the exclusion if the flag follows it.
LEMMA MoveOne ==
    ASSUME TypeOK, OneRebuilder, NEW w \in Workers, NEW r,
           worker' = [worker EXCEPT ![w] = r],
           \/ worker[w].at \in Rebuilding /\ r.at \in Rebuilding /\ rebuilding' = rebuilding
           \/ worker[w].at \in Rebuilding /\ r.at \notin Rebuilding /\ rebuilding' = FALSE
           \/ worker[w].at \notin Rebuilding /\ r.at \notin Rebuilding /\ rebuilding' = rebuilding
           \/ ~rebuilding /\ r.at \in Rebuilding /\ rebuilding' = TRUE
    PROVE  OneRebuilder'
BY DEF OneRebuilder, TypeOK

LEMMA RebuilderStep == TypeOK /\ OneRebuilder /\ [Next]_vars => OneRebuilder'
<1> SUFFICES ASSUME TypeOK, OneRebuilder, [Next]_vars PROVE OneRebuilder'
    OBVIOUS
<1>1. CASE UNCHANGED <<worker, rebuilding>>
    BY <1>1 DEF OneRebuilder
<1>2. ASSUME NEW c \in Callers, Commit(c) \/ Bump(c) \/ Mark(c) \/ Lookup(c)
      PROVE  UNCHANGED <<worker, rebuilding>>
    BY <1>2 DEF Commit, Bump, Mark, Lookup, memory
<1>3. ASSUME NEW c \in Callers, Spawn(c) PROVE OneRebuilder'
  <2>1. CASE rebuilding /\ UNCHANGED <<rebuilding, worker>>
      BY <1>1, <2>1
  <2>2. ASSUME ~rebuilding, rebuilding' = TRUE, NEW w \in Workers, Go(w, "start")
        PROVE  OneRebuilder'
      BY <2>2, MoveOne DEF Go, Rebuilding
  <2> QED BY <1>3, <2>1, <2>2 DEF Spawn
<1>4. ASSUME NEW w \in Workers, LoadGeneration(w) \/ Read(w) PROVE OneRebuilder'
  <2>1. worker[w].at \in Rebuilding /\ worker'[w].at \in Rebuilding
      BY <1>4 DEF LoadGeneration, Read, TypeOK, Rebuilding
  <2>2. \A v \in Workers : v # w => worker'[v] = worker[v]
      BY <1>4 DEF LoadGeneration, Read, TypeOK
  <2>3. rebuilding' = rebuilding
      BY <1>4 DEF LoadGeneration, Read, memory
  <2> QED BY <2>1, <2>2, <2>3 DEF OneRebuilder
<1>5. ASSUME NEW w \in Workers,
             Take(w) \/ ReadFails(w) \/ Store(w) \/ Cool(w) \/ Leave(w) \/ Recheck(w)
      PROVE  OneRebuilder'
  <2>1. CASE Take(w)
      BY <2>1, MoveOne DEF Take, Go, Rebuilding
  <2>2. CASE ReadFails(w)
      BY <2>2, MoveOne DEF ReadFails, Go, Rebuilding
  <2>3. CASE Store(w)
    <3>1. CASE Go(w, "start")
        BY <2>3, <3>1, MoveOne DEF Store, Go, Rebuilding
    <3>2. CASE Go(w, "cool")
        BY <2>3, <3>2, MoveOne DEF Store, Go, Rebuilding
    <3> QED BY <2>3, <3>1, <3>2 DEF Store
  <2>4. CASE Cool(w)
      BY <2>4, MoveOne DEF Cool, Go, memory, Rebuilding
  <2>5. CASE Leave(w)
      BY <2>5, MoveOne DEF Leave, Go, Rebuilding
  <2>6. CASE Recheck(w)
      BY <2>6, MoveOne DEF Recheck, Go, memory, Rebuilding
  <2> QED BY <1>5, <2>1, <2>2, <2>3, <2>4, <2>5, <2>6
<1>6. ASSUME NEW w \in Workers, Respawn(w) PROVE OneRebuilder'
  <2>1. CASE rebuilding
      BY <1>6, <2>1, MoveOne DEF Respawn, Claimable, Go, Rebuilding, TypeOK
  <2>2. CASE ~rebuilding
      BY <1>6, <2>2, MoveOne DEF Respawn, Claimable, Go, Rebuilding, TypeOK
  <2> QED BY <2>1, <2>2
<1>7. CASE EvictIndex \/ EvictMark \/ UNCHANGED vars
    BY <1>1, <1>7 DEF EvictIndex, EvictMark, vars
<1> QED BY <1>1, <1>2, <1>3, <1>4, <1>5, <1>6, <1>7 DEF Next, Step

\* At most one thread rebuilds, and IDF_REBUILDING says whether one does.
THEOREM RebuilderCorrect == Spec => []OneRebuilder
<1>1. Init => OneRebuilder
    BY DEF Init, OneRebuilder, Rebuilding
<1> QED BY <1>1, TypeCorrect, RebuilderStep, PTL DEF Spec

-----------------------------------------------------------------------------
(* Bumped deltas *)

\* What makes NoBumpLost inductive: a thread has never seen a generation to come,
\* so one bump outdates every read for good.
SeenInPast == \A w \in Workers : worker[w].seen <= generation

\* Only a thread between its read and its store has commits it could not see.
OnlyReadersMiss == \A w \in Workers : worker[w].at # "read" => unread[w] = {}

BumpInv == NoBumpLost /\ SeenInPast /\ OnlyReadersMiss

LEMMA BumpStep == TypeOK /\ BumpInv /\ [Next]_vars => BumpInv'
<1> SUFFICES ASSUME TypeOK, BumpInv, [Next]_vars PROVE BumpInv'
    OBVIOUS
<1> USE DEF BumpInv, NoBumpLost, SeenInPast, OnlyReadersMiss
<1>1. ASSUME NEW c \in Callers, Commit(c) PROVE BumpInv'
  <2>1. PICK delta : Committed(c, delta)
      BY <1>1, CommitShape
  <2> QED BY <1>1, <2>1 DEF Commit, Committed, memory, TypeOK
<1>2. ASSUME NEW c \in Callers, Bump(c) PROVE BumpInv'
  <2>1. \A w \in Workers : worker'[w].seen # generation' /\ worker'[w].seen <= generation'
      BY <1>2 DEF Bump, NextGeneration, TypeOK
  <2>2. worker' = worker /\ unread' = unread
      BY <1>2 DEF Bump
  <2> QED BY <2>1, <2>2
<1>3. ASSUME NEW c \in Callers, Mark(c) \/ Lookup(c) PROVE BumpInv'
  <2>1. \A d \in Callers : caller[d].at = "committed" => caller'[d].at = "committed"
      BY <1>3 DEF Mark, Lookup, TypeOK
  <2>2. worker' = worker /\ unread' = unread /\ generation' = generation
      BY <1>3 DEF Mark, Lookup, memory
  <2>3. \A w \in Workers : unread[w] \subseteq Callers
      BY DEF TypeOK
  <2> QED BY <2>1, <2>2, <2>3
<1>4. ASSUME NEW c \in Callers, Spawn(c) PROVE BumpInv'
  <2>1. \A d \in Callers : caller[d].at = "committed" => caller'[d].at = "committed"
      BY <1>4 DEF Spawn, TypeOK
  <2>2. \A w \in Workers : unread[w] \subseteq Callers /\ generation \in Nat
      BY DEF TypeOK
  <2>3. CASE UNCHANGED worker
      BY <1>4, <2>1, <2>2, <2>3 DEF Spawn, ghosts
  <2>4. ASSUME NEW w \in Workers, worker[w].at = "idle", Go(w, "start") PROVE BumpInv'
    <3>1. \A v \in Workers : v # w => worker'[v] = worker[v]
        BY <2>4 DEF Go, TypeOK
    <3>2. worker'[w].at = "start" /\ worker'[w].seen = 0
        BY <2>4 DEF Go, TypeOK
    <3>3. unread[w] = {}
        BY <2>4
    <3> QED BY <1>4, <2>1, <2>2, <3>1, <3>2, <3>3 DEF Spawn, ghosts
  <2> QED BY <1>4, <2>3, <2>4 DEF Spawn
<1>5. ASSUME NEW w \in Workers, LoadGeneration(w) PROVE BumpInv'
    BY <1>5 DEF LoadGeneration, memory, ghosts, TypeOK
<1>6. ASSUME NEW w \in Workers, Read(w) PROVE BumpInv'
  <2>1. \A v \in Workers : worker'[v].seen = worker[v].seen
      BY <1>6 DEF Read, TypeOK
  <2>2. \A v \in Workers : v # w => worker'[v].at = worker[v].at
      BY <1>6 DEF Read, TypeOK
  <2> QED BY <1>6, <2>1, <2>2 DEF Read, memory, ghosts
<1>7. ASSUME NEW w \in Workers, NEW at, at # "read", Go(w, at),
             generation' = generation, UNCHANGED caller,
             unread'[w] = {}, \A v \in Workers : v # w => unread'[v] = unread[v]
      PROVE  BumpInv'
  <2>1. \A v \in Workers : v # w => worker'[v] = worker[v]
      BY <1>7 DEF Go, TypeOK
  <2>2. worker'[w].at = at /\ worker'[w].seen = 0
      BY <1>7 DEF Go, TypeOK
  <2>3. generation \in Nat
      BY DEF TypeOK
  <2> QED BY <1>7, <2>1, <2>2, <2>3
<1>8. ASSUME NEW w \in Workers,
             Take(w) \/ ReadFails(w) \/ Cool(w) \/ Leave(w) \/ Recheck(w) \/ Respawn(w)
      PROVE  BumpInv'
  <2>1. PICK at : at # "read" /\ Go(w, at)
      BY <1>8 DEF Take, ReadFails, Cool, Leave, Recheck, Respawn
  <2>2. generation' = generation /\ caller' = caller /\ unread' = unread
      BY <1>8 DEF Take, ReadFails, Cool, Leave, Recheck, Respawn, memory, ghosts
  <2>3. worker[w].at # "read"
      BY <1>8 DEF Take, ReadFails, Cool, Leave, Recheck, Respawn
  <2> QED BY <1>7, <2>1, <2>2, <2>3
<1>9. ASSUME NEW w \in Workers, Store(w) PROVE BumpInv'
  <2>1. PICK at : at # "read" /\ Go(w, at)
      BY <1>9 DEF Store
  <2>2. generation' = generation /\ caller' = caller
      BY <1>9 DEF Store
  <2>3. unread'[w] = {} /\ \A v \in Workers : v # w => unread'[v] = unread[v]
      BY <1>9 DEF Store, TypeOK
  <2> QED BY <1>7, <2>1, <2>2, <2>3
<1>10. CASE EvictIndex \/ EvictMark \/ UNCHANGED vars
    BY <1>10 DEF EvictIndex, EvictMark, vars, ghosts
<1> QED BY <1>1, <1>2, <1>3, <1>4, <1>5, <1>6, <1>8, <1>9, <1>10 DEF Next, Step

\* No rebuild that is still allowed to store lacks a delta that was bumped: the
\* comparison of BUMP_GENERATION before the store suffices.
THEOREM BumpCorrect == Spec => []NoBumpLost
<1>1. Init => BumpInv
    BY DEF Init, BumpInv, NoBumpLost, SeenInPast, OnlyReadersMiss
<1>2. Spec => []BumpInv
    BY <1>1, TypeCorrect, BumpStep, PTL DEF Spec
<1>3. BumpInv => NoBumpLost
    BY DEF BumpInv
<1> QED BY <1>2, <1>3, PTL
=============================================================================
