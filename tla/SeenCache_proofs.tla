-------------------------- MODULE SeenCache_proofs --------------------------
(***************************************************************************)
(* Proof that a warm cache entry misses only the looks it had no way to     *)
(* know, for any number of posts, requests and writers.                     *)
(***************************************************************************)
EXTENDS SeenCache, TLAPS

\* The initial state is well typed.
LEMMA TypeInit == Init => TypeOK
BY DEF Init, TypeOK, Idle, Reading, Done, Job, Windows, Table!Init, Table!Contents

\* Dropping an entry keeps the types of what it changes.
LEMMA DropType ==
  ASSUME TypeOK, NEW w \in Windows, Drop(w)
  PROVE  /\ warm' \subseteq Windows /\ \A v \in Windows \ warm' : entry'[v] = {}
         /\ entry' \in [Windows -> SUBSET Posts]
         /\ raced' \in [Copies -> SUBSET Posts]
         /\ imported' \in [Copies -> SUBSET Posts]
BY DEF TypeOK, Drop, Copies

\* Every step keeps the types.
LEMMA TypeStep == TypeOK /\ [Next]_vars => TypeOK'
<1> SUFFICES ASSUME TypeOK, [Next]_vars PROVE TypeOK'
  OBVIOUS
<1>1. ASSUME NEW u \in Writers, NEW posts \in SUBSET Posts, Record(u, posts) PROVE TypeOK'
  BY <1>1 DEF TypeOK, Record, Merging, Job, Windows, Table!Look
<1>2. ASSUME NEW u \in Writers, NEW p \in Posts, Undo(u, p) PROVE TypeOK'
  BY <1>2 DEF TypeOK, Undo, Clearing, Job, Windows, Table!Forget
<1>3. ASSUME NEW u \in Writers, Clear(u) PROVE TypeOK'
  BY <1>3 DEF TypeOK, Clear, Clearing, Job, Windows, Table!Clear
<1>4. ASSUME NEW u \in Writers, UpdateCache(u) PROVE TypeOK'
  <2>1. todo' \in [Writers -> Job]
    BY <1>4 DEF TypeOK, UpdateCache, After, Done, Job, Windows
  <2>2. CASE todo[u].next \in Windows /\ Merge(todo[u].next, todo[u].posts)
    <3>1. todo[u].posts \in SUBSET Posts
      BY DEF TypeOK, Job
    <3> QED
      BY <1>4, <2>1, <2>2, <3>1 DEF TypeOK, UpdateCache, Merge
  <2>3. CASE todo[u].next \in Windows /\ Drop(todo[u].next)
    BY <1>4, <2>1, <2>3, DropType DEF TypeOK, UpdateCache
  <2>4. CASE todo[u].next = "done"
    <3>1. entry' = entry
      BY <1>4, <2>4 DEF UpdateCache, Merge, Drop, TypeOK, Windows
    <3>2. warm' = warm
      BY <1>4, <2>4 DEF UpdateCache, Merge, Drop, TypeOK, Windows
    <3>3. raced' \in [Copies -> SUBSET Posts] /\ imported' \in [Copies -> SUBSET Posts]
      BY <1>4 DEF UpdateCache, Merge, Drop, TypeOK
    <3> QED
      BY <1>4, <2>1, <3>1, <3>2, <3>3 DEF TypeOK, UpdateCache
  <2>5. todo[u].next \in Windows \cup {"done"}
    BY DEF TypeOK, Job
  <2> QED
    BY <1>4, <2>2, <2>3, <2>4, <2>5 DEF UpdateCache
<1>5. ASSUME NEW posts \in SUBSET Posts, Import(posts) PROVE TypeOK'
  BY <1>5 DEF TypeOK, Import, Table!Backfill
<1>6. ASSUME Age \/ \E p \in Posts : DeletePost(p) PROVE TypeOK'
  BY <1>6 DEF TypeOK, Age, DeletePost, Table!Age, Table!Forget, Table!Contents
<1>7. ASSUME NEW r \in Readers, NEW w \in Windows, Miss(r, w) PROVE TypeOK'
  BY <1>7 DEF TypeOK, Miss, Reading
<1>8. ASSUME NEW r \in Readers, Query(r) PROVE TypeOK'
  BY <1>8 DEF TypeOK, Query, Reading, Copies
<1>9. ASSUME NEW r \in Readers, Store(r) PROVE TypeOK'
  BY <1>9 DEF TypeOK, Store, Reading, Idle, Copies, Windows
<1>10. ASSUME NEW w \in Windows, Expire(w) PROVE TypeOK'
  BY <1>10, DropType DEF TypeOK, Expire
<1>11. CASE UNCHANGED vars
  BY <1>11 DEF TypeOK, vars
<1> QED
  BY <1>1, <1>2, <1>3, <1>4, <1>5, <1>6, <1>7, <1>8, <1>9, <1>10, <1>11 DEF Next

\* Every reachable state is well typed, and a window without a warm entry holds
\* nothing: a merge never fabricates an entry (merge_into).
THEOREM TypeCorrect == Spec => []TypeOK
BY TypeInit, TypeStep, PTL DEF Spec

-----------------------------------------------------------------------------
(* What a warm entry can miss *)

\* What makes MissesOnlyRacingLooks inductive: a query's answer misses only what
\* committed after it, and a writer between its two merges still has the same
\* posts to merge into the long window.
AnswersMissOnlyRacingLooks ==
    \A r \in Readers :
        reader[r].at = "answered"
            => seen[reader[r].window] \ reader[r].answer \subseteq raced[r] \cup imported[r]

JobsHaveAKind == \A u \in Writers : todo[u] # Done => todo[u].next \in Windows

Coherent == /\ TypeOK /\ JobsHaveAKind
            /\ AnswersMissOnlyRacingLooks /\ MissesOnlyRacingLooks

\* Every step keeps the job of each writer pointed at a window.
LEMMA JobStep == TypeOK /\ JobsHaveAKind /\ [Next]_vars => JobsHaveAKind'
<1> SUFFICES ASSUME TypeOK, JobsHaveAKind, [Next]_vars PROVE JobsHaveAKind'
  OBVIOUS
<1>1. CASE UNCHANGED todo
  BY <1>1 DEF JobsHaveAKind
<1>2. ASSUME NEW u \in Writers, NEW job,
             todo' = [todo EXCEPT ![u] = job], job = Done \/ job.next \in Windows
      PROVE  JobsHaveAKind'
  BY <1>2 DEF JobsHaveAKind, TypeOK
<1>3. ASSUME NEW u \in Writers,
             \/ \E posts \in SUBSET Posts : Record(u, posts)
             \/ \E p \in Posts : Undo(u, p)
             \/ Clear(u)
      PROVE  JobsHaveAKind'
  BY <1>2, <1>3 DEF Record, Undo, Clear, Merging, Clearing, Windows
<1>4. ASSUME NEW u \in Writers, UpdateCache(u) PROVE JobsHaveAKind'
  <2>1. After(todo[u]) = Done \/ After(todo[u]).next \in Windows
    BY DEF After, TypeOK, Job, Windows
  <2> QED
    BY <1>2, <1>4, <2>1 DEF UpdateCache
<1> QED
  BY <1>1, <1>3, <1>4 DEF Next, vars, Import, DeletePost, Age, Miss, Query, Store, Expire

\* A commit that adds `posts` is covered for every entry and every fill.
LEMMA RecordStep ==
  ASSUME Coherent, NEW u \in Writers, NEW posts \in SUBSET Posts, Record(u, posts)
  PROVE  AnswersMissOnlyRacingLooks' /\ MissesOnlyRacingLooks'
<1> USE DEF Coherent
<1>1. AnswersMissOnlyRacingLooks'
  <2> SUFFICES ASSUME NEW r \in Readers, reader'[r].at = "answered"
               PROVE  seen'[reader'[r].window] \ reader'[r].answer
                        \subseteq raced'[r] \cup imported'[r]
    BY DEF AnswersMissOnlyRacingLooks
  <2>1. reader' = reader /\ imported' = imported /\ r \in InFlight
    BY DEF Record, InFlight
  <2>2. raced'[r] = raced[r] \cup posts
    BY <2>1 DEF Record, Copies
  <2>3. seen'[reader[r].window] = seen[reader[r].window] \cup posts
    BY DEF Record, TypeOK, Reading, Table!Look
  <2> QED
    BY <2>1, <2>2, <2>3 DEF AnswersMissOnlyRacingLooks
<1>2. MissesOnlyRacingLooks'
  <2> SUFFICES ASSUME NEW w \in Windows, w \in warm'
               PROVE  seen'[w] \ entry'[w] \subseteq raced'[w] \cup imported'[w] \cup Unmerged(w)'
    BY DEF MissesOnlyRacingLooks
  <2>1. warm' = warm /\ entry' = entry /\ imported' = imported /\ seen'[w] = seen[w] \cup posts
    BY DEF Record, Table!Look
  <2>2. raced[w] \subseteq raced'[w]
    BY DEF Record, Copies
  <2>3. Unmerged(w) \cup posts \subseteq Unmerged(w)'
    <3>1. todo'[u].posts = posts /\ todo'[u].next = "recent"
      BY DEF Record, Merging, TypeOK
    <3>2. \A v \in Writers : todo[v] = Done \/ todo'[v] = todo[v]
      BY DEF Record, TypeOK
    <3>3. Done.next \notin {"recent", w}
      BY DEF Done, Windows
    <3> QED
      BY <3>1, <3>2, <3>3 DEF Unmerged
  <2> QED
    BY <2>1, <2>2, <2>3 DEF MissesOnlyRacingLooks
<1> QED
  BY <1>1, <1>2

\* A commit that only removes posts leaves nothing new to miss.
LEMMA RemovalStep ==
  ASSUME Coherent, NEW u \in Writers, Clear(u) \/ (\E p \in Posts : Undo(u, p))
  PROVE  AnswersMissOnlyRacingLooks' /\ MissesOnlyRacingLooks'
<1> USE DEF Coherent
<1>1. \A w \in Windows : seen'[w] \subseteq seen[w]
  BY DEF Clear, Undo, Table!Clear, Table!Forget
<1>2. /\ reader' = reader /\ raced' = raced /\ imported' = imported
      /\ warm' = warm /\ entry' = entry
  BY DEF Clear, Undo
<1>3. AnswersMissOnlyRacingLooks'
  <2>1. \A r \in Readers : reader[r].window \in Windows
    BY DEF TypeOK, Reading
  <2> QED
    BY <1>1, <1>2, <2>1 DEF AnswersMissOnlyRacingLooks
<1>4. \A w \in Windows : Unmerged(w) \subseteq Unmerged(w)'
  <2>1. \A v \in Writers : todo[v] = Done \/ todo'[v] = todo[v]
    BY DEF Clear, Undo, TypeOK
  <2>2. \A w \in Windows : Done.next \notin {"recent", w}
    BY DEF Done, Windows
  <2> QED
    BY <2>1, <2>2 DEF Unmerged
<1>5. MissesOnlyRacingLooks'
  BY <1>1, <1>2, <1>4 DEF MissesOnlyRacingLooks
<1> QED
  BY <1>3, <1>5

\* A cache update merges what it takes off the writer's list, or leaves no entry.
LEMMA UpdateStep ==
  ASSUME Coherent, NEW u \in Writers, UpdateCache(u)
  PROVE  AnswersMissOnlyRacingLooks' /\ MissesOnlyRacingLooks'
<1> USE DEF Coherent
<1> DEFINE cur == todo[u].next
<1>0. /\ cur \in Windows /\ seen' = seen /\ reader' = reader
      /\ todo[u].posts \in SUBSET Posts
  BY DEF UpdateCache, JobsHaveAKind, TypeOK, Job
<1>1. \A r \in Readers : raced'[r] = raced[r] /\ imported'[r] = imported[r]
  BY <1>0, ReadersAreNoWindows DEF UpdateCache, Merge, Drop, TypeOK, Copies
<1>2. AnswersMissOnlyRacingLooks'
  BY <1>0, <1>1 DEF AnswersMissOnlyRacingLooks
<1>3. ASSUME NEW w \in Windows
      PROVE  Unmerged(w) \ (IF w = cur THEN todo[u].posts ELSE {}) \subseteq Unmerged(w)'
  <2>1. \A v \in Writers : v # u => todo'[v] = todo[v]
    BY DEF UpdateCache, TypeOK
  <2>2. todo'[u] = After(todo[u])
    BY DEF UpdateCache, TypeOK
  <2>3. CASE w = cur
    BY <2>1, <2>3 DEF Unmerged
  <2>4. CASE w # cur /\ cur = "recent"
    <3>1. w = "long" /\ todo'[u].next = "long" /\ todo'[u].posts = todo[u].posts
      BY <2>2, <2>4 DEF After, Windows, TypeOK, Job
    <3> QED
      BY <2>1, <3>1 DEF Unmerged
  <2>5. CASE w # cur /\ cur = "long"
    BY <2>1, <2>5 DEF Unmerged, Windows
  <2> QED
    BY <1>0, <2>3, <2>4, <2>5 DEF Windows
<1>4. MissesOnlyRacingLooks'
  <2> SUFFICES ASSUME NEW w \in Windows, w \in warm'
               PROVE  seen'[w] \ entry'[w] \subseteq raced'[w] \cup imported'[w] \cup Unmerged(w)'
    BY DEF MissesOnlyRacingLooks
  <2>1. CASE todo[u].op = "merge" /\ Merge(cur, todo[u].posts)
    <3>1. warm' = warm /\ raced' = raced /\ imported' = imported
      BY <2>1 DEF Merge
    <3>2. entry'[w] = IF w = cur THEN entry[w] \cup todo[u].posts ELSE entry[w]
      BY <1>0, <2>1, <3>1 DEF Merge, TypeOK
    <3> QED
      BY <1>0, <1>3, <3>1, <3>2 DEF MissesOnlyRacingLooks
  <2>2. CASE todo[u].op = "clear" /\ Drop(cur)
    <3>1. w # cur /\ w \in warm
      BY <1>0, <2>2 DEF Drop
    <3>2. entry'[w] = entry[w] /\ raced'[w] = raced[w] /\ imported'[w] = imported[w]
      BY <1>0, <2>2, <3>1 DEF Drop, TypeOK, Copies
    <3> QED
      BY <1>0, <1>3, <3>1, <3>2 DEF MissesOnlyRacingLooks
  <2> QED
    BY <2>1, <2>2 DEF UpdateCache
<1> QED
  BY <1>2, <1>4

\* An import is covered by the ghost of every copy it does not reach.
LEMMA ImportStep ==
  ASSUME Coherent, NEW posts \in SUBSET Posts, Import(posts)
  PROVE  AnswersMissOnlyRacingLooks' /\ MissesOnlyRacingLooks'
<1> USE DEF Coherent
<1>1. \A w \in Windows : seen'[w] \subseteq seen[w] \cup posts
  BY DEF Import, Table!Backfill
<1>2. /\ reader' = reader /\ raced' = raced /\ todo' = todo
      /\ warm' = warm /\ entry' = entry
  BY DEF Import
<1>3. /\ \A r \in InFlight : imported'[r] = imported[r] \cup posts
      /\ \A w \in warm : imported'[w] = imported[w] \cup posts
  BY DEF Import, Copies, InFlight, TypeOK
<1>4. AnswersMissOnlyRacingLooks'
  <2>1. \A r \in Readers : reader[r].window \in Windows
    BY DEF TypeOK, Reading
  <2> QED
    BY <1>1, <1>2, <1>3, <2>1 DEF AnswersMissOnlyRacingLooks, InFlight
<1>5. MissesOnlyRacingLooks'
  BY <1>1, <1>2, <1>3 DEF MissesOnlyRacingLooks, Unmerged
<1> QED
  BY <1>4, <1>5

\* A reader's steps: a query answers with the table, and storing the answer
\* hands its ghosts to the entry.
LEMMA ReaderStep ==
  ASSUME Coherent, NEW r \in Readers,
         (\E w \in Windows : Miss(r, w)) \/ Query(r) \/ Store(r)
  PROVE  AnswersMissOnlyRacingLooks' /\ MissesOnlyRacingLooks'
<1> USE DEF Coherent
<1>1. /\ seen' = seen /\ todo' = todo /\ reader[r].window \in Windows
      /\ \A q \in Readers : q # r => /\ reader'[q] = reader[q]
                                     /\ raced'[q] = raced[q] /\ imported'[q] = imported[q]
  BY ReadersAreNoWindows DEF Miss, Query, Store, TypeOK, Reading, Copies
<1>2. ASSUME NEW w \in Windows, Miss(r, w)
      PROVE  AnswersMissOnlyRacingLooks' /\ MissesOnlyRacingLooks'
  <2>1. reader'[r].at = "missed"
    BY <1>2 DEF Miss, TypeOK, Reading
  <2>2. UNCHANGED <<warm, entry, raced, imported>>
    BY <1>2 DEF Miss
  <2>3. AnswersMissOnlyRacingLooks'
    BY <1>1, <2>1, <2>2 DEF AnswersMissOnlyRacingLooks
  <2>4. MissesOnlyRacingLooks'
    BY <1>1, <2>2 DEF MissesOnlyRacingLooks, Unmerged
  <2> QED
    BY <2>3, <2>4
<1>3. CASE Query(r)
  <2>1. reader'[r].answer = seen[reader[r].window] /\ reader'[r].window = reader[r].window
    BY <1>3 DEF Query, TypeOK, Reading
  <2>2. warm' = warm /\ entry' = entry
    BY <1>3 DEF Query
  <2>3. \A w \in Windows : raced'[w] = raced[w] /\ imported'[w] = imported[w]
    BY <1>3, ReadersAreNoWindows DEF Query, TypeOK, Copies
  <2>4. AnswersMissOnlyRacingLooks'
    BY <1>1, <2>1 DEF AnswersMissOnlyRacingLooks
  <2>5. MissesOnlyRacingLooks'
    BY <1>1, <2>2, <2>3 DEF MissesOnlyRacingLooks, Unmerged
  <2> QED
    BY <2>4, <2>5
<1>4. CASE Store(r)
  <2> DEFINE v == reader[r].window
  <2>1. reader'[r].at = "idle"
    BY <1>4 DEF Store, Idle, TypeOK
  <2>2. AnswersMissOnlyRacingLooks'
    BY <1>1, <2>1 DEF AnswersMissOnlyRacingLooks
  <2>3. /\ warm' = warm \cup {v} /\ entry'[v] = reader[r].answer
        /\ raced'[v] = raced[r] /\ imported'[v] = imported[r]
    BY <1>1, <1>4, ReadersAreNoWindows DEF Store, TypeOK, Copies
  <2>4. \A w \in Windows : w # v => /\ entry'[w] = entry[w]
                                    /\ raced'[w] = raced[w] /\ imported'[w] = imported[w]
    BY <1>4, ReadersAreNoWindows DEF Store, TypeOK, Copies
  <2>5. seen[v] \ reader[r].answer \subseteq raced[r] \cup imported[r]
    BY <1>4 DEF Store, AnswersMissOnlyRacingLooks
  <2>6. MissesOnlyRacingLooks'
    BY <1>1, <2>3, <2>4, <2>5 DEF MissesOnlyRacingLooks, Unmerged
  <2> QED
    BY <2>2, <2>6
<1> QED
  BY <1>2, <1>3, <1>4

\* Expiry, ageing, catalog deletes and stuttering add nothing to miss.
LEMMA QuietStep ==
  ASSUME Coherent,
         \/ \E w \in Windows : Expire(w)
         \/ \E p \in Posts : DeletePost(p)
         \/ Age
         \/ UNCHANGED vars
  PROVE  AnswersMissOnlyRacingLooks' /\ MissesOnlyRacingLooks'
<1> USE DEF Coherent
<1>1. ASSUME NEW v \in Windows, Expire(v)
      PROVE  AnswersMissOnlyRacingLooks' /\ MissesOnlyRacingLooks'
  <2>1. seen' = seen /\ reader' = reader /\ todo' = todo /\ v \notin warm' /\ warm' \subseteq warm
    BY <1>1 DEF Expire, Drop
  <2>2. \A r \in Readers : raced'[r] = raced[r] /\ imported'[r] = imported[r]
    BY <1>1, ReadersAreNoWindows DEF Expire, Drop, TypeOK, Copies
  <2>3. \A w \in Windows : w # v => /\ entry'[w] = entry[w]
                                    /\ raced'[w] = raced[w] /\ imported'[w] = imported[w]
    BY <1>1, ReadersAreNoWindows DEF Expire, Drop, TypeOK, Copies
  <2>4. AnswersMissOnlyRacingLooks'
    BY <2>1, <2>2 DEF AnswersMissOnlyRacingLooks
  <2>5. MissesOnlyRacingLooks'
    BY <2>1, <2>3 DEF MissesOnlyRacingLooks, Unmerged
  <2> QED
    BY <2>4, <2>5
<1>2. ASSUME (\E p \in Posts : DeletePost(p)) \/ Age \/ UNCHANGED vars
      PROVE  AnswersMissOnlyRacingLooks' /\ MissesOnlyRacingLooks'
  <2>1. \A w \in Windows : seen'[w] \subseteq seen[w]
    BY <1>2 DEF DeletePost, Age, vars, Table!Age, Table!Forget
  <2>2. UNCHANGED <<warm, entry, reader, todo, raced, imported>>
    BY <1>2 DEF DeletePost, Age, vars
  <2>3. \A r \in Readers : reader[r].window \in Windows
    BY DEF TypeOK, Reading
  <2>4. AnswersMissOnlyRacingLooks'
    BY <2>1, <2>2, <2>3 DEF AnswersMissOnlyRacingLooks
  <2>5. MissesOnlyRacingLooks'
    BY <2>1, <2>2 DEF MissesOnlyRacingLooks, Unmerged
  <2> QED
    BY <2>4, <2>5
<1> QED
  BY <1>1, <1>2

\* A request that reads a warm entry is told of every recorded look, except the
\* ones that raced the entry's fill, that are about to be merged, or that an
\* import added: whatever the number of requests and writers in flight.
THEOREM CacheCorrect == Spec => []MissesOnlyRacingLooks
<1>1. Init => Coherent
  <2> SUFFICES ASSUME Init PROVE Coherent
    OBVIOUS
  <2>1. JobsHaveAKind /\ MissesOnlyRacingLooks
    BY DEF Init, JobsHaveAKind, MissesOnlyRacingLooks
  <2>2. AnswersMissOnlyRacingLooks
    BY DEF Init, Idle, AnswersMissOnlyRacingLooks
  <2> QED
    BY TypeInit, <2>1, <2>2 DEF Coherent
<1>2. Coherent /\ [Next]_vars => Coherent'
  <2> SUFFICES ASSUME Coherent, [Next]_vars PROVE Coherent'
    OBVIOUS
  <2>1. TypeOK' /\ JobsHaveAKind'
    BY TypeStep, JobStep DEF Coherent
  <2>2. AnswersMissOnlyRacingLooks' /\ MissesOnlyRacingLooks'
    BY RecordStep, RemovalStep, UpdateStep, ImportStep, ReaderStep, QuietStep DEF Next
  <2> QED
    BY <2>1, <2>2 DEF Coherent
<1>3. Coherent => MissesOnlyRacingLooks
  BY DEF Coherent
<1> QED
  BY <1>1, <1>2, <1>3, PTL DEF Spec
=============================================================================
