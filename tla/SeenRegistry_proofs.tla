------------------------ MODULE SeenRegistry_proofs ------------------------
(***************************************************************************)
(* Proofs about the evidence of what an account has seen, for any accounts, *)
(* posts, sessions and windows that satisfy the assumptions of SeenRegistry.*)
(***************************************************************************)
EXTENDS SeenRegistry, FiniteSetTheorems, TLAPS

-----------------------------------------------------------------------------
(* The history is finite, so every count is a natural number *)

\* Only finitely many interaction rows can exist: the UNIQUE key ranges over a
\* product of finite sets.
LEMMA RowFinite == IsFiniteSet(Row)
<1> DEFINE Keys == ((Accounts \X Posts) \X Events) \X (Sessions \cup {Import})
           row == [k \in Keys |-> [account |-> k[1][1][1], post |-> k[1][1][2],
                                   event |-> k[1][2], session |-> k[2]]]
<1>1. IsFiniteSet(Events)
  <2>1. IsFiniteSet({"qualified_impression"} \cup {"open"})
    BY FS_Union, FS_Singleton
  <2>2. Events \subseteq {"qualified_impression"} \cup {"open"}
    BY ConstantsOK DEF ConstantsOK
  <2> QED
    BY <2>1, <2>2, FS_Subset
<1>2. IsFiniteSet(Keys)
  <2>1. IsFiniteSet(Sessions \cup {Import})
    BY FS_Union, FS_Singleton, ConstantsOK DEF ConstantsOK
  <2> QED
    BY <1>1, <2>1, FS_Product, ConstantsOK DEF ConstantsOK
<1>3. row \in Surjection(Keys, Row)
  <2>1. row \in [Keys -> Row]
    BY DEF Row
  <2>2. ASSUME NEW r \in Row PROVE \E k \in Keys : row[k] = r
    <3> DEFINE k == <<<<<<r.account, r.post>>, r.event>>, r.session>>
    <3>1. k \in Keys
      BY DEF Row
    <3>2. row[k] = r
      BY <3>1 DEF Row
    <3> QED
      BY <3>1, <3>2
  <2> QED
    BY <2>1, <2>2 DEF Surjection
<1> QED
  BY <1>2, <1>3, FS_Surjection

\* A tally of interaction rows is a pair of natural numbers for every tag.
LEMMA TallyType ==
  ASSUME NEW rows \in SUBSET Row, NEW a
  PROVE  Tally(rows, a) \in [Tags -> Counts]
<1>1. ASSUME NEW t, NEW e PROVE Count(rows, a, t, e) \in Nat
  <2> DEFINE counted == {r \in rows : /\ r.account = a /\ r.event = e
                                      /\ t \in TagsOf[r.post]}
  <2>1. counted \in SUBSET Row
    OBVIOUS
  <2>2. IsFiniteSet(counted)
    BY <2>1, RowFinite, FS_Subset
  <2> QED
    BY <2>2, FS_CardinalityType DEF Count
<1> QED
  BY <1>1 DEF Tally, Counts

-----------------------------------------------------------------------------
(* Type correctness *)

\* The initial state is well typed.
LEMMA TypeInit == Init => TypeOK
BY DEF Init, TypeOK, Day, Never, Counts

\* Recording a batch, alone or retried, keeps the types.
LEMMA RecordBatchType ==
  ASSUME TypeOK, NEW b \in Batches, RecordBatch(b)
  PROVE  TypeOK'
<1> DEFINE fresh == FreshRows(b)
<1>1. fresh \in SUBSET Row
  BY DEF Batches, FreshRows
<1>2. \A a : Tally(fresh, a) \in [Tags -> Counts]
  BY <1>1, TallyType
<1>3. created' \in [Row -> Day]
  BY DEF RecordBatch, TypeOK, Day
<1>4. shown' \in [Accounts -> [Posts -> Day]]
  BY DEF RecordBatch, TypeOK, Day, LastShown
<1>5. feedback' \in [Accounts -> [Tags -> Counts]]
  <2>1. ASSUME NEW a \in Accounts, NEW t \in Tags
        PROVE  [imp |-> feedback[a][t].imp + Tally(fresh, a)[t].imp,
                pos |-> feedback[a][t].pos + Tally(fresh, a)[t].pos] \in Counts
    <3>1. feedback[a][t] \in Counts /\ Tally(fresh, a)[t] \in Counts
      BY <1>2 DEF TypeOK
    <3> QED
      BY <3>1 DEF Counts
  <2> QED
    BY <2>1 DEF RecordBatch
<1> QED
  BY <1>3, <1>4, <1>5 DEF RecordBatch, TypeOK

\* Undo keeps the types: its counts are floored at zero.
LEMMA UndoType ==
  ASSUME TypeOK, NEW r \in Row, Undo(r)
  PROVE  TypeOK'
<1> DEFINE a == r.account
<1>1. a \in Accounts /\ r.post \in Posts
  BY DEF Row
<1>2. created' \in [Row -> Day] /\ shown' \in [Accounts -> [Posts -> Day]]
  BY <1>1 DEF Undo, TypeOK, Day
<1>3. feedback' \in [Accounts -> [Tags -> Counts]]
  <2>1. Tally({r}, a) \in [Tags -> Counts]
    BY TallyType
  <2>2. \A m, n \in Nat : MaxZero(m - n) \in Nat
    BY DEF MaxZero
  <2>3. ASSUME NEW t \in Tags
        PROVE  [imp |-> MaxZero(feedback[a][t].imp - Tally({r}, a)[t].imp),
                pos |-> MaxZero(feedback[a][t].pos - Tally({r}, a)[t].pos)] \in Counts
    <3>1. feedback[a][t] \in Counts /\ Tally({r}, a)[t] \in Counts
      BY <1>1, <2>1 DEF TypeOK
    <3> QED
      BY <2>2, <3>1 DEF Counts
  <2> QED
    BY <1>1, <2>3 DEF Undo, TypeOK
<1> QED
  BY <1>2, <1>3 DEF Undo, TypeOK

\* Decay keeps the types: a rounded share of a count is a count.
LEMMA DecayType ==
  ASSUME TypeOK, NEW a \in Accounts, NEW half \in {1, 2}, Decay(a, half)
  PROVE  TypeOK'
<1>1. \A n \in Nat : Decayed(n, half) \in Nat
  BY DEF Decayed
<1>2. ASSUME NEW t \in Tags
      PROVE  [imp |-> Decayed(feedback[a][t].imp, half),
              pos |-> Decayed(feedback[a][t].pos, half)] \in Counts
  <2>1. feedback[a][t] \in Counts
    BY DEF TypeOK
  <2> QED
    BY <1>1, <2>1 DEF Counts
<1>3. feedback' \in [Accounts -> [Tags -> Counts]]
  BY <1>2 DEF Decay, TypeOK
<1> QED
  BY <1>3 DEF Decay, TypeOK

\* Every step keeps the types.
LEMMA TypeStep == TypeOK /\ [Next]_vars => TypeOK'
<1> SUFFICES ASSUME TypeOK, [Next]_vars PROVE TypeOK'
  OBVIOUS
<1>1. ASSUME NEW p \in Posts, Serve(p) \/ PersistCatalog(p) \/ DeletePost(p)
      PROVE  TypeOK'
  BY <1>1 DEF TypeOK, Serve, PersistCatalog, DeletePost, Day
<1>2. ASSUME NEW b \in Batches, RecordBatch(b) PROVE TypeOK'
  BY <1>2, RecordBatchType
<1>3. ASSUME NEW r \in Row, Undo(r) PROVE TypeOK'
  BY <1>3, UndoType
<1>4. ASSUME NEW a \in Accounts, Clear(a) PROVE TypeOK'
  <2>1. Tally({}, a) \in [Tags -> Counts]
    BY TallyType
  <2> QED
    BY <1>4, <2>1 DEF TypeOK, Clear, Day
<1>5. ASSUME NEW a \in Accounts, RebuildFeedback(a) PROVE TypeOK'
  <2>1. Tally(Written, a) \in [Tags -> Counts]
    BY TallyType DEF Written
  <2> QED
    BY <1>5, <2>1 DEF TypeOK, RebuildFeedback
<1>6. ASSUME NEW a \in Accounts, NEW items \in Exports, NEW d \in 0..now,
             Restore(a, items, d)
      PROVE  TypeOK'
  BY <1>6 DEF TypeOK, Restore, Day
<1>7. ASSUME NEW a \in Accounts, NEW half \in {1, 2}, Decay(a, half) PROVE TypeOK'
  BY <1>7, DecayType
<1>8. CASE Crash
  BY <1>8 DEF TypeOK, Crash
<1>9. CASE PruneShown
  BY <1>9 DEF TypeOK, PruneShown, Day
<1>10. CASE NextDay
  BY <1>10 DEF TypeOK, NextDay
<1>11. CASE UNCHANGED vars
  BY <1>11 DEF TypeOK, vars
<1> QED
  BY <1>1, <1>2, <1>3, <1>4, <1>5, <1>6, <1>7, <1>8, <1>9, <1>10, <1>11 DEF Next

\* Every reachable state is well typed; in particular no path drives a count
\* of account_tag_feedback below zero, and no date is ever invented.
THEOREM TypeCorrect == Spec => []TypeOK
BY TypeInit, TypeStep, PTL DEF Spec

-----------------------------------------------------------------------------
(* A registered sighting is the latest look *)

\* What makes SightingIsLatest inductive: a new sighting is stamped with the
\* current day, which no stored date has passed.
NoFutureDates == \A r \in Row : created[r] <= now

DatesOK == NoFutureDates /\ SightingIsLatest

Latest == TypeOK /\ DatesOK

\* Every step keeps Latest.
LEMMA LatestStep == Latest /\ [Next]_vars => Latest'
<1> SUFFICES ASSUME Latest, [Next]_vars PROVE DatesOK'
  BY TypeStep DEF Latest
<1> USE DEF Latest
<1>0. /\ now \in Nat /\ created \in [Row -> Day]
      /\ shown \in [Accounts -> [Posts -> Day]]
  BY DEF TypeOK
<1>1. ASSUME NEW p \in Posts, Serve(p) \/ PersistCatalog(p) PROVE DatesOK'
  BY <1>1 DEF Serve, PersistCatalog, DatesOK, NoFutureDates, SightingIsLatest
<1>2. ASSUME NEW p \in Posts, DeletePost(p) PROVE DatesOK'
  <2>1. \A r \in Row : created'[r] = created[r] \/ created'[r] = Never
    BY <1>2, <1>0 DEF DeletePost
  <2>2. now' = now /\ shown' = shown
    BY <1>2 DEF DeletePost
  <2>3. \A r \in Row : shown[r.account][r.post] \in Day
    BY <1>0 DEF Row
  <2> QED
    BY <2>1, <2>2, <2>3, <1>0 DEF DatesOK, NoFutureDates, SightingIsLatest, Never, Day
<1>3. ASSUME NEW b \in Batches, RecordBatch(b) PROVE DatesOK'
  <2>1. \A r \in Row : created'[r] = IF r \in FreshRows(b) THEN now ELSE created[r]
    BY <1>3 DEF RecordBatch
  <2>2. ASSUME NEW r \in Row
        PROVE  shown'[r.account][r.post] = now
               \/ (shown'[r.account][r.post] = shown[r.account][r.post] /\ r \notin FreshRows(b))
    BY <1>3, <1>0 DEF RecordBatch, LastShown, Row
  <2>3. now' = now
    BY <1>3 DEF RecordBatch
  <2> QED
    BY <2>1, <2>2, <2>3, <1>0 DEF DatesOK, NoFutureDates, SightingIsLatest
<1>4. ASSUME NEW r \in Row, Undo(r) PROVE DatesOK'
  <2>1. \A q \in Row : created'[q] = created[q] \/ created'[q] = Never
    BY <1>4, <1>0 DEF Undo
  <2>2. \A q \in Row : \/ shown'[q.account][q.post] = Never
                       \/ shown'[q.account][q.post] = shown[q.account][q.post]
    BY <1>4, <1>0 DEF Undo, Row
  <2>3. \A q \in Row : shown[q.account][q.post] \in Day
    BY <1>0 DEF Row
  <2>4. now' = now
    BY <1>4 DEF Undo
  <2> QED
    BY <2>1, <2>2, <2>3, <2>4, <1>0 DEF DatesOK, NoFutureDates, SightingIsLatest, Never, Day
<1>5. ASSUME NEW a \in Accounts, Clear(a) PROVE DatesOK'
  <2>1. \A q \in Row : created'[q] = IF q.account = a THEN Never ELSE created[q]
    BY <1>5 DEF Clear
  <2>2. \A q \in Row : \/ shown'[q.account][q.post] = Never
                       \/ shown'[q.account][q.post] = shown[q.account][q.post]
    BY <1>5, <1>0 DEF Clear, Row
  <2>3. \A q \in Row : shown[q.account][q.post] \in Day
    BY <1>0 DEF Row
  <2>4. now' = now
    BY <1>5 DEF Clear
  <2> QED
    BY <2>1, <2>2, <2>3, <2>4, <1>0 DEF DatesOK, NoFutureDates, SightingIsLatest, Never, Day
<1>6. ASSUME NEW a \in Accounts, NEW items \in Exports, NEW d \in 0..now,
             Restore(a, items, d)
      PROVE  DatesOK'
  <2>1. \A q \in Row : \/ created'[q] = created[q]
                       \/ q.session = Import /\ created'[q] = d
    BY <1>6 DEF Restore, FreshRows
  <2>2. now' = now /\ shown' = shown
    BY <1>6 DEF Restore
  <2> QED
    BY <2>1, <2>2, <1>0 DEF DatesOK, NoFutureDates, SightingIsLatest
<1>7. ASSUME NEW a \in Accounts,
             RebuildFeedback(a) \/ (\E half \in {1, 2} : Decay(a, half)) \/ Crash
      PROVE  DatesOK'
  BY <1>7 DEF RebuildFeedback, Decay, Crash, DatesOK, NoFutureDates, SightingIsLatest
<1>8. CASE PruneShown
  <2>1. \A q \in Row : \/ shown'[q.account][q.post] = Never
                       \/ shown'[q.account][q.post] = shown[q.account][q.post]
    BY <1>8 DEF PruneShown, Row
  <2>2. now' = now /\ created' = created
    BY <1>8 DEF PruneShown
  <2> QED
    BY <2>1, <2>2 DEF DatesOK, NoFutureDates, SightingIsLatest
<1>9. CASE NextDay
  <2>1. now' = now + 1 /\ created' = created /\ shown' = shown
    BY <1>9 DEF NextDay
  <2>2. \A q \in Row : created[q] \in Int
    BY <1>0 DEF Day, Never
  <2> QED
    BY <2>1, <2>2, <1>0 DEF DatesOK, NoFutureDates, SightingIsLatest
<1>10. CASE Crash \/ UNCHANGED vars
  BY <1>10 DEF Crash, vars, DatesOK, NoFutureDates, SightingIsLatest
<1> QED
  BY <1>1, <1>2, <1>3, <1>4, <1>5, <1>6, <1>7, <1>8, <1>9, <1>10 DEF Next

\* A registered sighting is never older than a look some browser recorded, so
\* the pruner judges a post by its last look whatever is undone, imported,
\* cascaded or retried in between.
THEOREM SightingCorrect == Spec => []SightingIsLatest
<1>1. Init => Latest
  <2> SUFFICES ASSUME Init PROVE DatesOK
    BY TypeInit DEF Latest
  <2>1. \A r \in Row : created[r] = Never /\ shown[r.account][r.post] = Never
    BY DEF Init, Row
  <2>2. now = 0
    BY DEF Init
  <2> QED
    BY <2>1, <2>2 DEF DatesOK, NoFutureDates, SightingIsLatest, Never
<1>2. Latest => SightingIsLatest
  BY DEF Latest, DatesOK
<1> QED
  BY <1>1, <1>2, LatestStep, PTL DEF Spec

-----------------------------------------------------------------------------
(* What leaves a dedup window *)

\* Whether a post is in a window depends on its own rows and sighting only.
LEMMA SeenIf ==
  ASSUME NEW a \in Accounts, NEW days, NEW p \in Seen(a, days), now' = now,
         InWindow(shown[a][p], days) => InWindow(shown'[a][p], days),
         \A r \in Row : r.account = a /\ r.post = p /\ InWindow(created[r], days)
                         => InWindow(created'[r], days)
  PROVE  p \in Seen(a, days)'
BY DEF Seen, InWindow

\* One step removes a post from a window in one of the permitted ways.
LEMMA ForgetStep ==
  ASSUME TypeOK, [Next]_vars, NEW a \in Accounts, NEW days \in {ShortDays, LongDays},
         NEW p \in Seen(a, days) \ Seen(a, days)'
  PROVE  \/ now' # now
         \/ Clear(a)
         \/ \E r \in Written : r.account = a /\ r.post = p /\ Undo(r)
         \/ ~InWindow(shown[a][p], days) /\ p \in catalog \ catalog'
<1>0. /\ now \in Nat /\ created \in [Row -> Day] /\ days \in Nat /\ p \in Posts
      /\ shown \in [Accounts -> [Posts -> Day]]
      /\ days <= RetentionDays /\ RetentionDays \in Nat
  BY RetentionCoversWindows DEF TypeOK, Seen, RetentionCoversWindows
<1>1. InWindow(now, days)
  BY <1>0 DEF InWindow, Never
<1>2. ASSUME NEW q \in Posts, Serve(q) \/ PersistCatalog(q) PROVE FALSE
  BY <1>2, SeenIf DEF Serve, PersistCatalog, InWindow
<1>3. ASSUME NEW q \in Posts, DeletePost(q)
      PROVE  ~InWindow(shown[a][p], days) /\ p \in catalog \ catalog'
  <2>1. now' = now /\ shown' = shown
    BY <1>3 DEF DeletePost
  <2>2. ~InWindow(shown[a][p], days)
    BY <2>1, <1>0 DEF Seen, InWindow
  <2>3. CASE p # q
    <3>1. \A r \in Row : r.post = p => created'[r] = created[r]
      BY <1>3, <2>3 DEF DeletePost
    <3> QED
      BY <2>1, <3>1, SeenIf DEF InWindow
  <2>4. CASE p = q
    BY <1>3, <2>2, <2>4 DEF DeletePost
  <2> QED
    BY <2>3, <2>4
<1>4. ASSUME NEW b \in Batches, RecordBatch(b) PROVE FALSE
  <2>1. now' = now
    BY <1>4 DEF RecordBatch
  <2>2. shown'[a][p] = now \/ shown'[a][p] = shown[a][p]
    BY <1>4, <1>0 DEF RecordBatch, LastShown
  <2>3. \A r \in Row : created'[r] = now \/ created'[r] = created[r]
    BY <1>4 DEF RecordBatch
  <2> QED
    BY <1>1, <2>1, <2>2, <2>3, SeenIf DEF InWindow
<1>5. ASSUME NEW r \in Row, Undo(r) PROVE r \in Written /\ r.account = a /\ r.post = p
  <2>1. r \in Written
    BY <1>5 DEF Undo, Written
  <2>2. now' = now
    BY <1>5 DEF Undo
  <2>3. CASE ~(r.account = a /\ r.post = p)
    <3>1. shown'[a][p] = shown[a][p]
      BY <1>5, <2>3, <1>0 DEF Undo
    <3>2. \A q \in Row : q.account = a /\ q.post = p => created'[q] = created[q]
      BY <1>5, <2>3, <1>0 DEF Undo
    <3> QED
      BY <2>2, <3>1, <3>2, SeenIf DEF InWindow
  <2> QED
    BY <2>1, <2>3
<1>6. ASSUME NEW c \in Accounts, Clear(c) PROVE Clear(a)
  <2>1. CASE c # a
    <3>1. now' = now
      BY <1>6 DEF Clear
    <3>2. shown'[a][p] = shown[a][p]
      BY <1>6, <2>1, <1>0 DEF Clear
    <3>3. \A q \in Row : q.account = a => created'[q] = created[q]
      BY <1>6, <2>1 DEF Clear
    <3> QED
      BY <3>1, <3>2, <3>3, SeenIf DEF InWindow
  <2> QED
    BY <1>6, <2>1
<1>7. ASSUME NEW c \in Accounts, NEW items \in Exports, NEW d \in 0..now,
             Restore(c, items, d)
      PROVE  FALSE
  <2>1. now' = now /\ shown' = shown
    BY <1>7 DEF Restore
  <2>2. \A q \in Row : created[q] # Never => created'[q] = created[q]
    BY <1>7 DEF Restore, FreshRows
  <2> QED
    BY <2>1, <2>2, SeenIf DEF InWindow
<1>8. ASSUME NEW c \in Accounts,
             RebuildFeedback(c) \/ (\E half \in {1, 2} : Decay(c, half))
      PROVE  FALSE
  BY <1>8, SeenIf DEF RebuildFeedback, Decay, InWindow
<1>9. CASE Crash \/ UNCHANGED vars
  BY <1>9, SeenIf DEF Crash, vars, InWindow
<1>10. CASE PruneShown
  <2>1. now' = now /\ created' = created
    BY <1>10 DEF PruneShown
  <2>2. shown'[a][p] = IF Stale(shown[a][p]) THEN Never ELSE shown[a][p]
    BY <1>10, <1>0 DEF PruneShown
  <2>3. InWindow(shown[a][p], days) => ~Stale(shown[a][p])
    <3>1. shown[a][p] \in Int
      BY <1>0 DEF Day, Never
    <3> QED
      BY <3>1, <1>0 DEF InWindow, Stale
  <2> QED
    BY <2>1, <2>2, <2>3, SeenIf DEF InWindow
<1>11. CASE NextDay
  BY <1>11, <1>0 DEF NextDay
<1> QED
  BY <1>2, <1>3, <1>4, <1>5, <1>6, <1>7, <1>8, <1>9, <1>10, <1>11 DEF Next

\* No post leaves a dedup window before its time except by a deletion that asks
\* for it: retention, batches, imports, decay and cascades never shorten one.
THEOREM WindowsCorrect == Spec => WindowsForgetOnlyOnRemoval
<1>1. TypeOK /\ [Next]_vars =>
        [\A a \in Accounts, days \in {ShortDays, LongDays} :
           \A p \in Seen(a, days) \ Seen(a, days)' :
             \/ now' # now
             \/ Clear(a)
             \/ \E r \in Written : r.account = a /\ r.post = p /\ Undo(r)
             \/ ~InWindow(shown[a][p], days) /\ p \in catalog \ catalog']_vars
  BY ForgetStep
<1> QED
  BY <1>1, TypeCorrect, PTL DEF Spec, WindowsForgetOnlyOnRemoval

-----------------------------------------------------------------------------
(* The aggregate follows the history *)

\* The rows of two disjoint sets are counted apart.
LEMMA CountDisjoint ==
  ASSUME NEW old \in SUBSET Row, NEW fresh \in SUBSET Row, old \cap fresh = {},
         NEW a, NEW t, NEW e
  PROVE  Count(old \cup fresh, a, t, e) = Count(old, a, t, e) + Count(fresh, a, t, e)
<1> DEFINE o == {r \in old : r.account = a /\ r.event = e /\ t \in TagsOf[r.post]}
           f == {r \in fresh : r.account = a /\ r.event = e /\ t \in TagsOf[r.post]}
           both == {r \in old \cup fresh : r.account = a /\ r.event = e /\ t \in TagsOf[r.post]}
<1>1. IsFiniteSet(o) /\ IsFiniteSet(f)
  <2>1. o \in SUBSET Row /\ f \in SUBSET Row
    OBVIOUS
  <2> QED
    BY <2>1, RowFinite, FS_Subset
<1>2. both = o \cup f /\ o \cap f = {}
  OBVIOUS
<1> HIDE DEF o, f, both
<1>3. Cardinality(o) \in Nat /\ Cardinality(f) \in Nat /\ Cardinality({}) = 0
  BY <1>1, FS_CardinalityType, FS_EmptySet
<1>4. Cardinality(o \cup f) = Cardinality(o) + Cardinality(f) - Cardinality(o \cap f)
  BY <1>1, FS_Union
<1>5. Cardinality(o \cap f) = 0
  BY <1>2, <1>3
<1>6. \A m, n \in Nat : m + n - 0 = m + n
  OBVIOUS
<1>7. Cardinality(o \cup f) = Cardinality(o) + Cardinality(f)
  BY <1>3, <1>4, <1>5, <1>6
<1>8. Cardinality(both) = Cardinality(o) + Cardinality(f)
  BY <1>2, <1>7
<1> QED
  BY <1>8 DEF Count, o, f, both

\* What FeedbackFollowsHistory asks of one tag of one account.
Follows(a, t) ==
  LET old == Tally(Written, a)[t]
      new == Tally(Written', a)[t]
  IN  \/ feedback'[a][t] = new
      \/ /\ feedback'[a][t].imp - feedback[a][t].imp
              <= IF new.imp > old.imp THEN new.imp - old.imp ELSE 0
         /\ feedback'[a][t].pos - feedback[a][t].pos
              <= IF new.pos > old.pos THEN new.pos - old.pos ELSE 0

LEMMA CountsAre ==
  ASSUME TypeOK, TypeOK', NEW a \in Accounts, NEW t \in Tags
  PROVE  /\ feedback[a][t] \in Counts /\ feedback'[a][t] \in Counts
         /\ Tally(Written, a)[t] \in Counts /\ Tally(Written', a)[t] \in Counts
<1>1. Written \in SUBSET Row /\ Written' \in SUBSET Row
  BY DEF Written
<1>2. Tally(Written, a) \in [Tags -> Counts] /\ Tally(Written', a) \in [Tags -> Counts]
  BY <1>1, TallyType
<1> QED
  BY <1>2 DEF TypeOK

\* A count that does not grow is no more than the history gains.
LEMMA FollowsIfNotMore ==
  ASSUME TypeOK, TypeOK', NEW a \in Accounts, NEW t \in Tags,
         feedback'[a][t].imp <= feedback[a][t].imp, feedback'[a][t].pos <= feedback[a][t].pos
  PROVE  Follows(a, t)
<1> DEFINE old == Tally(Written, a)[t]
           new == Tally(Written', a)[t]
<1>1. /\ feedback[a][t] \in Counts /\ feedback'[a][t] \in Counts
      /\ old \in Counts /\ new \in Counts
  BY CountsAre
<1> HIDE DEF old, new
<1>2. /\ feedback'[a][t].imp - feedback[a][t].imp
           <= IF new.imp > old.imp THEN new.imp - old.imp ELSE 0
      /\ feedback'[a][t].pos - feedback[a][t].pos
           <= IF new.pos > old.pos THEN new.pos - old.pos ELSE 0
  BY <1>1 DEF Counts
<1> QED
  BY <1>2 DEF Follows, old, new

LEMMA FollowsIfSame ==
  ASSUME TypeOK, TypeOK', NEW a \in Accounts, NEW t \in Tags, feedback' = feedback
  PROVE  Follows(a, t)
<1>1. feedback[a][t] \in Counts
  BY CountsAre
<1> QED
  BY <1>1, FollowsIfNotMore DEF Counts

\* A batch adds exactly the rows it inserts.
LEMMA RecordBatchFollows ==
  ASSUME TypeOK, TypeOK', NEW b \in Batches, RecordBatch(b), NEW a \in Accounts, NEW t \in Tags
  PROVE  Follows(a, t)
<1> DEFINE fresh == FreshRows(b)
           old == Tally(Written, a)[t]
           more == Tally(fresh, a)[t]
           new == Tally(Written', a)[t]
<1>1. /\ fresh \in SUBSET Row /\ Written \in SUBSET Row /\ Written \cap fresh = {}
  BY DEF Batches, FreshRows, Written
<1>2. Written' = Written \cup fresh
  <2>1. \A r \in Row : created'[r] = IF r \in fresh THEN now ELSE created[r]
    BY DEF RecordBatch
  <2>2. now # Never
    BY DEF TypeOK, Never
  <2> QED
    BY <1>1, <2>1, <2>2 DEF Written
<1>3. new.imp = old.imp + more.imp /\ new.pos = old.pos + more.pos
  BY <1>1, <1>2, CountDisjoint DEF Tally
<1>4. /\ feedback'[a][t].imp = feedback[a][t].imp + more.imp
      /\ feedback'[a][t].pos = feedback[a][t].pos + more.pos
  BY DEF RecordBatch
<1>5. feedback[a][t] \in Counts /\ old \in Counts /\ more \in Counts
  BY <1>1, CountsAre, TallyType
<1> HIDE DEF old, new, more
<1>6. /\ feedback'[a][t].imp - feedback[a][t].imp
           <= IF new.imp > old.imp THEN new.imp - old.imp ELSE 0
      /\ feedback'[a][t].pos - feedback[a][t].pos
           <= IF new.pos > old.pos THEN new.pos - old.pos ELSE 0
  BY <1>3, <1>4, <1>5 DEF Counts
<1> QED
  BY <1>6 DEF Follows, old, new

\* Undo takes away, down to zero.
LEMMA UndoFollows ==
  ASSUME TypeOK, TypeOK', NEW r \in Row, Undo(r), NEW a \in Accounts, NEW t \in Tags
  PROVE  Follows(a, t)
<1>1. feedback[a][t] \in Counts
  BY CountsAre
<1>2. CASE a # r.account
  <2>1. feedback'[a] = feedback[a]
    BY <1>2 DEF Undo, TypeOK
  <2> QED
    BY <1>1, <2>1, FollowsIfNotMore DEF Counts
<1>3. CASE a = r.account
  <2> DEFINE less == Tally({r}, a)[t]
  <2>1. less \in Counts
    BY TallyType
  <2>2. /\ feedback'[a][t].imp = MaxZero(feedback[a][t].imp - less.imp)
        /\ feedback'[a][t].pos = MaxZero(feedback[a][t].pos - less.pos)
    BY <1>3 DEF Undo, TypeOK
  <2> HIDE DEF less
  <2>3. \A m, n \in Nat : MaxZero(m - n) <= m
    BY DEF MaxZero
  <2>4. /\ feedback'[a][t].imp <= feedback[a][t].imp
        /\ feedback'[a][t].pos <= feedback[a][t].pos
    BY <1>1, <2>1, <2>2, <2>3 DEF Counts
  <2> QED
    BY <2>4, FollowsIfNotMore
<1> QED
  BY <1>2, <1>3

\* A clear leaves no row and no count.
LEMMA ClearFollows ==
  ASSUME TypeOK, TypeOK', NEW c \in Accounts, Clear(c), NEW a \in Accounts, NEW t \in Tags
  PROVE  Follows(a, t)
<1>1. CASE a # c
  <2>1. feedback'[a] = feedback[a]
    BY <1>1 DEF Clear, TypeOK
  <2>2. feedback[a][t] \in Counts
    BY CountsAre
  <2> QED
    BY <2>1, <2>2, FollowsIfNotMore DEF Counts
<1>2. CASE a = c
  <2>1. feedback'[a] = Tally({}, a)
    BY <1>2 DEF Clear, TypeOK
  <2>2. \A r \in Written' : r.account # a
    BY <1>2 DEF Clear, Written
  <2>3. \A e : {r \in Written' : r.account = a /\ r.event = e /\ t \in TagsOf[r.post]} =
               {r \in {} : r.account = a /\ r.event = e /\ t \in TagsOf[r.post]}
    BY <2>2
  <2>4. \A e : Count(Written', a, t, e) = Count({}, a, t, e)
    BY <2>3 DEF Count
  <2>5. Tally({}, a)[t] = Tally(Written', a)[t]
    BY <2>4 DEF Tally
  <2> QED
    BY <2>1, <2>5 DEF Follows
<1> QED
  BY <1>1, <1>2

\* A rounded share of a count is not more than the count.
LEMMA DecayFollows ==
  ASSUME TypeOK, TypeOK', NEW c \in Accounts, NEW half \in {1, 2}, Decay(c, half),
         NEW a \in Accounts, NEW t \in Tags
  PROVE  Follows(a, t)
<1>1. feedback[a][t] \in Counts
  BY CountsAre
<1>2. CASE a # c
  <2>1. feedback'[a] = feedback[a]
    BY <1>2 DEF Decay, TypeOK
  <2> QED
    BY <1>1, <2>1, FollowsIfNotMore DEF Counts
<1>3. CASE a = c
  <2>1. /\ feedback'[a][t].imp = Decayed(feedback[a][t].imp, half)
        /\ feedback'[a][t].pos = Decayed(feedback[a][t].pos, half)
    BY <1>3 DEF Decay, TypeOK
  <2>2. \A n \in Nat : Decayed(n, half) <= n
    BY DEF Decayed
  <2>3. /\ feedback'[a][t].imp <= feedback[a][t].imp
        /\ feedback'[a][t].pos <= feedback[a][t].pos
    BY <1>1, <2>1, <2>2 DEF Counts
  <2> QED
    BY <2>3, FollowsIfNotMore
<1> QED
  BY <1>2, <1>3

LEMMA FollowStep ==
  ASSUME TypeOK, [Next]_vars, NEW a \in Accounts, NEW t \in Tags
  PROVE  Follows(a, t)
<1>0. TypeOK'
  BY TypeStep
<1>1. ASSUME NEW p \in Posts, Serve(p) \/ PersistCatalog(p) \/ DeletePost(p)
      PROVE  Follows(a, t)
  BY <1>0, <1>1, FollowsIfSame DEF Serve, PersistCatalog, DeletePost
<1>2. ASSUME NEW b \in Batches, RecordBatch(b) PROVE Follows(a, t)
  BY <1>0, <1>2, RecordBatchFollows
<1>3. ASSUME NEW r \in Row, Undo(r) PROVE Follows(a, t)
  BY <1>0, <1>3, UndoFollows
<1>4. ASSUME NEW c \in Accounts, Clear(c) PROVE Follows(a, t)
  BY <1>0, <1>4, ClearFollows
<1>5. ASSUME NEW c \in Accounts, RebuildFeedback(c) PROVE Follows(a, t)
  <2>1. CASE a # c
    <3>1. feedback'[a] = feedback[a] /\ feedback[a][t] \in Counts
      BY <1>0, <1>5, <2>1, CountsAre DEF RebuildFeedback, TypeOK
    <3> QED
      BY <1>0, <3>1, FollowsIfNotMore DEF Counts
  <2>2. CASE a = c
    <3>1. feedback'[a] = Tally(Written, a) /\ Written' = Written
      BY <1>5, <2>2 DEF RebuildFeedback, TypeOK, Written
    <3> QED
      BY <3>1 DEF Follows
  <2> QED
    BY <2>1, <2>2
<1>6. ASSUME NEW c \in Accounts, NEW items \in Exports, NEW d \in 0..now, Restore(c, items, d)
      PROVE  Follows(a, t)
  BY <1>0, <1>6, FollowsIfSame DEF Restore
<1>7. ASSUME NEW c \in Accounts, NEW half \in {1, 2}, Decay(c, half) PROVE Follows(a, t)
  BY <1>0, <1>7, DecayFollows
<1>8. CASE Crash \/ PruneShown \/ NextDay \/ UNCHANGED vars
  BY <1>0, <1>8, FollowsIfSame DEF Crash, PruneShown, NextDay, vars
<1> QED
  BY <1>1, <1>2, <1>3, <1>4, <1>5, <1>6, <1>7, <1>8 DEF Next

\* Whatever is retried, undone after a decay, re-imported or cut off between
\* the two transactions of an import, the aggregate gains no more in a step
\* than the history does, or is recomputed to be the history.
THEOREM FeedbackCorrect == Spec => FeedbackFollowsHistory
<1>1. TypeOK /\ [Next]_vars => [\A a \in Accounts, t \in Tags : Follows(a, t)]_vars
  BY FollowStep
<1> QED
  BY <1>1, TypeCorrect, PTL DEF Spec, FeedbackFollowsHistory, Follows
-----------------------------------------------------------------------------
(* The dedup windows implement SeenTable *)

\* The windows of one account step the way the table may.
Matches(a) ==
  /\ now' = now => Table(a)!Write \/ UNCHANGED Dedup(a)
  /\ now' # now => Table(a)!Age

LEMMA DedupIs ==
  ASSUME NEW a
  PROVE  /\ Dedup(a) \in [Windows -> SUBSET Posts]
         /\ Dedup(a)' \in [Windows -> SUBSET Posts]
         /\ \A w \in Windows : /\ Dedup(a)[w] = Seen(a, Lookback(w))
                               /\ Dedup(a)'[w] = Seen(a, Lookback(w))'
BY DEF Dedup, Seen

LEMMA LookbackDays ==
  ASSUME NEW w
  PROVE  /\ Lookback(w) \in Nat /\ Lookback(w) <= RetentionDays /\ RetentionDays \in Nat
         /\ Lookback(w)' = Lookback(w)
BY RetentionCoversWindows DEF RetentionCoversWindows, Lookback

\* What is in the same windows on both sides of a step stays.
LEMMA SameWindows ==
  ASSUME NEW a, \A w \in Windows : Seen(a, Lookback(w))' = Seen(a, Lookback(w))
  PROVE  UNCHANGED Dedup(a)
BY DEF Dedup, Lookback

\* The windows depend on the account's own evidence and on the day.
LEMMA SameEvidence ==
  ASSUME NEW a, now' = now,
         \A p \in Posts : shown'[a][p] = shown[a][p],
         \A r \in Row : r.account = a => created'[r] = created[r]
  PROVE  UNCHANGED Dedup(a)
<1>1. ASSUME NEW w PROVE Seen(a, Lookback(w))' = Seen(a, Lookback(w))
  <2>1. \A d : InWindow(d, Lookback(w))' <=> InWindow(d, Lookback(w))
    BY LookbackDays DEF InWindow
  <2> QED
    BY <2>1 DEF Seen, InWindow, Lookback
<1> QED
  BY <1>1, SameWindows

\* Whatever takes evidence about one post away forgets that post at most.
LEMMA ForgetsOne ==
  ASSUME NEW a, NEW q \in Posts, now' = now,
         \A p \in Posts : shown'[a][p] = shown[a][p] \/ (p = q /\ shown'[a][p] = Never),
         \A r \in Row : r.account = a =>
             created'[r] = created[r] \/ (r.post = q /\ created'[r] = Never)
  PROVE  Table(a)!Forget(q)
<1> DEFINE left == {w \in Windows : q \notin Dedup(a)'[w]}
<1>1. ASSUME NEW w \in Windows, NEW p \in Posts
      PROVE  /\ p \in Seen(a, Lookback(w))' => p \in Seen(a, Lookback(w))
             /\ p # q /\ p \in Seen(a, Lookback(w)) => p \in Seen(a, Lookback(w))'
  BY DEF Seen, InWindow, Lookback
<1>2. ASSUME NEW w \in Windows
      PROVE  Dedup(a)'[w] = IF w \in left THEN Dedup(a)[w] \ {q} ELSE Dedup(a)[w]
  <2> DEFINE old == Dedup(a)[w]
             new == Dedup(a)'[w]
  <2>1. old \in SUBSET Posts /\ new \in SUBSET Posts
    BY DedupIs
  <2>2. \A p \in Posts : (p \in new => p \in old) /\ (p # q /\ p \in old => p \in new)
    BY <1>1, DedupIs
  <2>3. w \in left <=> q \notin new
    OBVIOUS
  <2> HIDE DEF old, new, left
  <2>4. CASE w \in left
    <3>1. new = old \ {q}
      BY <2>1, <2>2, <2>3, <2>4
    <3> QED
      BY <2>4, <3>1 DEF old, new
  <2>5. CASE w \notin left
    <3>1. new = old
      BY <2>1, <2>2, <2>3, <2>5
    <3> QED
      BY <2>5, <3>1 DEF old, new
  <2> QED
    BY <2>4, <2>5
<1>3. Dedup(a)' = [w \in Windows |-> IF w \in left THEN Dedup(a)[w] \ {q} ELSE Dedup(a)[w]]
  BY <1>2, DedupIs
<1> QED
  BY <1>3 DEF Table!Forget

\* A batch is one look: what it adds, it adds to both windows.
LEMMA RecordLooks ==
  ASSUME TypeOK, NEW a \in Accounts, NEW b \in Batches, RecordBatch(b)
  PROVE  now' = now /\ Table(a)!Look(Looked(a, b))
<1>0. /\ now' = now /\ now \in Nat /\ b \subseteq Row
      /\ \A r \in Row : created'[r] = IF r \in FreshRows(b) THEN now ELSE created[r]
  BY DEF RecordBatch, TypeOK, Batches
<1>1. \A p \in Posts : shown'[a][p] = IF p \in Looked(a, b) THEN now ELSE shown[a][p]
  BY DEF RecordBatch, LastShown, Looked, FreshRows
<1>2. ASSUME NEW w \in Windows
      PROVE  Dedup(a)'[w] = Dedup(a)[w] \cup Looked(a, b)
  <2> DEFINE days == Lookback(w)
  <2>1. InWindow(now, days) /\ days \in Nat /\ days' = days
    BY <1>0, LookbackDays DEF InWindow, Never
  <2>2. \A d : InWindow(d, days)' <=> InWindow(d, days)
    BY <1>0, <2>1 DEF InWindow
  <2> HIDE DEF days
  <2>3. ASSUME NEW p \in Posts
        PROVE  p \in Seen(a, days)' <=> p \in Seen(a, days) \cup Looked(a, b)
    <3>1. CASE p \in Looked(a, b)
      BY <1>0, <1>1, <2>1, <3>1 DEF Seen, InWindow
    <3>2. CASE p \notin Looked(a, b)
      <4>1. \A r \in Row : r.account = a /\ r.post = p => created'[r] = created[r]
        BY <1>0, <3>2 DEF Looked, FreshRows
      <4>2. shown'[a][p] = shown[a][p]
        BY <1>1, <3>2
      <4> QED
        BY <1>0, <2>1, <3>2, <4>1, <4>2 DEF Seen, InWindow
    <3> QED
      BY <3>1, <3>2
  <2>4. Seen(a, days)' = Seen(a, days) \cup Looked(a, b)
    BY <2>3 DEF Seen, Looked
  <2> QED
    BY <2>1, <2>4, DedupIs DEF days
<1> QED
  BY <1>0, <1>2, DedupIs DEF Table!Look

\* An import adds its posts to the windows that reach back to its date.
LEMMA RestoreBackfills ==
  ASSUME TypeOK, NEW a \in Accounts, NEW items \in Exports, NEW d \in 0..now,
         Restore(a, items, d)
  PROVE  \E posts \in SUBSET Posts : Table(a)!Backfill(posts)
<1> DEFINE rows == {r \in Row : /\ r.account = a /\ r.session = Import
                                /\ <<r.post, r.event>> \in items /\ created[r] = Never}
           posts == {r.post : r \in rows}
           reached == {w \in Windows : InWindow(d, Lookback(w))}
<1>0. /\ now' = now /\ now \in Nat /\ shown' = shown /\ d \in Nat
      /\ \A r \in Row : created'[r] = IF r \in rows THEN d ELSE created[r]
  BY DEF Restore, FreshRows, TypeOK
<1>1. posts \in SUBSET Posts /\ \A r \in rows : created[r] = Never /\ r.account = a
  BY DEF Row
<1>2. \A r \in Row : r \in rows => r.post \in posts
  OBVIOUS
<1>3. \A p \in posts : \E r \in Row : r \in rows /\ r.post = p
  OBVIOUS
<1> HIDE DEF rows, posts
<1>4. ASSUME NEW w \in Windows
      PROVE  Dedup(a)'[w] = IF w \in reached THEN Dedup(a)[w] \cup posts ELSE Dedup(a)[w]
  <2> DEFINE days == Lookback(w)
  <2>1. days \in Nat /\ days' = days
    BY LookbackDays
  <2>2. w \in reached <=> InWindow(d, days)
    OBVIOUS
  <2> HIDE DEF days, reached
  <2>3. ASSUME NEW p \in Posts
        PROVE  p \in Seen(a, days)' <=> p \in Seen(a, days) \/ (w \in reached /\ p \in posts)
    <3>1. CASE w \in reached /\ p \in posts
      BY <1>0, <1>1, <1>3, <2>1, <2>2, <3>1 DEF Seen, InWindow
    <3>2. CASE ~(w \in reached /\ p \in posts)
      <4>1. ASSUME NEW r \in Row, r.post = p
            PROVE  InWindow(created'[r], days) <=> InWindow(created[r], days)
        <5>1. CASE r \in rows
          <6>1. created'[r] = d /\ created[r] = Never /\ p \in posts
            BY <1>0, <1>1, <1>2, <4>1, <5>1
          <6>2. ~InWindow(d, days)
            BY <2>2, <3>2, <6>1
          <6> QED
            BY <6>1, <6>2 DEF InWindow
        <5>2. CASE r \notin rows
          BY <1>0, <5>2
        <5> QED
          BY <5>1, <5>2
      <4> QED
        BY <1>0, <2>1, <3>2, <4>1 DEF Seen, InWindow
    <3> QED
      BY <3>1, <3>2
  <2>4. Seen(a, days)' = IF w \in reached THEN Seen(a, days) \cup posts ELSE Seen(a, days)
    BY <1>1, <2>3 DEF Seen
  <2> QED
    BY <2>1, <2>4, DedupIs DEF days
<1>5. Table(a)!Backfill(posts)
  BY <1>4, DedupIs DEF Table!Backfill
<1> QED
  BY <1>1, <1>5

\* Retention takes no sighting that a window still reads.
LEMMA PruneForgetsNothing ==
  ASSUME TypeOK, NEW a \in Accounts, PruneShown
  PROVE  now' = now /\ UNCHANGED Dedup(a)
<1>0. now' = now /\ created' = created /\ now \in Nat
  BY DEF PruneShown, TypeOK
<1>1. ASSUME NEW w \in Windows, NEW p \in Posts
      PROVE  p \in Seen(a, Lookback(w))' <=> p \in Seen(a, Lookback(w))
  <2> DEFINE days == Lookback(w)
  <2>1. days \in Nat /\ days' = days /\ days <= RetentionDays /\ RetentionDays \in Nat
    BY LookbackDays
  <2>2. shown'[a][p] = IF Stale(shown[a][p]) THEN Never ELSE shown[a][p]
    BY DEF PruneShown
  <2>3. shown[a][p] \in Int
    BY DEF TypeOK, Day, Never
  <2> HIDE DEF days
  <2>4. InWindow(shown'[a][p], days) <=> InWindow(shown[a][p], days)
    BY <1>0, <2>1, <2>2, <2>3 DEF InWindow, Stale
  <2>5. p \in Seen(a, days)' <=> p \in Seen(a, days)
    BY <1>0, <2>1, <2>4 DEF Seen, InWindow
  <2> QED
    BY <2>1, <2>5 DEF days
<1>2. \A w \in Windows : Seen(a, Lookback(w))' = Seen(a, Lookback(w))
  BY <1>1 DEF Seen
<1> QED
  BY <1>0, <1>2, SameWindows

\* Over a day windows only lose posts.
LEMMA NextDayAges ==
  ASSUME TypeOK, NEW a \in Accounts, NextDay
  PROVE  Table(a)!Age
<1>1. ASSUME NEW w \in Windows PROVE Seen(a, Lookback(w))' \subseteq Seen(a, Lookback(w))
  <2> DEFINE days == Lookback(w)
  <2>1. days \in Nat /\ days' = days
    BY LookbackDays
  <2>2. now' = now + 1 /\ shown' = shown /\ created' = created /\ now \in Nat
    BY DEF NextDay, TypeOK
  <2> HIDE DEF days
  <2>3. \A d \in Day : d # Never /\ d >= now' - days => d # Never /\ d >= now - days
    BY <2>1, <2>2 DEF Day, Never
  <2>4. (\A p \in Posts : shown[a][p] \in Day) /\ \A r \in Row : created[r] \in Day
    BY DEF TypeOK
  <2>5. Seen(a, days)' \subseteq Seen(a, days)
    BY <2>1, <2>2, <2>3, <2>4 DEF Seen, InWindow
  <2> QED
    BY <2>1, <2>5 DEF days
<1> QED
  BY <1>1, DedupIs DEF Table!Age, Table!Contents

LEMMA TableStep ==
  ASSUME TypeOK, [Next]_vars, NEW a \in Accounts
  PROVE  Matches(a)
<1>0. created \in [Row -> Day] /\ shown \in [Accounts -> [Posts -> Day]]
  BY DEF TypeOK
<1>1. ASSUME NEW p \in Posts, Serve(p) \/ PersistCatalog(p) PROVE Matches(a)
  BY <1>1, SameEvidence DEF Serve, PersistCatalog, Matches
<1>2. ASSUME NEW p \in Posts, DeletePost(p) PROVE Matches(a)
  <2>1. now' = now /\ Table(a)!Forget(p)
    BY <1>2, ForgetsOne DEF DeletePost
  <2> QED
    BY <2>1 DEF Matches, Table!Write
<1>3. ASSUME NEW b \in Batches, RecordBatch(b) PROVE Matches(a)
  <2>1. now' = now /\ Table(a)!Look(Looked(a, b)) /\ Looked(a, b) \in SUBSET Posts
    BY <1>3, RecordLooks DEF Looked
  <2> QED
    BY <2>1 DEF Matches, Table!Write
<1>4. ASSUME NEW r \in Row, Undo(r) PROVE Matches(a)
  <2>1. r.post \in Posts /\ r.account \in Accounts
    BY DEF Row
  <2>2. \A p \in Posts : shown'[a][p] = shown[a][p] \/ (p = r.post /\ shown'[a][p] = Never)
    BY <1>0, <1>4, <2>1 DEF Undo
  <2>3. \A q \in Row : created'[q] = created[q] \/ (q.post = r.post /\ created'[q] = Never)
    BY <1>0, <1>4 DEF Undo
  <2>4. now' = now
    BY <1>4 DEF Undo
  <2>5. Table(a)!Forget(r.post)
    BY <2>1, <2>2, <2>3, <2>4, ForgetsOne
  <2> QED
    BY <2>1, <2>4, <2>5 DEF Matches, Table!Write
<1>5. ASSUME NEW c \in Accounts, Clear(c) PROVE Matches(a)
  <2>1. now' = now
    BY <1>5 DEF Clear
  <2>2. CASE c # a
    BY <1>0, <1>5, <2>1, <2>2, SameEvidence DEF Clear, Matches
  <2>3. CASE c = a
    <3>1. /\ \A p \in Posts : shown'[a][p] = Never
          /\ \A r \in Row : r.account = a => created'[r] = Never
      BY <1>0, <1>5, <2>3 DEF Clear
    <3>2. \A w \in Windows : Seen(a, Lookback(w))' = {}
      BY <3>1 DEF Seen, InWindow
    <3>3. Table(a)!Clear
      BY <3>2, DedupIs DEF Table!Clear
    <3> QED
      BY <2>1, <3>3 DEF Matches, Table!Write
  <2> QED
    BY <2>2, <2>3
<1>6. ASSUME NEW c \in Accounts, NEW items \in Exports, NEW d \in 0..now, Restore(c, items, d)
      PROVE  Matches(a)
  <2>1. now' = now /\ shown' = shown
    BY <1>6 DEF Restore
  <2>2. CASE c # a
    <3>1. \A r \in Row : r.account = a => created'[r] = created[r]
      BY <1>6, <2>2 DEF Restore, FreshRows
    <3> QED
      BY <2>1, <3>1, SameEvidence DEF Matches
  <2>3. CASE c = a
    BY <1>6, <2>1, <2>3, RestoreBackfills DEF Matches, Table!Write
  <2> QED
    BY <2>2, <2>3
<1>7. ASSUME NEW c \in Accounts,
             RebuildFeedback(c) \/ (\E half \in {1, 2} : Decay(c, half))
      PROVE  Matches(a)
  BY <1>7, SameEvidence DEF RebuildFeedback, Decay, Matches
<1>8. CASE Crash \/ UNCHANGED vars
  BY <1>8, SameEvidence DEF Crash, vars, Matches
<1>9. CASE PruneShown
  BY <1>9, PruneForgetsNothing DEF Matches
<1>10. CASE NextDay
  <2>1. now' # now
    BY <1>10 DEF NextDay, TypeOK
  <2> QED
    BY <1>10, <2>1, NextDayAges DEF Matches
<1> QED
  BY <1>1, <1>2, <1>3, <1>4, <1>5, <1>6, <1>7, <1>8, <1>9, <1>10 DEF Next

\* For every account, whatever is recorded, undone, imported, pruned or deleted,
\* the answers of the two dedup queries change only in the steps of SeenTable,
\* the ones the caches of SeenCache are modelled over (SEEN_POST_IDS_SQL,
\* hydrate_cache.rs).
THEOREM ImplementsTable ==
  ASSUME NEW a \in Accounts
  PROVE  Spec => Table(a)!Spec
<1>1. Init => Table(a)!Init
  BY DedupIs DEF Table!Init, Table!Contents
<1>2. TypeOK /\ [Next]_vars => [Table(a)!Next]_(Dedup(a))
  BY TableStep DEF Matches, Table!Next
<1> QED
  BY <1>1, <1>2, TypeCorrect, PTL DEF Spec, Table!Spec

\* A batch is one look at both windows, every other change within a day is one
\* write of SeenTable, and days only take posts out of the windows.
THEOREM WindowsAreTable == Spec => WindowsAreATable
<1>1. TypeOK /\ [Next]_vars =>
        [\A a \in Accounts :
           /\ now' = now => Table(a)!Write \/ UNCHANGED Dedup(a)
           /\ now' # now => Table(a)!Age
           /\ \A b \in Batches : RecordBatch(b) => Table(a)!Look(Looked(a, b))]_vars
  BY TableStep, RecordLooks DEF Matches
<1> QED
  BY <1>1, TypeCorrect, PTL DEF Spec, WindowsAreATable
=============================================================================
