--------------------------- MODULE CoocGraph_proofs ---------------------------
(***************************************************************************)
(* For every number of posts, every vocabulary and every batch size: no     *)
(* post is counted into the graph more often than its lives allow, none     *)
(* behind the watermark is left out, and a rebuild counts each pair once.   *)
(***************************************************************************)
EXTENDS CoocGraph, FiniteSetTheorems, WellFoundedInduction, TLAPS

(* The last post of a batch *)

LEMMA LargestExists ==
    ASSUME NEW n \in Nat, NEW S \in SUBSET (1..n), S # {}
    PROVE  \E m \in S : \A k \in S : k <= m
<1> DEFINE T == {n - k : k \in S}
<1>1. T \subseteq Nat /\ T # {}
  <2>1. \A k \in S : n - k \in Nat
    OBVIOUS
  <2>2. PICK k \in S : TRUE
    OBVIOUS
  <2>3. n - k \in T
    OBVIOUS
  <2> QED BY <2>1, <2>3
<1>2. IsWellFoundedOn(OpToRel(<, Nat), Nat)
    BY NatLessThanWellFounded
<1>3. PICK x \in T : \A y \in T : ~(<<y, x>> \in OpToRel(<, Nat))
  <2> HIDE DEF T
  <2> QED BY <1>1, <1>2, WFMin
<1>4. \A y \in T : ~(y < x)
    BY <1>1, <1>3 DEF OpToRel
<1>5. PICK m \in S : x = n - m
    OBVIOUS
<1>6. ASSUME NEW k \in S PROVE k <= m
  <2>1. ~(n - k < n - m)
    BY <1>4, <1>5
  <2> QED BY <2>1
<1> QED BY <1>6

USE GraphConstantsOK

-----------------------------------------------------------------------------
(* The invariant *)

\* What the thread has listed lies beyond what it is done with.
Listing ==
    /\ filler.at = "reading" => filler.last = watermark
    /\ filler.at = "counting" =>
         /\ watermark <= filler.last
         /\ \A p \in filler.batch : watermark < p /\ p <= filler.last
    /\ filler.at \notin {"reading", "counting"} => filler.last = 0

\* Behind the watermark, and up to the end of a listed batch but for the batch
\* itself, no pair is left out that did not come late.
Passed(p) ==
    \/ p <= watermark
    \/ filler.at = "counting" /\ p <= filler.last /\ p \notin filler.batch

NoneLeftOut ==
    \A p \in Posts, q \in Pairs :
        Passed(p) /\ q \subseteq rows[p] /\ <<p, q>> \notin late => global[p][q] > 0

IInv == TypeOK /\ Listing /\ OvercountIsBounded /\ NoneLeftOut

\* A pair has members.
LEMMA PairsAreNotEmpty == \A q \in Pairs : q \subseteq Tags /\ ~(q \subseteq {})
BY DEF Pairs

LEMMA FillerFields ==
    ASSUME NEW at \in FillerStep, NEW last \in 0..LastId, NEW batch \in SUBSET Posts,
           NEW pending \in BOOLEAN, filler' = Filler(at, last, batch, pending)
    PROVE  /\ filler' \in [at : FillerStep, last : 0..LastId, batch : SUBSET Posts,
                           pending : BOOLEAN]
           /\ filler'.at = at /\ filler'.last = last /\ filler'.batch = batch
BY DEF Filler

LEMMA NoCountsType == NoCounts \in Counts /\ \A p \in Posts, q \in Pairs : NoCounts[p][q] = 0
BY DEF NoCounts, Counts

LEMMA InitIInv == Init => IInv
<1> SUFFICES ASSUME Init PROVE IInv
    OBVIOUS
<1> DEFINE f == Filler("boot", 0, {}, FALSE)
<1>1. /\ f \in [at : FillerStep, last : 0..LastId, batch : SUBSET Posts, pending : BOOLEAN]
      /\ f.at = "boot" /\ f.last = 0
    BY DEF Filler, FillerStep
<1>2. filler = f
    BY DEF Init
<1> HIDE DEF f
<1>3. TypeOK
    BY <1>1, <1>2, NoCountsType DEF Init, TypeOK
<1>4. Listing
    BY <1>1, <1>2 DEF Listing
<1>5. OvercountIsBounded
    BY NoCountsType DEF Init, OvercountIsBounded
<1>6. NoneLeftOut
    BY PairsAreNotEmpty DEF Init, NoneLeftOut
<1> QED BY <1>3, <1>4, <1>5, <1>6 DEF IInv

\* Counting the pairs of a post adds one to each of them and nothing elsewhere.
LEMMA CountedFields ==
    ASSUME NEW table \in Counts, NEW p \in Posts, NEW tags
    PROVE  /\ Counted(table, p, tags) \in Counts
           /\ \A o \in Posts \ {p} : Counted(table, p, tags)[o] = table[o]
           /\ \A q \in Pairs : Counted(table, p, tags)[p][q] =
                IF q \subseteq tags THEN table[p][q] + 1 ELSE table[p][q]
<1> DEFINE row == [q \in Pairs |-> IF q \subseteq tags THEN table[p][q] + 1 ELSE table[p][q]]
<1>1. table[p] \in [Pairs -> Nat]
    BY DEF Counts
<1>2. row \in [Pairs -> Nat]
    BY <1>1
<1>3. Counted(table, p, tags) = [table EXCEPT ![p] = row]
    BY DEF Counted
<1>4. \A q \in Pairs : row[q] = IF q \subseteq tags THEN table[p][q] + 1 ELSE table[p][q]
    OBVIOUS
<1> HIDE DEF row
<1> QED BY <1>2, <1>3, <1>4 DEF Counts

-----------------------------------------------------------------------------
(* Saves and deletions *)

\* What does not depend on the tag rows.
Rest == /\ lib \in SUBSET Posts /\ personal \in Counts /\ teardown \in BOOLEAN

LEMMA HorizonCovers ==
    ASSUME IInv, NEW p \in Posts, Passed(p)
    PROVE  p <= Horizon
<1>1. watermark \in Nat /\ filler.last \in Nat /\ p \in Nat
    BY DEF IInv, TypeOK, Posts
<1> QED BY <1>1 DEF Passed, Horizon

LEMMA TagStep ==
    ASSUME IInv, Rest', NEW p \in Posts, NEW tags \in SUBSET Tags, NEW counted \in BOOLEAN,
           Tagged(p, tags, counted), counted => rows[p] = {},
           global' = IF counted THEN Counted(global, p, tags) ELSE global,
           UNCHANGED <<watermark, filler, passes>>
    PROVE  IInv'
<1>0. /\ rows \in [Posts -> SUBSET Tags] /\ lives \in [Posts -> Nat]
      /\ global \in Counts /\ late \in SUBSET (Posts \X Pairs)
    BY DEF IInv, TypeOK
<1>1. rows' = [rows EXCEPT ![p] = tags]
    BY DEF Tagged
<1>2. /\ lives' \in [Posts -> Nat]
      /\ \A o \in Posts : lives[o] <= lives'[o]
      /\ rows[p] = {} /\ tags # {} => lives'[p] = lives[p] + 1
    BY <1>0 DEF Tagged
<1>3. /\ global' \in Counts
      /\ \A o \in Posts \ {p} : global'[o] = global[o]
      /\ counted => \A q \in Pairs : global'[p][q] =
                      IF q \subseteq tags THEN global[p][q] + 1 ELSE global[p][q]
      /\ ~counted => global' = global
    BY <1>0, CountedFields
<1>4. late' \in SUBSET (Posts \X Pairs)
    BY <1>0 DEF Tagged, NewPairs
<1>5. TypeOK'
    BY <1>0, <1>1, <1>2, <1>3, <1>4 DEF IInv, TypeOK, Rest
<1>6. Listing' /\ \A o \in Posts : Passed(o)' <=> Passed(o)
    BY DEF IInv, Listing, Passed
<1>7. OvercountIsBounded'
  <2> SUFFICES ASSUME NEW o \in Posts, NEW q \in Pairs
               PROVE  global'[o][q] <= lives'[o] + passes'[o]
    BY DEF IInv, OvercountIsBounded
  <2>1. /\ global[o][q] \in Nat /\ global'[o][q] \in Nat /\ lives[o] \in Nat /\ lives'[o] \in Nat
        /\ passes[o] \in Nat /\ passes'[o] = passes[o]
        /\ global[o][q] <= lives[o] + passes[o] /\ lives[o] <= lives'[o]
    BY <1>2, <1>3 DEF IInv, TypeOK, Counts, OvercountIsBounded
  <2>2. CASE global'[o][q] = global[o][q]
    BY <2>1, <2>2
  <2>3. CASE global'[o][q] # global[o][q]
    <3>1. o = p /\ counted /\ q \subseteq tags
        BY <1>3, <2>3
    <3>2. global'[o][q] = global[o][q] + 1
        BY <1>3, <3>1
    <3>3. tags # {}
        BY <3>1, PairsAreNotEmpty
    <3>4. lives'[o] = lives[o] + 1
        BY <1>2, <3>1, <3>3
    <3> QED BY <2>1, <3>2, <3>4
  <2> QED BY <2>2, <2>3
<1>8. NoneLeftOut'
  <2> SUFFICES ASSUME NEW o \in Posts, NEW q \in Pairs,
                      Passed(o), q \subseteq rows'[o], <<o, q>> \notin late'
               PROVE  global'[o][q] > 0
    BY <1>6 DEF NoneLeftOut
  <2>1. global[o][q] \in Nat
    BY <1>0 DEF Counts
  <2>2. CASE o # p
    <3>1. q \subseteq rows[o] /\ <<o, q>> \notin late
        BY <1>0, <1>1, <2>2 DEF Tagged
    <3>2. global[o][q] > 0
        BY <3>1 DEF IInv, NoneLeftOut
    <3> QED BY <1>3, <2>2, <3>2
  <2>3. CASE o = p /\ counted
    <3>1. q \subseteq tags
        BY <1>0, <1>1, <2>3
    <3> QED BY <1>3, <2>1, <2>3, <3>1
  <2>4. CASE o = p /\ ~counted
    <3>1. q \subseteq tags
        BY <1>0, <1>1, <2>4
    <3>2. p <= Horizon
        BY <2>4, HorizonCovers
    <3>3. <<p, q>> \notin late
        BY <1>0, <2>4, <3>1 DEF Tagged
    <3>4. q \notin NewPairs(p, tags)
        BY <2>4, <3>2 DEF Tagged
    <3>5. q \subseteq rows[p]
        BY <3>1, <3>4 DEF NewPairs
    <3>6. global[p][q] > 0
        BY <2>4, <3>3, <3>5 DEF IInv, NoneLeftOut
    <3> QED BY <1>3, <2>4, <3>6
  <2> QED BY <2>2, <2>3, <2>4
<1> QED BY <1>5, <1>6, <1>7, <1>8 DEF IInv

LEMMA DeletedStep ==
    ASSUME IInv, Rest', NEW ps \in SUBSET Posts, Deleted(ps),
           UNCHANGED <<global, watermark, filler, lives, passes>>
    PROVE  IInv'
<1>1. /\ rows' = [p \in Posts |-> IF p \in ps THEN {} ELSE rows[p]]
      /\ late' = {pq \in late : pq[1] \notin ps}
    BY DEF Deleted
<1>2. TypeOK'
    BY <1>1 DEF IInv, TypeOK, Rest
<1>3. Listing' /\ \A o \in Posts : Passed(o)' <=> Passed(o)
    BY DEF IInv, Listing, Passed
<1>4. OvercountIsBounded'
    BY DEF IInv, OvercountIsBounded
<1>5. NoneLeftOut'
  <2> SUFFICES ASSUME NEW o \in Posts, NEW q \in Pairs,
                      Passed(o), q \subseteq rows'[o], <<o, q>> \notin late'
               PROVE  global[o][q] > 0
    BY <1>3 DEF NoneLeftOut
  <2>1. o \notin ps
    BY <1>1, PairsAreNotEmpty
  <2>2. q \subseteq rows[o] /\ <<o, q>> \notin late
    BY <1>1, <2>1
  <2> QED BY <2>2 DEF IInv, NoneLeftOut
<1> QED BY <1>2, <1>3, <1>4, <1>5 DEF IInv

LEMMA SaveStep ==
    ASSUME IInv, NEW p \in Posts, NEW tags \in TagLists,
           SaveFavourite(p, tags) \/ SaveCatalog(p, tags) \/ Hydrate(p, tags)
    PROVE  IInv'
<1>0. /\ tags \in SUBSET Tags /\ rows[p] \in SUBSET Tags /\ rows[p] \cup tags \in SUBSET Tags
      /\ lib \in SUBSET Posts /\ personal \in Counts /\ teardown \in BOOLEAN
    BY DEF IInv, TypeOK
<1>1. CASE SaveFavourite(p, tags)
  <2>1. /\ Tagged(p, rows[p] \cup tags, Untagged(p))
        /\ global' = IF Untagged(p) THEN Counted(global, p, tags) ELSE global
        /\ personal' = Counted(personal, p, tags) /\ lib' = lib \cup {p}
        /\ UNCHANGED <<watermark, filler, teardown, passes>>
    BY <1>1 DEF SaveFavourite
  <2>2. Rest'
    BY <1>0, <2>1, CountedFields DEF Rest
  <2>3. CASE rows[p] = {}
    <3>1. rows[p] \cup tags = tags
        BY <2>3
    <3>2. Tagged(p, tags, TRUE) /\ global' = Counted(global, p, tags)
        BY <2>1, <2>3, <3>1 DEF Untagged, Tagged
    <3> QED BY <1>0, <2>1, <2>2, <2>3, <3>2, TagStep
  <2>4. CASE rows[p] # {}
    <3>1. Tagged(p, rows[p] \cup tags, FALSE) /\ global' = global
        BY <2>1, <2>4 DEF Untagged, Tagged
    <3> QED BY <1>0, <2>1, <2>2, <3>1, TagStep
  <2> QED BY <2>3, <2>4
<1>2. CASE SaveCatalog(p, tags)
  <2>1. /\ Tagged(p, rows[p] \cup tags, FALSE)
        /\ UNCHANGED <<lib, global, personal, watermark, filler, teardown, passes>>
    BY <1>2 DEF SaveCatalog
  <2> QED BY <1>0, <2>1, TagStep DEF Rest
<1>3. CASE Hydrate(p, tags)
  <2>1. /\ Tagged(p, tags, FALSE)
        /\ UNCHANGED <<lib, global, personal, watermark, filler, teardown, passes>>
    BY <1>3 DEF Hydrate
  <2> QED BY <1>0, <2>1, TagStep DEF Rest
<1> QED BY <1>1, <1>2, <1>3

LEMMA PruneStep == ASSUME IInv, NEW p \in Posts, Prune(p) PROVE IInv'
<1>1. /\ Deleted({p}) /\ {p} \in SUBSET Posts
      /\ UNCHANGED <<lib, global, personal, watermark, filler, teardown, lives, passes>>
    BY DEF Prune
<1>2. Rest'
    BY <1>1 DEF IInv, TypeOK, Rest
<1> QED BY <1>1, <1>2, DeletedStep

LEMMA DropLibraryStep == ASSUME IInv, DropLibrary PROVE IInv'
<1>1. PICK exclusive \in SUBSET lib : Deleted(exclusive)
    BY DEF DropLibrary
<1>2. /\ lib' = {} /\ teardown' = TRUE
      /\ UNCHANGED <<global, personal, watermark, filler, lives, passes>>
    BY DEF DropLibrary
<1>3. exclusive \in SUBSET Posts /\ Rest'
    BY <1>2 DEF IInv, TypeOK, Rest
<1> QED BY <1>1, <1>2, <1>3, DeletedStep

\* Whatever leaves the rows, the graph and the thread alone.
LEMMA Aside ==
    ASSUME IInv, Rest', UNCHANGED <<rows, global, watermark, filler, lives, passes, late>>
    PROVE  IInv'
<1>1. TypeOK' /\ Listing' /\ OvercountIsBounded'
    BY DEF IInv, TypeOK, Rest, Listing, OvercountIsBounded
<1>2. NoneLeftOut'
    BY DEF IInv, NoneLeftOut, Passed
<1> QED BY <1>1, <1>2 DEF IInv

LEMMA DropPairsStep == ASSUME IInv, DropPairs PROVE IInv'
<1>1. /\ teardown' = FALSE /\ personal' = NoCounts
      /\ UNCHANGED <<rows, lib, global, watermark, filler, lives, passes, late>>
    BY DEF DropPairs
<1>2. Rest'
    BY <1>1, NoCountsType DEF IInv, TypeOK, Rest
<1> QED BY <1>1, <1>2, Aside

-----------------------------------------------------------------------------
(* The backfill thread *)

\* The thread goes on to f, which is not about to count a batch.
LEMMA ThreadStep ==
    ASSUME IInv, Rest',
           NEW f \in [at : FillerStep, last : 0..LastId, batch : SUBSET Posts, pending : BOOLEAN],
           filler' = f, f.at # "counting",
           f.last = IF f.at = "reading" THEN watermark ELSE 0,
           UNCHANGED <<rows, global, watermark, lives, passes, late>>
    PROVE  IInv'
<1>1. TypeOK' /\ OvercountIsBounded'
    BY DEF IInv, TypeOK, Rest, OvercountIsBounded
<1>2. Listing'
    BY DEF Listing
<1>3. NoneLeftOut'
    BY DEF IInv, NoneLeftOut, Passed
<1> QED BY <1>1, <1>2, <1>3 DEF IInv

LEMMA FillerType ==
    \A at \in FillerStep, last \in 0..LastId, batch \in SUBSET Posts, pending \in BOOLEAN :
        /\ Filler(at, last, batch, pending)
             \in [at : FillerStep, last : 0..LastId, batch : SUBSET Posts, pending : BOOLEAN]
        /\ Filler(at, last, batch, pending).at = at
        /\ Filler(at, last, batch, pending).last = last
        /\ Filler(at, last, batch, pending).batch = batch
BY DEF Filler

\* The states it may be in without a batch.
LEMMA Elsewhere ==
    ASSUME IInv, Rest', NEW at \in FillerStep, at # "counting", NEW pending \in BOOLEAN,
           filler' = Filler(at, IF at = "reading" THEN watermark ELSE 0, {}, pending),
           UNCHANGED <<rows, global, watermark, lives, passes, late>>
    PROVE  IInv'
<1> DEFINE last == IF at = "reading" THEN watermark ELSE 0
           f == Filler(at, last, {}, pending)
<1>1. last \in 0..LastId /\ {} \in SUBSET Posts
    BY DEF IInv, TypeOK
<1>2. /\ f \in [at : FillerStep, last : 0..LastId, batch : SUBSET Posts, pending : BOOLEAN]
      /\ f.at = at /\ f.last = last
  <2> HIDE DEF last
  <2> QED BY <1>1, FillerType
<1>3. filler' = f
    OBVIOUS
<1> HIDE DEF f
<1> PICK g \in [at : FillerStep, last : 0..LastId, batch : SUBSET Posts, pending : BOOLEAN] :
        g = f
    BY <1>2
<1>4. filler' = g /\ g.at # "counting" /\ g.last = IF g.at = "reading" THEN watermark ELSE 0
    BY <1>2, <1>3
<1> QED BY <1>4, ThreadStep

LEMMA ThreadTypes ==
    ASSUME IInv
    PROVE  /\ filler.pending \in BOOLEAN /\ lib \in SUBSET Posts /\ personal \in Counts
           /\ teardown \in BOOLEAN
           /\ {"boot", "reading", "account", "rebuilding", "off"} \subseteq FillerStep
BY DEF IInv, TypeOK, FillerStep

LEMMA ProbeStep == ASSUME IInv, Probe PROVE IInv'
<1>1. Rest' /\ UNCHANGED <<rows, global, watermark, lives, passes, late>>
    BY ThreadTypes DEF Probe, Rest
<1>2. PICK pending \in BOOLEAN :
        \/ filler' = Filler("off", 0, {}, FALSE)
        \/ filler' = Filler("reading", watermark, {}, pending)
        \/ filler' = Filler("account", 0, {}, pending)
    BY DEF Probe
<1>3. CASE filler' = Filler("off", 0, {}, FALSE)
    BY <1>1, <1>3, ThreadTypes, Elsewhere
<1>4. CASE filler' = Filler("reading", watermark, {}, pending)
    BY <1>1, <1>4, ThreadTypes, Elsewhere
<1>5. CASE filler' = Filler("account", 0, {}, pending)
    BY <1>1, <1>5, ThreadTypes, Elsewhere
<1> QED BY <1>2, <1>3, <1>4, <1>5

LEMMA ReadBatchStep == ASSUME IInv, ReadBatch PROVE IInv'
<1> DEFINE ids == Ahead(filler.last)
           batch == Batch(ids)
           m == CHOOSE p \in batch : \A o \in batch : o <= p
<1>0. /\ filler.at = "reading" /\ filler.last = watermark /\ watermark \in 0..LastId
      /\ UNCHANGED <<rows, lib, global, personal, watermark, teardown, lives, passes, late>>
    BY DEF ReadBatch, IInv, TypeOK, Listing
<1>1. Rest'
    BY <1>0, ThreadTypes DEF Rest
<1>2. /\ ids = {p \in Posts : p > watermark /\ rows[p] # {}}
      /\ batch \subseteq ids /\ batch \in SUBSET (1..LastId)
    BY <1>0 DEF Ahead, Batch, Posts
<1>3. CASE batch = {}
  <2>1. PICK at \in {"account", "off"} : filler' = Filler(at, 0, {}, FALSE)
    BY <1>0, <1>3 DEF ReadBatch
  <2> QED BY <1>0, <1>1, <2>1, ThreadTypes, Elsewhere
<1>4. CASE batch # {}
  <2>1. m \in batch /\ \A o \in batch : o <= m
    <3>1. \E x \in batch : \A o \in batch : o <= x
      <4> HIDE DEF batch
      <4> QED BY <1>2, <1>4, LargestExists
    <3> HIDE DEF batch
    <3> QED BY <3>1
  <2>2. filler' = Filler("counting", m, batch, filler.pending)
    BY <1>0, <1>4 DEF ReadBatch
  <2>3. m \in Posts /\ m \in 0..LastId /\ m > watermark
    BY <1>2, <2>1 DEF Posts
  <2>4. /\ filler' \in [at : FillerStep, last : 0..LastId, batch : SUBSET Posts,
                        pending : BOOLEAN]
        /\ filler'.at = "counting" /\ filler'.last = m /\ filler'.batch = batch
    <3>1. "counting" \in FillerStep /\ batch \in SUBSET Posts
        BY <1>2 DEF FillerStep, Posts
    <3> HIDE DEF m, batch
    <3> QED BY <2>2, <2>3, <3>1, ThreadTypes, FillerFields
  <2>5. TypeOK' /\ OvercountIsBounded'
    BY <1>0, <1>1, <2>4 DEF IInv, TypeOK, Rest, OvercountIsBounded
  <2>6. Listing'
    <3>1. \A o \in batch : watermark < o /\ o <= m
        BY <1>2, <2>1, <2>3 DEF Posts
    <3>2. watermark <= m
        BY <1>0, <2>3 DEF Posts
    <3> HIDE DEF m, batch
    <3> QED BY <1>0, <2>4, <3>1, <3>2 DEF Listing
  <2>7. ASSUME NEW o \in Posts, o > watermark, o <= m, o \notin batch PROVE rows[o] = {}
    <3> DEFINE below(x) == {y \in ids : y < x}
    <3>1. SUFFICES ASSUME o \in ids PROVE FALSE
        BY <1>2, <2>7
    <3>2. ~(Cardinality(below(o)) < BatchSize) /\ Cardinality(below(m)) < BatchSize
        BY <2>1, <2>7, <3>1 DEF Batch
    <3>3. IsFiniteSet(below(m))
      <4>1. ids \subseteq 1..LastId
        BY <1>2 DEF Posts
      <4>2. IsFiniteSet(1..LastId)
        BY FS_Interval
      <4> HIDE DEF m, ids
      <4>3. below(m) \subseteq 1..LastId
        BY <4>1
      <4> QED BY <4>2, <4>3, FS_Subset
    <3>4. below(o) \subseteq below(m)
      <4>1. o \in Nat /\ m \in Nat /\ \A y \in ids : y \in Nat
        <5>1. o \in Nat /\ m \in Nat
          BY <2>3 DEF Posts
        <5> HIDE DEF m
        <5> QED BY <1>2, <5>1 DEF Posts
      <4> HIDE DEF m, ids
      <4>2. \A y \in ids : y < o => y < m
        BY <2>7, <4>1
      <4> QED BY <4>2
    <3>5. /\ Cardinality(below(o)) \in Nat /\ Cardinality(below(m)) \in Nat
          /\ Cardinality(below(o)) <= Cardinality(below(m))
        BY <3>3, <3>4, FS_Subset, FS_CardinalityType
    <3> QED BY <3>2, <3>5
  <2>8. NoneLeftOut'
    <3> SUFFICES ASSUME NEW o \in Posts, NEW q \in Pairs, Passed(o)',
                        q \subseteq rows[o], <<o, q>> \notin late
                 PROVE  global[o][q] > 0
        BY <1>0 DEF NoneLeftOut
    <3>1. o <= watermark \/ (o <= m /\ o \notin batch)
        BY <1>0, <2>4 DEF Passed
    <3>2. o \in Nat /\ watermark \in Nat
        BY <1>0 DEF Posts
    <3>3. o <= watermark
        BY <2>7, <3>1, <3>2, PairsAreNotEmpty
    <3> QED BY <3>3 DEF IInv, NoneLeftOut, Passed
  <2> QED BY <2>5, <2>6, <2>8 DEF IInv
<1> QED BY <1>3, <1>4

LEMMA CountBatchStep == ASSUME IInv, CountBatch PROVE IInv'
<1>0. /\ filler.at = "counting" /\ filler.last \in 0..LastId /\ filler.batch \in SUBSET Posts
      /\ watermark <= filler.last /\ watermark \in Nat
      /\ \A p \in filler.batch : watermark < p /\ p <= filler.last
      /\ global \in Counts /\ passes \in [Posts -> Nat]
      /\ UNCHANGED <<rows, lib, personal, teardown, lives, late>>
      /\ watermark' = filler.last /\ filler' = Filler("reading", filler.last, {}, filler.pending)
    BY DEF CountBatch, Advanced, IInv, TypeOK, Listing
<1>1. /\ filler' \in [at : FillerStep, last : 0..LastId, batch : SUBSET Posts, pending : BOOLEAN]
      /\ filler'.at = "reading" /\ filler'.last = filler.last
    BY <1>0, ThreadTypes, FillerFields
<1>2. /\ global' \in Counts
      /\ \A o \in Posts \ filler.batch : global'[o] = global[o]
      /\ \A o \in filler.batch, q \in Pairs :
           global'[o][q] = IF q \subseteq rows[o] THEN global[o][q] + 1 ELSE global[o][q]
  <2>1. global' = [p \in Posts |-> IF p \in filler.batch
                                     THEN Counted(global, p, rows[p])[p] ELSE global[p]]
    BY DEF CountBatch
  <2>2. \A p \in Posts : /\ Counted(global, p, rows[p]) \in Counts
                         /\ \A q \in Pairs : Counted(global, p, rows[p])[p][q] =
                              IF q \subseteq rows[p] THEN global[p][q] + 1 ELSE global[p][q]
    BY <1>0, CountedFields
  <2>3. \A p \in Posts : /\ Counted(global, p, rows[p])[p] \in [Pairs -> Nat]
                         /\ global[p] \in [Pairs -> Nat]
    BY <1>0, <2>2 DEF Counts
  <2>4. global' \in Counts
    BY <2>1, <2>3 DEF Counts
  <2> QED BY <1>0, <2>1, <2>2, <2>4
<1>3. /\ passes' \in [Posts -> Nat]
      /\ \A o \in Posts : passes'[o] = IF o \in filler.batch THEN passes[o] + 1 ELSE passes[o]
    BY <1>0 DEF CountBatch
<1>4. TypeOK'
    BY <1>0, <1>1, <1>2, <1>3 DEF IInv, TypeOK
<1>5. Listing'
    BY <1>0, <1>1 DEF Listing
<1>6. OvercountIsBounded'
  <2> SUFFICES ASSUME NEW o \in Posts
               PROVE  /\ passes'[o] <= 1 /\ (passes'[o] = 1 => o <= watermark')
                      /\ \A q \in Pairs : global'[o][q] <= lives'[o] + passes'[o]
    BY DEF OvercountIsBounded
  <2>1. /\ passes[o] \in Nat /\ passes[o] <= 1 /\ (passes[o] = 1 => o <= watermark)
        /\ lives[o] \in Nat /\ o \in Nat /\ lives' = lives
        /\ \A q \in Pairs : global[o][q] \in Nat /\ global[o][q] <= lives[o] + passes[o]
    BY <1>0 DEF IInv, TypeOK, Counts, OvercountIsBounded, Posts
  <2>2. CASE o \in filler.batch
    <3>1. watermark < o /\ o <= filler.last
        BY <1>0, <2>2
    <3>2. passes[o] = 0 /\ passes'[o] = 1
        BY <1>0, <1>3, <2>1, <2>2, <3>1
    <3>3. \A q \in Pairs : global'[o][q] <= lives[o] + 1
        BY <1>2, <2>1, <2>2, <3>2
    <3> QED BY <1>0, <2>1, <3>1, <3>2, <3>3
  <2>3. CASE o \notin filler.batch
    <3>1. passes'[o] = passes[o] /\ global'[o] = global[o]
        BY <1>2, <1>3, <2>3
    <3>2. o <= watermark => o <= filler.last
        BY <1>0, <2>1
    <3> QED BY <1>0, <2>1, <3>1, <3>2
  <2> QED BY <2>2, <2>3
<1>7. NoneLeftOut'
  <2> SUFFICES ASSUME NEW o \in Posts, NEW q \in Pairs, Passed(o)',
                      q \subseteq rows[o], <<o, q>> \notin late
               PROVE  global'[o][q] > 0
    BY <1>0 DEF NoneLeftOut
  <2>1. o <= filler.last /\ global[o][q] \in Nat
    BY <1>0, <1>1 DEF Passed, Counts
  <2>2. CASE o \in filler.batch
    BY <1>2, <2>1, <2>2
  <2>3. CASE o \notin filler.batch
    <3>1. global[o][q] > 0
        BY <1>0, <2>1, <2>3 DEF IInv, NoneLeftOut, Passed
    <3> QED BY <1>2, <2>3, <3>1
  <2> QED BY <2>2, <2>3
<1> QED BY <1>4, <1>5, <1>6, <1>7 DEF IInv

LEMMA BatchFailsStep == ASSUME IInv, BatchFails PROVE IInv'
<1>1. /\ filler' = Filler("off", 0, {}, FALSE)
      /\ Rest' /\ UNCHANGED <<rows, global, watermark, lives, passes, late>>
    BY ThreadTypes DEF BatchFails, GivenUp, Rest
<1> QED BY <1>1, ThreadTypes, Elsewhere

LEMMA WipeAccountStep == ASSUME IInv, WipeAccount PROVE IInv'
<1>1. /\ filler' = Filler("rebuilding", 0, {}, FALSE)
      /\ Rest' /\ UNCHANGED <<rows, global, watermark, lives, passes, late>>
    BY ThreadTypes, NoCountsType DEF WipeAccount, Rest
<1> QED BY <1>1, ThreadTypes, Elsewhere

\* What a rebuild that goes through puts into the table.
LEMMA RebuildResult ==
    ASSUME IInv, RebuildAccount
    PROVE  \/ personal' = personal
           \/ /\ \A p \in Posts, q \in Pairs : p \in lib /\ q \subseteq rows[p] =>
                   personal[p][q] = 0
              /\ personal' = [p \in Posts |-> [q \in Pairs |->
                   IF p \in lib /\ q \subseteq rows[p] THEN personal[p][q] + 1
                   ELSE personal[p][q]]]
<1>1. CASE \E p \in Posts, q \in Pairs : Refused(p, q)
    BY <1>1 DEF RebuildAccount
<1>2. CASE ~\E p \in Posts, q \in Pairs : Refused(p, q)
  <2>1. ASSUME NEW p \in Posts, NEW q \in Pairs, p \in lib, q \subseteq rows[p]
        PROVE  personal[p][q] = 0
    <3>1. ~(personal[p][q] > 0)
        BY <1>2, <2>1 DEF Refused
    <3>2. personal[p][q] \in Nat
        BY DEF IInv, TypeOK, Counts
    <3> QED BY <3>1, <3>2
  <2> QED BY <1>2, <2>1 DEF RebuildAccount
<1> QED BY <1>1, <1>2

LEMMA RebuildAccountStep == ASSUME IInv, RebuildAccount PROVE IInv'
<1>1. personal' \in Counts
  <2>1. \A p \in Posts, q \in Pairs : personal[p][q] \in Nat
    BY DEF IInv, TypeOK, Counts
  <2> DEFINE new == [p \in Posts |-> [q \in Pairs |->
                       IF p \in lib /\ q \subseteq rows[p] THEN personal[p][q] + 1
                       ELSE personal[p][q]]]
  <2>2. new \in Counts
    BY <2>1 DEF Counts
  <2>3. personal' = personal \/ personal' = new
    BY RebuildResult
  <2> QED BY <2>2, <2>3, ThreadTypes
<1>2. /\ filler' = Filler("off", 0, {}, FALSE)
      /\ Rest' /\ UNCHANGED <<rows, global, watermark, lives, passes, late>>
    BY <1>1, ThreadTypes DEF RebuildAccount, Rest
<1> QED BY <1>2, ThreadTypes, Elsewhere

LEMMA RestartStep == ASSUME IInv, Restart PROVE IInv'
<1>1. /\ filler' = Filler("boot", 0, {}, FALSE)
      /\ Rest' /\ UNCHANGED <<rows, global, watermark, lives, passes, late>>
    BY ThreadTypes DEF Restart, Rest
<1> QED BY <1>1, ThreadTypes, Elsewhere

-----------------------------------------------------------------------------
(* Every step *)

LEMMA NextKeepsIInv == IInv /\ [Next]_vars => IInv'
<1> SUFFICES ASSUME IInv, [Next]_vars PROVE IInv'
    OBVIOUS
<1>1. CASE \E p \in Posts, tags \in TagLists :
             SaveFavourite(p, tags) \/ SaveCatalog(p, tags) \/ Hydrate(p, tags)
    BY <1>1, SaveStep
<1>2. CASE \E p \in Posts : Prune(p)
    BY <1>2, PruneStep
<1>3. CASE DropLibrary \/ DropPairs
    BY <1>3, DropLibraryStep, DropPairsStep
<1>4. CASE Backfill
    BY <1>4, ProbeStep, ReadBatchStep, CountBatchStep, BatchFailsStep, WipeAccountStep,
       RebuildAccountStep DEF Backfill
<1>5. CASE Restart
    BY <1>5, RestartStep
<1>6. CASE UNCHANGED vars
  <2>1. Rest'
    BY <1>6, ThreadTypes DEF vars, Rest
  <2> QED BY <1>6, <2>1, Aside DEF vars
<1> QED BY <1>1, <1>2, <1>3, <1>4, <1>5, <1>6 DEF Next

LEMMA Inductive == Spec => []IInv
<1> QED BY InitIInv, NextKeepsIInv, PTL DEF Spec

-----------------------------------------------------------------------------
(* Theorems *)

\* Tables, watermark and thread keep their types (db/tags.rs,
\* db/cooccurrence_backfill.rs, db/cooccurrence.rs).
THEOREM TypeCorrect == Spec => []TypeOK
<1>1. IInv => TypeOK
    BY DEF IInv
<1> QED BY <1>1, Inductive, PTL

\* Whatever is saved, deleted and restarted around it, the backfill counts a
\* post at most once, and saves at most once in each life of its tags
\* (set_global_cooc_watermark, had_tags).
THEOREM CountedAtMost == Spec => []OvercountIsBounded
<1>1. IInv => OvercountIsBounded
    BY DEF IInv
<1> QED BY <1>1, Inductive, PTL

\* Behind the watermark nothing is left out but what came late
\* (global_cooc_watermark, backfill_global_tag_cooccurrence).
THEOREM NoneBehindTheWatermark == Spec => []NothingIsSkipped
<1>1. IInv => NothingIsSkipped
    BY DEF IInv, NoneLeftOut, Passed, NothingIsSkipped
<1> QED BY <1>1, Inductive, PTL

\* A rebuild that goes through counts every pair of the library exactly once
\* (set_account_tag_cooccurrence).
THEOREM RebuildIsExact == Spec => RebuildCountsOnce
<1> DEFINE Exact ==
        filler.at = "rebuilding" /\ filler'.at = "off" /\ personal' # personal =>
            \A p \in Posts, q \in Pairs :
                /\ p \in lib /\ q \subseteq rows[p] => personal'[p][q] = 1
                /\ personal'[p][q] > 1 => personal[p][q] > 1
<1>1. IInv /\ [Next]_vars => [Exact]_vars
  <2> SUFFICES ASSUME IInv, Next, filler.at = "rebuilding", filler'.at = "off",
                      personal' # personal
               PROVE  \A p \in Posts, q \in Pairs :
                        /\ p \in lib /\ q \subseteq rows[p] => personal'[p][q] = 1
                        /\ personal'[p][q] > 1 => personal[p][q] > 1
    BY DEF vars
  <2>1. RebuildAccount
    <3>1. filler' # filler
        OBVIOUS
    <3>2. ~Restart
        BY DEF Restart, Filler
    <3> QED BY <3>1, <3>2 DEF Next, SaveFavourite, SaveCatalog, Hydrate, Prune, DropLibrary,
                DropPairs, Backfill, Probe, ReadBatch, CountBatch, BatchFails, WipeAccount
  <2>2. \A p \in Posts, q \in Pairs :
          personal'[p][q] = IF p \in lib /\ q \subseteq rows[p] THEN personal[p][q] + 1
                            ELSE personal[p][q]
    BY <2>1, RebuildResult
  <2>3. \A p \in Posts, q \in Pairs : p \in lib /\ q \subseteq rows[p] => personal[p][q] = 0
    BY <2>1, RebuildResult
  <2> QED BY <2>2, <2>3
<1> QED BY <1>1, Inductive, PTL DEF Spec, RebuildCountsOnce
=============================================================================
