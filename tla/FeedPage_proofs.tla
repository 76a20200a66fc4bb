---------------------------- MODULE FeedPage_proofs ----------------------------
(***************************************************************************)
(* What a page of the feed promises, for every number of posts and every   *)
(* setting: its order (HeadQuotas) and its scroll (FeedSession).           *)
(*                                                                         *)
(* The order.  FloorsAreMet and CeilingHolds are kept by different means   *)
(* from pass to pass: a floor by what its own pass ends with, then by the  *)
(* other floor's Expendable, the ceiling's lower bound and KeepsAge; the   *)
(* ceiling in a finished band by the bands being apart.  The invariant says*)
(* from which pass on each floor stands, and that every band starts at a   *)
(* multiple of the window.  That the passes end rests on Work, a number    *)
(* that every swap lowers.                                                 *)
(*                                                                         *)
(* The scroll.  NoRepeatInScroll alone is not inductive.  What keeps it    *)
(* true is that the recorded set covers everything rendered, and that the  *)
(* exclusions the awaited request has read cover it too: only that request *)
(* can add to what its tab has rendered.                                   *)
(***************************************************************************)
EXTENDS FeedSession, HeadQuotas, FiniteSetTheorems, WellFoundedInduction, TLAPS

(* THE ORDER OF THE PAGE *)

LEMMA SmallestIsIn ==
    ASSUME NEW P, P \subseteq Nat, P # {}
    PROVE  Min(P) \in P /\ \A k \in P : Min(P) <= k
<1>1. IsWellFoundedOn(OpToRel(<, Nat), Nat)
    BY NatLessThanWellFounded
<1>2. PICK m \in P : \A k \in P : ~(<<k, m>> \in OpToRel(<, Nat))
    BY <1>1, WFMin
<1>3. \A k \in P : ~(k < m)
    BY <1>2 DEF OpToRel
<1>4. \A k \in P : m <= k
    BY <1>3
<1> QED BY <1>4 DEF Min

LEMMA LargestIsIn ==
    ASSUME NEW n \in Nat, NEW P, P \subseteq 1..n, P # {}
    PROVE  Max(P) \in P /\ \A k \in P : k <= Max(P)
<1> DEFINE Gaps == {n - k : k \in P}
<1>1. Gaps \subseteq Nat /\ Gaps # {}
  <2>1. \A k \in P : n - k \in Nat
    OBVIOUS
  <2>2. PICK k \in P : TRUE
    OBVIOUS
  <2>3. n - k \in Gaps
    OBVIOUS
  <2> QED BY <2>1, <2>3
<1>2. Min(Gaps) \in Gaps /\ \A g \in Gaps : Min(Gaps) <= g
  <2> HIDE DEF Gaps
  <2> QED BY <1>1, SmallestIsIn
<1>3. PICK m \in P : Min(Gaps) = n - m
    BY <1>2
<1>4. ASSUME NEW k \in P PROVE k <= m
  <2>1. n - k \in Gaps
    OBVIOUS
  <2>2. n - m <= n - k
    BY <1>2, <1>3, <2>1
  <2>3. k \in 1..n /\ m \in 1..n
    OBVIOUS
  <2> HIDE DEF Gaps
  <2> QED BY <2>2, <2>3
<1>5. \A k \in P : m >= k
  <2>1. \A k \in P : k \in Nat /\ m \in Nat
    OBVIOUS
  <2> HIDE DEF Gaps
  <2> QED BY <1>4, <2>1
<1>6. \A k \in P : Max(P) >= k /\ Max(P) \in P
  <2> HIDE DEF Gaps
  <2> QED BY <1>5 DEF Max
<1> QED BY <1>6

-----------------------------------------------------------------------------
(* Counting *)

LEMMA MoveOne ==
    ASSUME NEW P, NEW Q, IsFiniteSet(P), IsFiniteSet(Q), NEW i, P \ {i} = Q \ {i}
    PROVE  Cardinality(Q) =
             Cardinality(P) - (IF i \in P THEN 1 ELSE 0) + (IF i \in Q THEN 1 ELSE 0)
<1>1. Cardinality(P) \in Nat /\ Cardinality(Q) \in Nat
    BY FS_CardinalityType
<1>2. Cardinality(P \ {i}) = IF i \in P THEN Cardinality(P) - 1 ELSE Cardinality(P)
    BY FS_RemoveElement
<1>3. Cardinality(Q \ {i}) = IF i \in Q THEN Cardinality(Q) - 1 ELSE Cardinality(Q)
    BY FS_RemoveElement
<1> DEFINE p == Cardinality(P)
           q == Cardinality(Q)
<1>4. IF i \in P THEN (IF i \in Q THEN p - 1 = q - 1 ELSE p - 1 = q)
                 ELSE (IF i \in Q THEN p = q - 1 ELSE p = q)
    BY <1>2, <1>3
<1>5. p \in Nat /\ q \in Nat
    BY <1>1
<1> HIDE DEF p, q
<1>6. q = p - (IF i \in P THEN 1 ELSE 0) + (IF i \in Q THEN 1 ELSE 0)
    BY <1>4, <1>5
<1> QED BY <1>6 DEF p, q

LEMMA MoveTwo ==
    ASSUME NEW P, NEW Q, IsFiniteSet(P), IsFiniteSet(Q), NEW i, NEW j, i # j,
           P \ {i, j} = Q \ {i, j}, i \in P <=> j \in Q, j \in P <=> i \in Q
    PROVE  Cardinality(Q) = Cardinality(P)
<1> DEFINE M == (P \ {i}) \cup (Q \cap {i})
<1>1. IsFiniteSet(M)
  <2>1. IsFiniteSet(P \ {i}) /\ IsFiniteSet(Q \cap {i})
    BY FS_RemoveElement, FS_Intersection
  <2> QED BY <2>1, FS_Union
<1>2. P \ {i} = M \ {i} /\ M \ {j} = Q \ {j}
    OBVIOUS
<1>3. (i \in M <=> i \in Q) /\ (j \in M <=> j \in P)
    OBVIOUS
<1> HIDE DEF M
<1>4. Cardinality(M) =
        Cardinality(P) - (IF i \in P THEN 1 ELSE 0) + (IF i \in M THEN 1 ELSE 0)
    BY <1>1, <1>2, MoveOne
<1>5. Cardinality(Q) =
        Cardinality(M) - (IF j \in M THEN 1 ELSE 0) + (IF j \in Q THEN 1 ELSE 0)
    BY <1>1, <1>2, MoveOne
<1>6. Cardinality(P) \in Nat /\ Cardinality(Q) \in Nat /\ Cardinality(M) \in Nat
    BY <1>1, FS_CardinalityType
<1> QED BY <1>3, <1>4, <1>5, <1>6

LEMMA Multiples ==
    ASSUME NEW w \in Nat, NEW n \in Nat, NEW m \in Nat, n < m
    PROVE  n * w + w <= m * w
OBVIOUS

LEMMA BandsOK ==
    /\ Bands \subseteq Nat /\ 0 \in Bands
    /\ \A b \in Bands : b + Window <= Size
    /\ \A b, c \in Bands : b < c => b + Window <= c
    /\ \A b \in Bands : b + 2 * Window <= Size => b + Window \in Bands
<1>0. Size \in Nat /\ Window \in Nat \ {0} /\ Window <= Size
    BY QuotaConstantsOK
<1>1. Bands \subseteq Nat /\ \A b \in Bands : b + Window <= Size
    BY <1>0 DEF Bands
<1>2. 0 \in Bands
    BY <1>0 DEF Bands
<1>3. ASSUME NEW b \in Bands, NEW c \in Bands, b < c PROVE b + Window <= c
  <2>1. PICK n \in 0..Size : b = n * Window
    BY DEF Bands
  <2>2. PICK m \in 0..Size : c = m * Window
    BY DEF Bands
  <2>3. n < m
    <3>1. CASE m < n
      <4>1. c + Window <= b
        BY <1>0, <2>1, <2>2, <3>1, Multiples
      <4> QED BY <1>0, <1>1, <1>3, <4>1
    <3>2. n # m
      BY <1>1, <1>3, <2>1, <2>2
    <3> QED BY <1>0, <3>1, <3>2
  <2> QED BY <1>0, <2>1, <2>2, <2>3, Multiples
<1>4. ASSUME NEW b \in Bands, b + 2 * Window <= Size PROVE b + Window \in Bands
  <2>1. PICK n \in 0..Size : b = n * Window
    BY DEF Bands
  <2>2. b + Window = (n + 1) * Window
    BY <1>0, <2>1
  <2>3. n + 1 <= (n + 1) * Window
    BY <1>0
  <2>4. b + Window \in 0..(Size - Window) /\ b + Window <= Size
    BY <1>0, <1>1, <1>4
  <2>5. n + 1 \in 0..Size
    BY <1>0, <2>2, <2>3, <2>4
  <2> QED BY <2>2, <2>4, <2>5 DEF Bands
<1> QED BY <1>1, <1>2, <1>3, <1>4

-----------------------------------------------------------------------------
(* One swap *)

Typed == QuotaTypeOK /\ band \in Bands

LEMMA Sizes ==
    /\ Size \in Nat \ {0} /\ Window \in Nat \ {0} /\ Window <= Size
    /\ Top \in Nat /\ Top <= Size
BY QuotaConstantsOK DEF Top, Smaller

LEMMA PlacesOK == \A k \in Kinds : DOMAIN k.artists \subseteq Nat
<1> SUFFICES ASSUME NEW k \in Kinds PROVE DOMAIN k.artists \subseteq Nat
    OBVIOUS
<1>1. DOMAIN k.artists = 1..Len(k.artists) /\ Len(k.artists) \in Nat
    BY QuotaConstantsOK
<1> QED BY <1>1

\* What the settings ask for is a number, and the floor is below the ceiling.
LEMMA TargetsOK ==
    ASSUME Typed
    PROVE  /\ {targets.fresh, targets.old, targets.cap} \subseteq Nat
           /\ \A age : Quota(age) \in Nat /\ Quota(age) <= Window
           /\ Quota("fresh") <= targets.fresh /\ Quota("old") <= targets.old
           /\ OldCap \in Nat /\ Quota("old") <= OldCap /\ OldCap <= Window
<1>1. targets \in Settings
    BY DEF Typed, QuotaTypeOK
<1>2. targets.fresh \in Nat /\ targets.old \in Nat /\ targets.cap \in Nat
    BY <1>1, QuotaConstantsOK
<1> QED BY <1>2, Sizes DEF Quota, OldCap, Smaller

LEMMA SwapMoves ==
    ASSUME Typed, NEW i \in Ranks, NEW j \in Ranks, i # j, Swap(i, j)
    PROVE  /\ At(i)' = At(j) /\ At(j)' = At(i)
           /\ \A k \in Ranks \ {i, j} : At(k)' = At(k)
BY DEF Typed, QuotaTypeOK, Swap, Swapped, At, Ranks

LEMMA SwapTyped ==
    ASSUME Typed, NEW i \in Ranks, NEW j \in Ranks, Swap(i, j)
    PROVE  Typed'
<1>1. list' \in [Ranks -> Ranks]
    BY DEF Typed, QuotaTypeOK, Swap, Swapped
<1>2. {list'[k] : k \in Ranks} = Ranks
  <2>1. ASSUME NEW r \in Ranks PROVE \E k \in Ranks : list'[k] = r
    <3>1. PICK k \in Ranks : list[k] = r
      BY DEF Typed, QuotaTypeOK
    <3>2. CASE k = i
      BY <3>1, <3>2 DEF Typed, QuotaTypeOK, Swap, Swapped
    <3>3. CASE k = j
      BY <3>1, <3>3 DEF Typed, QuotaTypeOK, Swap, Swapped
    <3>4. CASE k # i /\ k # j
      BY <3>1, <3>4 DEF Typed, QuotaTypeOK, Swap, Swapped
    <3> QED BY <3>2, <3>3, <3>4
  <2> QED BY <1>1, <2>1
<1> QED BY <1>1, <1>2 DEF Typed, QuotaTypeOK, Swap, Ranks, Bands

Members(from, to, age) == {i \in from..to : At(i).age = age}

LEMMA CountOK ==
    ASSUME NEW from \in Nat, NEW to \in Nat, NEW age
    PROVE  /\ IsFiniteSet(Members(from, to, age))
           /\ IsFiniteSet(Members(from, to, age)')
           /\ Count(from, to, age) = Cardinality(Members(from, to, age))
           /\ Count(from, to, age) \in Nat
           /\ Count(from, to, age)' \in Nat
<1>1. IsFiniteSet(from..to)
    BY FS_Interval
<1>2. Members(from, to, age) \in SUBSET (from..to) /\ Members(from, to, age)' \in SUBSET (from..to)
    BY DEF Members
<1>3. IsFiniteSet(Members(from, to, age)) /\ IsFiniteSet(Members(from, to, age)')
    BY <1>1, <1>2, FS_Subset
<1>4. Cardinality(Members(from, to, age)) \in Nat /\ Cardinality(Members(from, to, age)') \in Nat
    BY <1>3, FS_CardinalityType
<1> QED BY <1>3, <1>4 DEF Count, Members

\* A range both posts are in, or neither, counts what it did.
LEMMA SwapWithin ==
    ASSUME Typed, NEW i \in Ranks, NEW j \in Ranks, i # j, Swap(i, j),
           NEW from \in Nat, NEW to \in Nat, from..to \subseteq Ranks, NEW age,
           i \in from..to <=> j \in from..to
    PROVE  Count(from, to, age)' = Count(from, to, age)
<1> DEFINE P == Members(from, to, age)
           Q == Members(from, to, age)'
<1>1. P \ {i, j} = Q \ {i, j}
    BY SwapMoves DEF Members
<1>2. (i \in P <=> j \in Q) /\ (j \in P <=> i \in Q)
    BY SwapMoves DEF Members
<1>3. IsFiniteSet(P) /\ IsFiniteSet(Q)
    BY CountOK
<1>4. Cardinality(Q) = Cardinality(P)
  <2> HIDE DEF P, Q
  <2> QED BY <1>1, <1>2, <1>3, MoveTwo
<1> QED BY <1>4 DEF Count, Members

\* A range that one of them leaves and the other enters.
LEMMA SwapAcross ==
    ASSUME Typed, NEW i \in Ranks, NEW j \in Ranks, i # j, Swap(i, j),
           NEW from \in Nat, NEW to \in Nat, from..to \subseteq Ranks, NEW age,
           i \in from..to, j \notin from..to
    PROVE  Count(from, to, age)' =
             Count(from, to, age) - (IF At(i).age = age THEN 1 ELSE 0)
                                  + (IF At(j).age = age THEN 1 ELSE 0)
<1> DEFINE P == Members(from, to, age)
           Q == Members(from, to, age)'
<1>1. P \ {i} = Q \ {i}
    BY SwapMoves DEF Members
<1>2. (i \in P <=> At(i).age = age) /\ (i \in Q <=> At(j).age = age)
    BY SwapMoves DEF Members
<1>3. IsFiniteSet(P) /\ IsFiniteSet(Q)
    BY CountOK
<1>4. Cardinality(Q) = Cardinality(P) - (IF i \in P THEN 1 ELSE 0) + (IF i \in Q THEN 1 ELSE 0)
  <2> HIDE DEF P, Q
  <2> QED BY <1>1, <1>3, MoveOne
<1>5. Count(from, to, age)' = Cardinality(Q) /\ Count(from, to, age) = Cardinality(P)
    BY DEF Count, Members
<1> HIDE DEF P, Q
<1> QED BY <1>2, <1>4, <1>5

-----------------------------------------------------------------------------
(* What each pass does *)

LEMMA DiversifyMoves ==
    ASSUME NEW next, Diversify(next)
    PROVE  \/ /\ Turn(next)
              /\ \/ Cardinality(KeysOf(1..Top)) >= MinDistinct
                 \/ Promotable = {} \/ Redundant = {}
           \/ \E i \in 1..Top, j \in Ranks \ 1..Top :
                 i \in Redundant /\ j \in Promotable /\ Swap(i, j)
<1>1. CASE \/ Cardinality(KeysOf(1..Top)) >= MinDistinct
           \/ Promotable = {} \/ Redundant = {}
    BY <1>1 DEF Diversify
<1>2. CASE Promotable # {} /\ Redundant # {} /\ Swap(Max(Redundant), Min(Promotable))
  <2>1. Redundant \subseteq 1..Top /\ Promotable \subseteq Ranks \ 1..Top /\ Ranks \subseteq Nat
    BY DEF Redundant, Promotable, Ranks
  <2>2. Max(Redundant) \in Redundant
    BY <1>2, <2>1, Sizes, LargestIsIn
  <2>3. Min(Promotable) \in Promotable
    BY <1>2, <2>1, SmallestIsIn
  <2> QED BY <1>2, <2>1, <2>2, <2>3
<1> QED BY <1>1, <1>2 DEF Diversify

LEMMA FloorMoves ==
    ASSUME NEW age, NEW next, Floor(age, next)
    PROVE  \/ /\ Turn(next)
              /\ \/ InHead(age) >= Quota(age)
                 \/ \A i \in 1..Window : ~Expendable(age, i)
                 \/ \A i \in Ranks \ 1..Window : At(i).age # age
           \/ \E i \in 1..Window, j \in Ranks \ 1..Window :
                 Expendable(age, i) /\ At(j).age = age /\ Swap(i, j)
<1> DEFINE victims == {i \in 1..Window : Expendable(age, i)}
           sources == {i \in Ranks \ 1..Window : At(i).age = age}
<1>1. \/ Turn(next) /\ (InHead(age) >= Quota(age) \/ victims = {} \/ sources = {})
      \/ victims # {} /\ sources # {} /\ Swap(Max(victims), Min(sources))
    BY DEF Floor
<1>2. CASE victims # {} /\ sources # {} /\ Swap(Max(victims), Min(sources))
  <2>1. victims \subseteq 1..Window /\ sources \subseteq Nat
    BY DEF Ranks
  <2>2. Max(victims) \in victims /\ Min(sources) \in sources
    <3> HIDE DEF victims, sources
    <3> QED BY <1>2, <2>1, Sizes, LargestIsIn, SmallestIsIn
  <2> QED BY <1>2, <2>2
<1> QED BY <1>1, <1>2

LEMMA BandOfRanks ==
    ASSUME Typed
    PROVE  /\ band \in Nat /\ band + Window <= Size
           /\ Band(band) \subseteq 1..(band + Window)
           /\ Band(band) \subseteq Ranks /\ Below(band) \subseteq Ranks \ Band(band)
BY Sizes, BandsOK DEF Typed, Band, Below, Ranks

LEMMA CeilingMoves ==
    ASSUME Typed, OldCeiling
    PROVE  \/ targets.cap = 0 /\ Turn("spread")
           \/ WithinCeiling(band) /\ NextBand("spread")
           \/ /\ OverCap(band, OldCap)
              /\ \E i \in Band(band), j \in Below(band) :
                   At(i).age = "old" /\ At(j).age # "old" /\ Swap(i, j)
<1> DEFINE old == {i \in Band(band) : At(i).age = "old"}
           younger == {i \in Below(band) : At(i).age # "old"}
<1>1. CASE targets.cap = 0
    BY <1>1 DEF OldCeiling
<1>2. CASE OverCap(band, OldCap) /\ younger # {} /\ Swap(Max(old), Min(younger))
  <2>1. old # {}
    <3>1. OldCap \in Nat
      BY TargetsOK
    <3>2. Count(band + 1, band + Window, "old") # 0
      BY <1>2, <3>1 DEF OverCap
    <3> QED BY <3>2, FS_EmptySet DEF Count, Band
  <2>2. old \subseteq 1..(band + Window) /\ band + Window \in Nat /\ younger \subseteq Nat
    BY BandOfRanks, Sizes DEF Ranks
  <2>3. Max(old) \in old /\ Min(younger) \in younger
    <3> HIDE DEF old, younger
    <3> QED BY <1>2, <2>1, <2>2, LargestIsIn, SmallestIsIn
  <2> QED BY <1>2, <2>3
<1>3. CASE NextBand("spread") /\ ~(OverCap(band, OldCap) /\ younger # {})
  <2>1. CASE ~OverCap(band, OldCap)
    <3>1. OldCap \in Nat /\ Count(band + 1, band + Window, "old") \in Nat
      BY TargetsOK, BandOfRanks, CountOK, Sizes
    <3> QED BY <1>3, <2>1, <3>1 DEF OverCap, WithinCeiling
  <2> QED BY <1>3, <2>1 DEF WithinCeiling
<1> QED BY <1>1, <1>2, <1>3 DEF OldCeiling

LEMMA OverIsThere ==
    ASSUME Typed, Over # None
    PROVE  Credits(Over) > ArtistCap /\ \E i \in Band(band) : Over \in Artists(i)
<1> DEFINE crowded == {i \in Band(band) : \E a \in Artists(i) : Credits(a) > ArtistCap}
           first == Min(crowded)
           names == At(first).artists
           places == {k \in DOMAIN names : Credits(names[k]) > ArtistCap}
<1>1. crowded # {} /\ Over = names[Min(places)]
    BY DEF Over
<1>2. crowded \subseteq Nat
    BY BandOfRanks DEF Ranks
<1>3. first \in crowded
  <2> HIDE DEF crowded
  <2> QED BY <1>1, <1>2, SmallestIsIn
<1>4. first \in Ranks /\ At(first) \in Kinds
    BY <1>3, BandOfRanks DEF Typed, QuotaTypeOK, At
<1>5. DOMAIN names \subseteq Nat
    BY <1>4, PlacesOK
<1>6. places # {}
    BY <1>3 DEF Artists
<1>7. Min(places) \in places
  <2>1. places \subseteq Nat
    BY <1>5
  <2> HIDE DEF places
  <2> QED BY <1>6, <2>1, SmallestIsIn
<1>8. Over \in Artists(first) /\ Credits(Over) > ArtistCap
    BY <1>1, <1>7 DEF Artists
<1> QED BY <1>3, <1>8

\* Post j may take the place of i, which credits the artist over the cap.
Relieves(i, j) ==
    /\ Over \in Artists(i) /\ Credits(Over) > ArtistCap
    /\ j \in Replacements(Over, i)

LEMMA SpreadMoves ==
    ASSUME Typed, Spread
    PROVE  \/ Turn("done")
           \/ NextBand("done")
           \/ \E i \in Band(band), j \in Below(band) : Relieves(i, j) /\ Swap(i, j)
<1> DEFINE credited == {i \in Band(band) : Over \in Artists(i)}
           victim == Max(credited)
           candidates == Replacements(Over, victim)
<1>1. \/ Turn("done") \/ NextBand("done")
      \/ Over # None /\ candidates # {} /\ Swap(victim, Min(candidates))
    BY DEF Spread
<1>2. CASE Over # None /\ candidates # {} /\ Swap(victim, Min(candidates))
  <2>1. credited # {} /\ credited \subseteq 1..(band + Window) /\ band + Window \in Nat
    BY <1>2, OverIsThere, BandOfRanks, Sizes
  <2>2. victim \in credited
    <3> HIDE DEF credited
    <3> QED BY <2>1, LargestIsIn
  <2>3. candidates \subseteq Nat
    BY BandOfRanks DEF Replacements, Ranks
  <2>4. Min(candidates) \in candidates
    <3> HIDE DEF candidates
    <3> QED BY <1>2, <2>3, SmallestIsIn
  <2>5. Min(candidates) \in Below(band) /\ Relieves(victim, Min(candidates))
    <3> DEFINE m == Min(candidates)
    <3>1. m \in candidates
      BY <2>4
    <3>2. Over \in Artists(victim) /\ Credits(Over) > ArtistCap
      BY <1>2, <2>2, OverIsThere
    <3> HIDE DEF m, victim
    <3>3. m \in Below(band) /\ Relieves(victim, m)
      BY <3>1, <3>2 DEF Replacements, Relieves
    <3> QED BY <3>3 DEF m
  <2> QED BY <1>2, <2>2, <2>5
<1> QED BY <1>1, <1>2

-----------------------------------------------------------------------------
(* The invariant *)

Reached(age) == InHead(age) >= Smaller(Quota(age), Count(1, Size, age))

\* The floors met so far, when both fit into the head.
FloorsHeld ==
    targets.fresh + targets.old <= Window =>
        /\ pass \in {"old", "ceiling", "spread", "done"} => Reached("fresh")
        /\ pass \in {"ceiling", "spread", "done"} => Reached("old")

QuotaIInv == Typed /\ FloorsHeld /\ CeilingHolds

LEMMA TurnTyped ==
    ASSUME Typed, NEW next \in Passes, Turn(next) \/ NextBand(next)
    PROVE  Typed' /\ UNCHANGED <<post, targets, list>>
<1>1. CASE Turn(next)
    BY <1>1, Sizes, BandsOK DEF Typed, QuotaTypeOK, Turn, Bands
<1>2. CASE NextBand(next) /\ ~Turn(next)
  <2>1. band \in Bands /\ band + 2 * Window <= Size /\ band' = band + Window
        /\ UNCHANGED <<post, targets, list, pass>>
    BY <1>2 DEF NextBand, Typed
  <2>2. band' \in Bands /\ band' \in 0..Size
    BY <2>1, Sizes, BandsOK
  <2>3. Bands' = Bands
    BY DEF Bands
  <2> QED BY <2>1, <2>2, <2>3 DEF Typed, QuotaTypeOK
<1> QED BY <1>1, <1>2

LEMMA Unmoved ==
    ASSUME UNCHANGED <<post, targets, list>>
    PROVE  /\ \A age : Reached(age)' <=> Reached(age)
           /\ \A b : WithinCeiling(b)' <=> WithinCeiling(b)
<1>1. \A from, to, age : Count(from, to, age)' = Count(from, to, age)
    BY DEF Count, At
<1>2. \A i : At(i)' = At(i)
    BY DEF At
<1>3. \A age : Reached(age)' <=> Reached(age)
    BY <1>1 DEF Reached, InHead, Quota, Smaller
<1>4. \A b : WithinCeiling(b)' <=> WithinCeiling(b)
    BY <1>1, <1>2 DEF WithinCeiling, OldCap, Smaller, Below
<1> QED BY <1>3, <1>4

-----------------------------------------------------------------------------
(* The head *)

\* A swap that brings a post up into the head.
LEMMA HeadSwap ==
    ASSUME Typed, NEW i \in 1..Window, NEW j \in Ranks \ 1..Window, Swap(i, j), NEW age
    PROVE  /\ InHead(age)' = InHead(age) - (IF At(i).age = age THEN 1 ELSE 0)
                                         + (IF At(j).age = age THEN 1 ELSE 0)
           /\ Count(1, Size, age)' = Count(1, Size, age)
           /\ Quota(age)' = Quota(age)
           /\ InHead(age) \in Nat /\ Count(1, Size, age) \in Nat
<1>1. i \in Ranks /\ j \in Ranks /\ i # j /\ 1..Window \subseteq Ranks
    BY Sizes DEF Ranks
<1>2. InHead(age)' = InHead(age) - (IF At(i).age = age THEN 1 ELSE 0)
                                 + (IF At(j).age = age THEN 1 ELSE 0)
    BY <1>1, SwapAcross, Sizes DEF InHead
<1>3. Count(1, Size, age)' = Count(1, Size, age)
    BY <1>1, SwapWithin, Sizes DEF Ranks
<1>4. Quota(age)' = Quota(age)
    BY DEF Swap, Quota, Smaller
<1>5. InHead(age) \in Nat /\ Count(1, Size, age) \in Nat
    BY Sizes, CountOK DEF InHead
<1> QED BY <1>2, <1>3, <1>4, <1>5

\* A swap below it.
LEMMA LowerSwap ==
    ASSUME Typed, NEW i \in Ranks \ 1..Window, NEW j \in Ranks \ 1..Window, i # j, Swap(i, j)
    PROVE  /\ \A age : Reached(age)' <=> Reached(age)
           /\ WithinCeiling(0) => WithinCeiling(0)'
<1>1. 1..Window \subseteq Ranks
    BY Sizes DEF Ranks
<1>2. \A age : InHead(age)' = InHead(age)
    BY <1>1, SwapWithin, Sizes DEF InHead
<1>3. \A age : Count(1, Size, age)' = Count(1, Size, age)
    BY SwapWithin, Sizes DEF Ranks
<1>4. \A age : Quota(age)' = Quota(age)
    BY DEF Swap, Quota, Smaller
<1>5. \A age : Reached(age)' <=> Reached(age)
    BY <1>2, <1>3, <1>4 DEF Reached, Smaller
<1>6. OldCap' = OldCap
    BY DEF Swap, OldCap, Smaller
<1>7. Below(0) = Ranks \ 1..Window /\ Below(0)' = Below(0)
    BY Sizes DEF Below
<1>8. (\A k \in Below(0) : At(k).age = "old") => \A k \in Below(0) : At(k).age' = "old"
    BY <1>7, SwapMoves
<1>9. WithinCeiling(0) => WithinCeiling(0)'
    BY <1>2, <1>6, <1>7, <1>8, Sizes DEF WithinCeiling, InHead
<1> QED BY <1>5, <1>9

\* A floor's pass ends with the floor met, if both fit.
LEMMA FloorReached ==
    ASSUME Typed, targets.fresh + targets.old <= Window, NEW age \in {"fresh", "old"},
           \/ InHead(age) >= Quota(age)
           \/ \A i \in 1..Window : ~Expendable(age, i)
           \/ \A i \in Ranks \ 1..Window : At(i).age # age
    PROVE  Reached(age)
<1> DEFINE n == InHead(age)
           m == InHead(Other(age))
           total == Count(1, Size, age)
<1>0. n \in Nat /\ m \in Nat /\ total \in Nat /\ Quota(age) \in Nat /\ Window \in Nat
    BY Sizes, CountOK, TargetsOK DEF InHead
<1>1. CASE n >= Quota(age)
    BY <1>0, <1>1 DEF Reached, Smaller
<1>2. CASE \A i \in Ranks \ 1..Window : At(i).age # age
  <2>1. {i \in 1..Window : At(i).age = age} = {i \in 1..Size : At(i).age = age}
    BY <1>2, Sizes DEF Ranks
  <2>2. n = total
    BY <2>1 DEF InHead, Count
  <2> QED BY <1>0, <2>2 DEF Reached, Smaller
<1>3. CASE \A i \in 1..Window : ~Expendable(age, i)
  <2> DEFINE P == Members(1, Window, age)
             Q == Members(1, Window, Other(age))
  <2>1. \A i \in 1..Window : At(i).age = age \/ At(i).age = Other(age)
    BY <1>3 DEF Expendable
  <2>2. P \cup Q = 1..Window /\ P \cap Q = {}
    BY <2>1 DEF Members, Other
  <2>3. IsFiniteSet(P) /\ IsFiniteSet(Q) /\ n = Cardinality(P) /\ m = Cardinality(Q)
    BY Sizes, CountOK DEF InHead
  <2>4. Cardinality(P \cup Q) = Window
    <3>1. Cardinality(1..Window) = Window
      BY FS_Interval, Sizes
    <3> HIDE DEF P, Q
    <3> QED BY <2>2, <3>1
  <2>5. Cardinality(P \cup Q) = Cardinality(P) + Cardinality(Q) - Cardinality({})
    <3> HIDE DEF P, Q
    <3> QED BY <2>2, <2>3, FS_Union
  <2>6. n + m = Window
    <3>1. Cardinality({}) = 0
      BY FS_EmptySet
    <3> HIDE DEF P, Q, n, m
    <3> QED BY <1>0, <2>3, <2>4, <2>5, <3>1
  <2>7. m <= Quota(Other(age))
    <3>1. CASE Q = {}
      <4>1. m = 0
        BY <2>3, <3>1, FS_EmptySet
      <4> QED BY <4>1, TargetsOK
    <3>2. CASE Q # {}
      <4>1. PICK i \in 1..Window : At(i).age = Other(age)
        BY <3>2 DEF Members
      <4>2. Other(age) # age
        BY DEF Other
      <4>3. ~(m - 1 >= Smaller(Quota(Other(age)), m))
        BY <1>3, <4>1, <4>2 DEF Expendable
      <4> HIDE DEF m
      <4> QED BY <1>0, <4>3, TargetsOK DEF Smaller
    <3> QED BY <3>1, <3>2
  <2>8. Quota(age) + Quota(Other(age)) <= Window
    <3>1. Quota("fresh") + Quota("old") <= Window
      BY TargetsOK, Sizes
    <3>2. Quota("fresh") \in Nat /\ Quota("old") \in Nat
      BY TargetsOK
    <3> QED BY <3>1, <3>2 DEF Other
  <2>9. n >= Quota(age)
    <3>1. Quota(Other(age)) \in Nat
      BY TargetsOK
    <3> HIDE DEF n, m
    <3> QED BY <1>0, <2>6, <2>7, <2>8, <3>1
  <2> QED BY <1>1, <2>9
<1> QED BY <1>1, <1>2, <1>3

-----------------------------------------------------------------------------
(* Every step keeps it *)

LEMMA QuotaInitIInv == QuotaInit => QuotaIInv
<1> SUFFICES ASSUME QuotaInit PROVE QuotaIInv
    OBVIOUS
<1>1. {list[i] : i \in Ranks} = Ranks
    BY DEF QuotaInit
<1>2. Typed
    BY <1>1, Sizes, BandsOK DEF QuotaInit, Typed, QuotaTypeOK, Passes
<1>3. pass \notin {"old", "ceiling", "spread", "done"}
    BY DEF QuotaInit
<1> QED BY <1>2, <1>3 DEF QuotaIInv, FloorsHeld, CeilingHolds

LEMMA DiversifyStep ==
    ASSUME QuotaIInv, DiversifyArtists \/ DiversifyCharacters
    PROVE  QuotaIInv'
<1>0. pass \in {"artists", "characters"} /\ Typed
    BY DEF DiversifyArtists, DiversifyCharacters, QuotaIInv
<1>1. PICK next \in {"characters", "fresh"} : Diversify(next)
    BY DEF DiversifyArtists, DiversifyCharacters
<1>2. CASE Turn(next)
  <2>1. Typed' /\ pass' = next
    BY <1>0, <1>2, TurnTyped DEF Passes, Turn
  <2> QED BY <2>1 DEF QuotaIInv, FloorsHeld, CeilingHolds
<1>3. CASE \E i \in 1..Top, j \in Ranks \ 1..Top :
             i \in Redundant /\ j \in Promotable /\ Swap(i, j)
  <2>1. PICK i \in 1..Top, j \in Ranks \ 1..Top : Swap(i, j)
    BY <1>3
  <2>2. Typed'
    BY <1>0, <2>1, SwapTyped, Sizes DEF Ranks
  <2>3. pass' = pass
    BY <2>1 DEF Swap
  <2> QED BY <1>0, <2>2, <2>3 DEF QuotaIInv, FloorsHeld, CeilingHolds
<1> QED BY <1>1, <1>2, <1>3, DiversifyMoves

LEMMA FreshStep ==
    ASSUME QuotaIInv, FreshFloor
    PROVE  QuotaIInv'
<1>0. pass = "fresh" /\ Typed /\ Floor("fresh", "old")
    BY DEF FreshFloor, QuotaIInv
<1>1. CASE /\ Turn("old")
           /\ \/ InHead("fresh") >= Quota("fresh")
              \/ \A i \in 1..Window : ~Expendable("fresh", i)
              \/ \A i \in Ranks \ 1..Window : At(i).age # "fresh"
  <2>1. Typed' /\ pass' = "old" /\ UNCHANGED <<post, targets, list>>
    BY <1>0, <1>1, TurnTyped DEF Passes, Turn
  <2>2. targets.fresh + targets.old <= Window => Reached("fresh")
    BY <1>0, <1>1, FloorReached
  <2>3. Reached("fresh")' <=> Reached("fresh")
    BY <2>1, Unmoved
  <2>4. FloorsHeld'
    BY <2>1, <2>2, <2>3 DEF FloorsHeld
  <2> QED BY <2>1, <2>4 DEF QuotaIInv, CeilingHolds
<1>2. CASE \E i \in 1..Window, j \in Ranks \ 1..Window :
             Expendable("fresh", i) /\ At(j).age = "fresh" /\ Swap(i, j)
  <2>1. PICK i \in 1..Window, j \in Ranks \ 1..Window : Swap(i, j)
    BY <1>2
  <2>2. Typed'
    BY <1>0, <2>1, SwapTyped, Sizes DEF Ranks
  <2>3. pass' = pass
    BY <2>1 DEF Swap
  <2> QED BY <1>0, <2>2, <2>3 DEF QuotaIInv, FloorsHeld, CeilingHolds
<1> QED BY <1>0, <1>1, <1>2, FloorMoves

LEMMA OldStep ==
    ASSUME QuotaIInv, OldFloor
    PROVE  QuotaIInv'
<1>0. pass = "old" /\ Typed /\ Floor("old", "ceiling")
    BY DEF OldFloor, QuotaIInv
<1>1. CASE /\ Turn("ceiling")
           /\ \/ InHead("old") >= Quota("old")
              \/ \A i \in 1..Window : ~Expendable("old", i)
              \/ \A i \in Ranks \ 1..Window : At(i).age # "old"
  <2>1. Typed' /\ pass' = "ceiling" /\ band' = 0 /\ UNCHANGED <<post, targets, list>>
    BY <1>0, <1>1, TurnTyped DEF Passes, Turn
  <2>2. targets.fresh + targets.old <= Window => Reached("old")
    BY <1>0, <1>1, FloorReached
  <2>3. (Reached("old")' <=> Reached("old")) /\ (Reached("fresh")' <=> Reached("fresh"))
    BY <2>1, Unmoved
  <2>4. FloorsHeld'
    BY <1>0, <2>1, <2>2, <2>3 DEF QuotaIInv, FloorsHeld
  <2>5. CeilingHolds'
    BY <2>1, BandsOK DEF CeilingHolds, Bands
  <2> QED BY <2>1, <2>4, <2>5 DEF QuotaIInv
<1>2. CASE \E i \in 1..Window, j \in Ranks \ 1..Window :
             Expendable("old", i) /\ At(j).age = "old" /\ Swap(i, j)
  <2>1. PICK i \in 1..Window, j \in Ranks \ 1..Window :
               Expendable("old", i) /\ At(j).age = "old" /\ Swap(i, j)
    BY <1>2
  <2>2. Typed'
    BY <1>0, <2>1, SwapTyped, Sizes DEF Ranks
  <2>3. pass' = pass /\ targets' = targets
    BY <2>1 DEF Swap
  <2>4. Reached("fresh") => Reached("fresh")'
    <3> DEFINE n == InHead("fresh")
               total == Count(1, Size, "fresh")
               q == Quota("fresh")
    <3>1. n \in Nat /\ total \in Nat /\ q \in Nat /\ total' = total /\ q' = q
      BY <1>0, <2>1, HeadSwap, TargetsOK
    <3>2. n' = n - (IF At(i).age = "fresh" THEN 1 ELSE 0)
      BY <1>0, <2>1, HeadSwap
    <3>3. At(i).age = "fresh" => n - 1 >= Smaller(q, n)
      BY <2>1 DEF Expendable, Other
    <3>4. n' = n \/ (n' = n - 1 /\ n - 1 >= Smaller(q, n))
      BY <3>1, <3>2, <3>3
    <3>6. Reached("fresh")' <=> n' >= Smaller(q', total')
      BY DEF Reached, Smaller
    <3> HIDE DEF n, total, q
    <3>5. n >= Smaller(q, total) => n' >= Smaller(q, total)
      BY <3>1, <3>4 DEF Smaller
    <3> QED BY <3>1, <3>5, <3>6 DEF Reached, n, total, q
  <2> QED BY <1>0, <2>2, <2>3, <2>4 DEF QuotaIInv, FloorsHeld, CeilingHolds
<1> QED BY <1>0, <1>1, <1>2, FloorMoves

\* Moving on keeps what holds of the list; the ceiling gains a band.
LEMMA NextBandStep ==
    ASSUME QuotaIInv, NEW next \in {"spread", "done"}, NextBand(next),
           pass = (IF next = "spread" THEN "ceiling" ELSE "spread"),
           next = "spread" /\ targets.cap > 0 => WithinCeiling(band)
    PROVE  QuotaIInv'
<1>0. Typed
    BY DEF QuotaIInv
<1>1. Typed' /\ UNCHANGED <<post, targets, list>>
    BY <1>0, TurnTyped DEF Passes
<1>2. \/ band' = band + Window /\ pass' = pass
      \/ band' = 0 /\ pass' = next
    BY DEF NextBand, Turn
<1>3. FloorsHeld'
    BY <1>1, <1>2, Unmoved DEF QuotaIInv, FloorsHeld
<1>4. ASSUME targets.cap > 0, next = "spread", NEW b \in Bands, b < band + Window
      PROVE  WithinCeiling(b)
  <2>1. b <= band
    BY <1>0, <1>4, BandsOK, Sizes DEF Typed
  <2>2. b < band \/ b = band
    BY <1>0, <2>1, BandsOK DEF Typed
  <2> QED BY <1>4, <2>2 DEF QuotaIInv, CeilingHolds
<1>5. CeilingHolds'
  <2> SUFFICES ASSUME targets.cap > 0
               PROVE  /\ pass' = "ceiling" => \A b \in Bands : b < band' => WithinCeiling(b)'
                      /\ pass' \in {"spread", "done"} => WithinCeiling(0)'
    BY <1>1 DEF CeilingHolds, Bands
  <2>1. CASE next = "spread"
    <3>1. \A b \in Bands : b < band + Window => WithinCeiling(b)'
      BY <1>1, <1>4, <2>1, Unmoved
    <3>2. 0 \in Bands /\ 0 < band + Window
      BY <1>0, BandsOK, Sizes DEF Typed
    <3>3. WithinCeiling(0)'
      BY <3>1, <3>2
    <3>4. CASE band' = band + Window /\ pass' = pass
      BY <2>1, <3>1, <3>4
    <3>5. CASE band' = 0 /\ pass' = next
      BY <2>1, <3>3, <3>5
    <3> QED BY <1>2, <3>4, <3>5
  <2>2. CASE next = "done"
    BY <1>1, <1>2, <2>2, Unmoved DEF QuotaIInv, CeilingHolds
  <2> QED BY <2>1, <2>2
<1> QED BY <1>1, <1>3, <1>5 DEF QuotaIInv

\* Both places of a swap of band 0 or below.
LEMMA SwapPlaces ==
    ASSUME Typed, NEW i \in Band(band), NEW j \in Below(band)
    PROVE  /\ i \in Ranks /\ j \in Ranks /\ i # j
           /\ band = 0 => i \in 1..Window /\ j \in Ranks \ 1..Window
           /\ band # 0 => i \in Ranks \ 1..Window /\ j \in Ranks \ 1..Window
<1>1. band = 0 \/ Window <= band
    BY BandsOK, Sizes DEF Typed
<1> QED BY <1>1, BandOfRanks, Sizes DEF Band, Below, Ranks

LEMMA CeilingStep ==
    ASSUME QuotaIInv, OldCeiling
    PROVE  QuotaIInv'
<1>0. pass = "ceiling" /\ Typed
    BY DEF OldCeiling, QuotaIInv
<1>1. CASE targets.cap = 0 /\ Turn("spread")
  <2>1. Typed' /\ pass' = "spread" /\ UNCHANGED <<post, targets, list>>
    BY <1>0, <1>1, TurnTyped DEF Passes, Turn
  <2>2. FloorsHeld'
    BY <1>0, <2>1, Unmoved DEF QuotaIInv, FloorsHeld
  <2>3. CeilingHolds'
    BY <1>1, <2>1 DEF CeilingHolds
  <2> QED BY <2>1, <2>2, <2>3 DEF QuotaIInv
<1>2. CASE WithinCeiling(band) /\ NextBand("spread")
    BY <1>0, <1>2, NextBandStep
<1>3. CASE /\ OverCap(band, OldCap)
           /\ \E i \in Band(band), j \in Below(band) :
                At(i).age = "old" /\ At(j).age # "old" /\ Swap(i, j)
  <2>1. PICK i \in Band(band), j \in Below(band) :
               At(i).age = "old" /\ At(j).age # "old" /\ Swap(i, j)
    BY <1>3
  <2>2. /\ i \in Ranks /\ j \in Ranks /\ i # j
        /\ band = 0 => i \in 1..Window /\ j \in Ranks \ 1..Window
        /\ band # 0 => i \in Ranks \ 1..Window /\ j \in Ranks \ 1..Window
    BY <1>0, SwapPlaces
  <2>3. Typed'
    BY <1>0, <2>1, <2>2, SwapTyped
  <2>4. pass' = pass /\ band' = band /\ targets' = targets
    BY <2>1 DEF Swap
  <2>5. ASSUME band = 0, NEW age \in {"fresh", "old"}, Reached(age) PROVE Reached(age)'
    <3> DEFINE n == InHead(age)
               total == Count(1, Size, age)
               q == Quota(age)
    <3>1. n \in Nat /\ total \in Nat /\ q \in Nat /\ total' = total /\ q' = q
      BY <1>0, <2>1, <2>2, <2>5, HeadSwap, TargetsOK
    <3>2. n' = n - (IF At(i).age = age THEN 1 ELSE 0) + (IF At(j).age = age THEN 1 ELSE 0)
      BY <1>0, <2>1, <2>2, <2>5, HeadSwap
    <3>3. n >= Smaller(q, total)
      BY <2>5 DEF Reached
    <3>4. Reached(age)' <=> n' >= Smaller(q', total')
      BY DEF Reached, Smaller
    <3>5. CASE age = "fresh"
      <4>1. n' = n \/ n' = n + 1
        BY <2>1, <3>1, <3>2, <3>5
      <4> HIDE DEF n, total, q
      <4> QED BY <3>1, <3>3, <3>4, <4>1 DEF Smaller
    <3>6. CASE age = "old"
      <4>1. n' = n - 1
        BY <2>1, <3>1, <3>2, <3>6
      <4>2. OldCap \in Nat /\ q <= OldCap
        BY <1>0, <3>6, TargetsOK
      <4>3. n > OldCap
        BY <1>3, <2>5, <3>6, Sizes DEF OverCap, InHead
      <4> HIDE DEF n, total, q
      <4> QED BY <3>1, <3>4, <4>1, <4>2, <4>3 DEF Smaller
    <3> QED BY <3>5, <3>6
  <2>6. \A age \in {"fresh", "old"} : Reached(age) => Reached(age)'
    BY <1>0, <2>1, <2>2, <2>5, LowerSwap
  <2>7. FloorsHeld'
    BY <1>0, <2>4, <2>6 DEF QuotaIInv, FloorsHeld
  <2>8. ASSUME NEW b \in Bands, b < band, WithinCeiling(b) PROVE WithinCeiling(b)'
    <3>1. b + Window <= band /\ b \in Nat /\ band + Window <= Size
      BY <1>0, <2>8, BandsOK DEF Typed
    <3>2. i \notin (b + 1)..(b + Window) /\ j \notin (b + 1)..(b + Window) /\ j \in Below(b)
          /\ (b + 1)..(b + Window) \subseteq Ranks
      BY <1>0, <3>1, Sizes, BandOfRanks DEF Band, Below, Ranks
    <3>3. Count(b + 1, b + Window, "old")' = Count(b + 1, b + Window, "old")
      BY <1>0, <2>1, <2>2, <3>1, <3>2, SwapWithin, Sizes
    <3>4. OldCap' = OldCap
      BY <2>4 DEF OldCap, Smaller
    <3>5. Count(b + 1, b + Window, "old") <= OldCap
      BY <2>1, <2>8, <3>2 DEF WithinCeiling
    <3> QED BY <3>3, <3>4, <3>5 DEF WithinCeiling
  <2>9. CeilingHolds'
    BY <1>0, <2>4, <2>8 DEF QuotaIInv, CeilingHolds, Bands
  <2> QED BY <2>3, <2>7, <2>9 DEF QuotaIInv
<1> QED BY <1>0, <1>1, <1>2, <1>3, CeilingMoves

LEMMA SpreadStep ==
    ASSUME QuotaIInv, Spread
    PROVE  QuotaIInv'
<1>0. pass = "spread" /\ Typed
    BY DEF Spread, QuotaIInv
<1>1. CASE Turn("done")
  <2>1. Typed' /\ pass' = "done" /\ UNCHANGED <<post, targets, list>>
    BY <1>0, <1>1, TurnTyped DEF Passes, Turn
  <2> QED BY <1>0, <2>1, Unmoved DEF QuotaIInv, FloorsHeld, CeilingHolds
<1>2. CASE NextBand("done")
    BY <1>0, <1>2, NextBandStep
<1>3. CASE \E i \in Band(band), j \in Below(band) : Relieves(i, j) /\ Swap(i, j)
  <2>1. PICK i \in Band(band), j \in Below(band) : KeepsAge(i, j) /\ Swap(i, j)
    BY <1>3 DEF Relieves, Replacements
  <2>2. /\ i \in Ranks /\ j \in Ranks /\ i # j
        /\ band = 0 => i \in 1..Window /\ j \in Ranks \ 1..Window
        /\ band # 0 => i \in Ranks \ 1..Window /\ j \in Ranks \ 1..Window
    BY <1>0, SwapPlaces
  <2>3. Typed'
    BY <1>0, <2>1, <2>2, SwapTyped
  <2>4. pass' = pass /\ band' = band /\ targets' = targets
    BY <2>1 DEF Swap
  <2>5. ASSUME band = 0, NEW age \in {"fresh", "old"}
        PROVE  /\ InHead(age)' >= Smaller(Quota(age), InHead(age))
               /\ age = "old" /\ targets.cap > 0 => InHead(age)' <= OldCap
    <3>1. InHead(age) = Count(band + 1, band + Window, age)
      BY <2>5, Sizes DEF InHead
    <3>2. InHead(age)' = InHead(age) - (IF At(i).age = age THEN 1 ELSE 0)
                                     + (IF At(j).age = age THEN 1 ELSE 0)
      BY <1>0, <2>1, <2>2, <2>5, HeadSwap
    <3> QED BY <2>1, <2>5, <3>1, <3>2 DEF KeepsAge
  <2>6. ASSUME NEW age \in {"fresh", "old"}, Reached(age) PROVE Reached(age)'
    <3>1. CASE band # 0
      BY <1>0, <2>1, <2>2, <2>6, <3>1, LowerSwap
    <3>2. CASE band = 0
      <4> DEFINE n == InHead(age)
                 total == Count(1, Size, age)
                 q == Quota(age)
      <4>1. n \in Nat /\ total \in Nat /\ q \in Nat /\ total' = total /\ q' = q
        BY <1>0, <2>1, <2>2, <3>2, HeadSwap, TargetsOK
      <4>2. n' >= Smaller(q, n) /\ n >= Smaller(q, total) /\ n' \in Nat
        BY <2>5, <2>6, <3>2, CountOK, Sizes DEF Reached, InHead
      <4>3. Reached(age)' <=> n' >= Smaller(q', total')
        BY DEF Reached, Smaller
      <4> HIDE DEF n, total, q
      <4> QED BY <4>1, <4>2, <4>3 DEF Smaller
    <3> QED BY <3>1, <3>2
  <2>7. FloorsHeld'
    BY <1>0, <2>4, <2>6 DEF QuotaIInv, FloorsHeld
  <2>8. ASSUME targets.cap > 0, WithinCeiling(0) PROVE WithinCeiling(0)'
    <3>1. CASE band # 0
      BY <1>0, <2>1, <2>2, <2>8, <3>1, LowerSwap
    <3>2. CASE band = 0
      <4>1. InHead("old")' <= OldCap
        BY <2>5, <2>8, <3>2
      <4>2. OldCap' = OldCap
        BY <2>4 DEF OldCap, Smaller
      <4> QED BY <4>1, <4>2, Sizes DEF WithinCeiling, InHead
    <3> QED BY <3>1, <3>2
  <2>9. CeilingHolds'
    BY <1>0, <2>4, <2>8 DEF QuotaIInv, CeilingHolds
  <2> QED BY <2>3, <2>7, <2>9 DEF QuotaIInv
<1> QED BY <1>0, <1>1, <1>2, <1>3, SpreadMoves

LEMMA QuotaIInvStep == QuotaIInv /\ [QuotaNext]_quotaVars => QuotaIInv'
<1> SUFFICES ASSUME QuotaIInv, [QuotaNext]_quotaVars PROVE QuotaIInv'
    OBVIOUS
<1>1. CASE UNCHANGED quotaVars
  <2>1. UNCHANGED <<post, targets, list, pass, band>>
    BY <1>1 DEF quotaVars
  <2>2. Typed'
    BY <2>1 DEF QuotaIInv, Typed, QuotaTypeOK, Bands
  <2>3. FloorsHeld' /\ CeilingHolds'
    BY <2>1, Unmoved DEF QuotaIInv, FloorsHeld, CeilingHolds, Bands
  <2> QED BY <2>2, <2>3 DEF QuotaIInv
<1> QED BY <1>1, DiversifyStep, FreshStep, OldStep, CeilingStep, SpreadStep DEF QuotaNext

\* The passes only ever reorder: the list stays a permutation of the ranking,
\* every swap is between two places of it (scored.swap in diversify.rs and
\* composition.rs).
THEOREM QuotaTypeCorrect == QuotaSpec => []QuotaTypeOK
<1>1. QuotaIInv => QuotaTypeOK
    BY DEF QuotaIInv, Typed
<1> QED BY QuotaInitIInv, QuotaIInvStep, <1>1, PTL DEF QuotaSpec

\* A floor met in its own pass stays met through every later one
\* (apply_composition_quota: "they are independent", "it never undercuts the
\* old floor").
THEOREM FloorsCorrect == QuotaSpec => []FloorsAreMet
<1>1. QuotaIInv => FloorsAreMet
  <2> SUFFICES ASSUME QuotaIInv, pass \in {"ceiling", "spread", "done"},
                      targets.fresh + targets.old <= Window
               PROVE  Reached("fresh") /\ Reached("old")
    BY DEF FloorsAreMet, Reached
  <2> QED BY DEF QuotaIInv, FloorsHeld
<1> QED BY QuotaInitIInv, QuotaIInvStep, <1>1, PTL DEF QuotaSpec

\* The old ceiling holds in every band its pass is through with, and in the
\* head to the end.
THEOREM CeilingCorrect == QuotaSpec => []CeilingHolds
<1>1. QuotaIInv => CeilingHolds
    BY DEF QuotaIInv
<1> QED BY QuotaInitIInv, QuotaIInvStep, <1>1, PTL DEF QuotaSpec

\* Without an artist ceiling the old ceiling holds in every band to the end.
AllBandsHeld ==
    targets.cap > 0 /\ targets.artist = 0 /\ pass \in {"spread", "done"} =>
        \A b \in Bands : WithinCeiling(b)

LEMMA AllBandsStep == QuotaIInv /\ AllBandsHeld /\ [QuotaNext]_quotaVars => AllBandsHeld'
<1> SUFFICES ASSUME QuotaIInv, AllBandsHeld, [QuotaNext]_quotaVars,
                    targets'.cap > 0, targets'.artist = 0, pass' \in {"spread", "done"},
                    NEW b \in Bands
             PROVE  WithinCeiling(b)'
    BY DEF AllBandsHeld, Bands
<1>0. Typed
    BY DEF QuotaIInv
<1>1. CASE UNCHANGED quotaVars
    BY <1>1, Unmoved DEF quotaVars, AllBandsHeld
<1>2. CASE DiversifyArtists \/ DiversifyCharacters \/ FreshFloor \/ OldFloor
    BY <1>2 DEF DiversifyArtists, DiversifyCharacters, FreshFloor, OldFloor, Diversify, Floor,
                Turn, Swap
<1>3. CASE OldCeiling
  <2>1. pass = "ceiling"
    BY <1>3 DEF OldCeiling
  <2>2. WithinCeiling(band) /\ Turn("spread") /\ ~(band + 2 * Window <= Size)
    BY <1>0, <1>3, <2>1, CeilingMoves DEF NextBand, Turn, Swap
  <2>3. b <= band
    BY <1>0, <2>2, BandsOK, Sizes DEF Typed
  <2>4. b < band \/ b = band
    BY <1>0, <2>3, BandsOK DEF Typed
  <2>5. targets.cap > 0 /\ UNCHANGED <<post, targets, list>>
    BY <2>2 DEF Turn
  <2>6. WithinCeiling(b)
    BY <2>1, <2>2, <2>4, <2>5 DEF QuotaIInv, CeilingHolds
  <2> QED BY <2>5, <2>6, Unmoved
<1>4. CASE Spread
  <2>1. targets' = targets
    BY <1>4 DEF Spread, NextBand, Turn, Swap
  <2>2. pass = "spread" /\ UNCHANGED <<post, targets, list>>
    BY <1>4, <2>1 DEF Spread, Turn
  <2> QED BY <2>2, Unmoved DEF AllBandsHeld
<1> QED BY <1>1, <1>2, <1>3, <1>4 DEF QuotaNext

\* The artist swaps are all that sets the two ceilings against each other: where
\* no artist is limited, every full band keeps its share of old posts, or only
\* old ones follow it (apply_composition_quota).
THEOREM CeilingsFightOverArtists == QuotaSpec => [](targets.artist = 0 => CeilingsDoNotFight)
<1>1. QuotaInit => AllBandsHeld
    BY DEF QuotaInit, AllBandsHeld
<1>2. AllBandsHeld => (targets.artist = 0 => CeilingsDoNotFight)
    BY DEF AllBandsHeld, CeilingsDoNotFight
<1> QED BY QuotaInitIInv, QuotaIInvStep, AllBandsStep, <1>1, <1>2, PTL DEF QuotaSpec

-----------------------------------------------------------------------------
(* The minimum of distinct keys *)

LEMMA KeysBound ==
    ASSUME NEW n \in Nat
    PROVE  /\ IsFiniteSet(KeysOf(1..n))
           /\ Cardinality(KeysOf(1..n)) \in Nat /\ Cardinality(KeysOf(1..n)) <= n
<1> DEFINE f == [i \in 1..n |-> Key(i)]
           all == {Key(i) : i \in 1..n}
<1>1. f \in Surjection(1..n, all)
    BY DEF Surjection
<1>2. IsFiniteSet(1..n) /\ Cardinality(1..n) = n
    BY FS_Interval
<1>3. IsFiniteSet(all) /\ Cardinality(all) <= n
  <2> HIDE DEF f, all
  <2> QED BY <1>1, <1>2, FS_Surjection
<1>4. KeysOf(1..n) \in SUBSET all
    BY DEF KeysOf
<1>5. IsFiniteSet(KeysOf(1..n)) /\ Cardinality(KeysOf(1..n)) <= Cardinality(all)
  <2> HIDE DEF all
  <2> QED BY <1>3, <1>4, FS_Subset
<1>6. Cardinality(all) \in Nat /\ Cardinality(KeysOf(1..n)) \in Nat
  <2> HIDE DEF all
  <2> QED BY <1>3, <1>5, FS_CardinalityType
<1> HIDE DEF all
<1> QED BY <1>3, <1>5, <1>6

\* A top without a missing or repeated key has as many keys as places.
LEMMA AllDistinct ==
    ASSUME Redundant = {}
    PROVE  Cardinality(KeysOf(1..Top)) >= Top
<1> DEFINE f == [i \in 1..Top |-> Key(i)]
           keys == KeysOf(1..Top)
<1>1. \A i \in 1..Top : Key(i) # None /\ \A k \in 1..(i - 1) : Key(k) # Key(i)
    BY DEF Redundant
<1>2. \A i, k \in 1..Top : i # k => Key(i) # Key(k)
  <2> SUFFICES ASSUME NEW i \in 1..Top, NEW k \in 1..Top, i # k PROVE Key(i) # Key(k)
    OBVIOUS
  <2>1. i < k => i \in 1..(k - 1)
    BY Sizes
  <2>2. k < i => k \in 1..(i - 1)
    BY Sizes
  <2>3. i < k \/ k < i
    BY Sizes
  <2> QED BY <1>1, <2>1, <2>2, <2>3
<1>3. f \in Injection(1..Top, keys)
    BY <1>1, <1>2 DEF Injection, IsInjective, KeysOf
<1>4. IsFiniteSet(1..Top) /\ Cardinality(1..Top) = Top
    BY FS_Interval, Sizes
<1>5. IsFiniteSet(keys)
    BY KeysBound, Sizes
<1>6. Cardinality(1..Top) <= Cardinality(keys)
  <2> HIDE DEF f, keys
  <2> QED BY <1>3, <1>5, FS_Injection
<1>7. Cardinality(keys) \in Nat
    BY <1>5, FS_CardinalityType
<1> QED BY <1>4, <1>6, <1>7, Sizes

Minimum ==
    (pass \in {"artists", "characters"} /\ pass' # pass) =>
        Cardinality(KeysOf(1..Top)) >= Smaller(MinDistinct, Cardinality(KeysOf(Ranks)))

LEMMA MinimumStep == [QuotaNext]_quotaVars => [Minimum]_quotaVars
<1> SUFFICES ASSUME QuotaNext, pass \in {"artists", "characters"}, pass' # pass
             PROVE  Cardinality(KeysOf(1..Top)) >=
                        Smaller(MinDistinct, Cardinality(KeysOf(Ranks)))
    BY DEF Minimum
<1>1. PICK next : Diversify(next)
    BY DEF QuotaNext, DiversifyArtists, DiversifyCharacters, FreshFloor, OldFloor, OldCeiling,
           Spread
<1>2. \/ Cardinality(KeysOf(1..Top)) >= MinDistinct
      \/ Promotable = {} \/ Redundant = {}
    BY <1>1, DiversifyMoves DEF Swap
<1>3. MinDistinct \in Nat /\ MinDistinct <= TopK /\ TopK \in Nat
    BY QuotaConstantsOK DEF MinDistinct
<1>0. Cardinality(KeysOf(Ranks)) \in Nat /\ Cardinality(KeysOf(Ranks)) <= Size
      /\ Cardinality(KeysOf(1..Top)) \in Nat
    BY KeysBound, Sizes DEF Ranks
<1>4. CASE Promotable = {}
  <2>1. KeysOf(Ranks) = KeysOf(1..Top)
    BY <1>4, Sizes DEF Promotable, KeysOf, Ranks
  <2> QED BY <1>0, <1>3, <2>1 DEF Smaller
<1>5. CASE Redundant = {}
  <2>1. Cardinality(KeysOf(1..Top)) >= Top
    BY <1>5, AllDistinct
  <2>2. CASE Top = TopK
    BY <1>0, <1>3, <2>1, <2>2 DEF Smaller
  <2>3. CASE Top = Size
    BY <1>0, <1>3, <2>1, <2>3, Sizes DEF Smaller
  <2> QED BY <2>2, <2>3 DEF Top, Smaller
<1>6. CASE Cardinality(KeysOf(1..Top)) >= MinDistinct
    BY <1>0, <1>3, <1>6 DEF Smaller
<1> QED BY <1>2, <1>4, <1>5, <1>6

\* A diversity pass gives up only when the top has as many distinct artists, or
\* characters, as it asks for or as the whole list has (enforce_group_quota).
THEOREM MinimumCorrect == QuotaSpec => MinimumIsReached
<1>1. QuotaSpec => [][Minimum]_quotaVars
    BY MinimumStep, PTL DEF QuotaSpec
<1> QED BY <1>1 DEF MinimumIsReached, Minimum

-----------------------------------------------------------------------------
(* The passes end *)

Names == UNION {{post[r].artists[k] : k \in DOMAIN post[r].artists} : r \in Ranks}

\* Each credit over the cap, in the band under way.
Excess == {x \in Names \X (1..Window) : ArtistCap < x[2] /\ x[2] <= Credits(x[1])}

\* What the pass has left to do in its band.
Work ==
    CASE pass \in {"artists", "characters"} -> Top - Cardinality(KeysOf(1..Top))
      [] pass \in {"fresh", "old"} -> Window - InHead(pass)
      [] pass = "ceiling" -> Count(band + 1, band + Window, "old")
      [] pass = "spread" -> Cardinality(Excess)
      [] pass = "done" -> 0

Following ==
    {<<"artists", "characters">>, <<"characters", "fresh">>, <<"fresh", "old">>,
     <<"old", "ceiling">>, <<"ceiling", "spread">>, <<"spread", "done">>}

\* A step goes on to the next pass, to the next band, or has less to do.
Progress ==
    \/ <<pass, pass'>> \in Following
    \/ pass' = pass /\ band < band'
    \/ pass' = pass /\ band' = band /\ Work' < Work

\* A step moves the passes on.
Onward ==
    \/ <<pass, pass'>> \in Following
    \/ pass' = pass /\ band < band'

LEMMA TurnIsOnward ==
    ASSUME Typed, NEW next, <<pass, next>> \in Following, Turn(next) \/ NextBand(next)
    PROVE  Onward
<1>1. band \in Nat /\ Window \in Nat \ {0}
    BY Sizes, BandsOK DEF Typed
<1> QED BY <1>1 DEF Turn, NextBand, Onward

\* A promoted post adds a key, and the one it replaces takes none away.
LEMMA DiversifyProgress ==
    ASSUME Typed, pass \in {"artists", "characters"},
           NEW i \in 1..Top, NEW j \in Ranks \ 1..Top,
           i \in Redundant, j \in Promotable, Swap(i, j)
    PROVE  Cardinality(KeysOf(1..Top))' = Cardinality(KeysOf(1..Top)) + 1
<1>1. i \in Ranks /\ j \in Ranks /\ i # j /\ 1..Top \subseteq Ranks
    BY Sizes DEF Ranks
<1>2. pass' = pass
    BY DEF Swap
<1>3. Key(i)' = Key(j) /\ \A k \in 1..Top : k # i => Key(k)' = Key(k)
    BY <1>1, <1>2, SwapMoves DEF Key
<1>4. Key(i) # None => \E k \in 1..Top : k # i /\ Key(k) = Key(i)
    BY Sizes DEF Redundant
<1>5. Key(j) # None /\ Key(j) \notin KeysOf(1..Top)
    BY DEF Promotable
<1>6. KeysOf(1..Top)' = KeysOf(1..Top) \cup {Key(j)}
  <2>1. KeysOf(1..Top)' = {Key(k)' : k \in 1..Top} \ {None}
    BY DEF KeysOf, Top, Smaller
  <2>2. ASSUME NEW k \in 1..Top PROVE Key(k)' \in {Key(m) : m \in 1..Top} \cup {Key(j)}
    BY <1>3
  <2>3. ASSUME NEW k \in 1..Top, Key(k) # None
        PROVE  \E m \in 1..Top : Key(m)' = Key(k)
    BY <1>3, <1>4, <2>3
  <2>4. Key(i)' = Key(j)
    BY <1>3
  <2> QED BY <1>5, <2>1, <2>2, <2>3, <2>4 DEF KeysOf
<1>7. Cardinality(KeysOf(1..Top) \cup {Key(j)}) = Cardinality(KeysOf(1..Top)) + 1
    BY <1>5, KeysBound, Sizes, FS_AddElement
<1> QED BY <1>6, <1>7

LEMMA HeadBound == \A age : InHead(age) \in Nat /\ InHead(age) <= Window
<1> SUFFICES ASSUME NEW age PROVE InHead(age) \in Nat /\ InHead(age) <= Window
    OBVIOUS
<1>1. Members(1, Window, age) \in SUBSET (1..Window)
    BY DEF Members
<1>2. IsFiniteSet(1..Window) /\ Cardinality(1..Window) = Window
    BY FS_Interval, Sizes
<1>3. Cardinality(Members(1, Window, age)) <= Window
    BY <1>1, <1>2, FS_Subset
<1> QED BY <1>3, CountOK, Sizes DEF InHead

\* The credits of an artist, by the places that give them.
CreditsOf(a) == {k \in Band(band) : a \in Artists(k)}

LEMMA CreditsBound ==
    ASSUME Typed, NEW a
    PROVE  /\ IsFiniteSet(CreditsOf(a)) /\ Credits(a) = Cardinality(CreditsOf(a))
           /\ Credits(a) \in Nat /\ Credits(a) <= Window
<1>1. CreditsOf(a) \in SUBSET ((band + 1)..(band + Window))
    BY DEF CreditsOf, Band
<1>2. /\ IsFiniteSet((band + 1)..(band + Window))
      /\ Cardinality((band + 1)..(band + Window)) = Window
  <2>1. band + 1 \in Int /\ band + Window \in Int /\ (band + Window) - (band + 1) + 1 = Window
        /\ ~(band + 1 > band + Window)
    BY BandOfRanks, Sizes
  <2> QED BY <2>1, FS_Interval
<1>3. IsFiniteSet(CreditsOf(a)) /\ Cardinality(CreditsOf(a)) <= Window
    BY <1>1, <1>2, FS_Subset
<1> QED BY <1>3, FS_CardinalityType DEF Credits, CreditsOf

LEMMA NamesFinite == Typed => IsFiniteSet(Names)
<1> SUFFICES ASSUME Typed PROVE IsFiniteSet(Names)
    OBVIOUS
<1> DEFINE of(r) == {post[r].artists[k] : k \in DOMAIN post[r].artists}
           sets == {of(r) : r \in Ranks}
<1>1. ASSUME NEW r \in Ranks PROVE IsFiniteSet(of(r))
  <2> DEFINE n == Len(post[r].artists)
             f == [k \in 1..n |-> post[r].artists[k]]
  <2>1. DOMAIN post[r].artists = 1..n /\ n \in Nat
    BY QuotaConstantsOK DEF Typed, QuotaTypeOK
  <2>2. f \in Surjection(1..n, of(r))
    BY <2>1 DEF Surjection
  <2>3. IsFiniteSet(1..n)
    <3>1. n \in Int
      BY <2>1
    <3> HIDE DEF n
    <3> QED BY <3>1, FS_Interval
  <2> HIDE DEF f, of, n
  <2> QED BY <2>2, <2>3, FS_Surjection
<1>2. IsFiniteSet(sets)
  <2> DEFINE f == [r \in Ranks |-> of(r)]
  <2>1. f \in Surjection(Ranks, sets)
    BY DEF Surjection
  <2>2. IsFiniteSet(Ranks)
    BY FS_Interval, Sizes DEF Ranks
  <2> HIDE DEF f, sets
  <2> QED BY <2>1, <2>2, FS_Surjection
<1>3. \A T \in sets : IsFiniteSet(T)
    BY <1>1
<1>4. IsFiniteSet(UNION sets)
  <2> HIDE DEF sets
  <2> QED BY <1>2, <1>3, FS_UNION
<1> QED BY <1>4 DEF Names

LEMMA ExcessFinite == Typed => IsFiniteSet(Excess) /\ Cardinality(Excess) \in Nat
<1> SUFFICES ASSUME Typed PROVE IsFiniteSet(Excess) /\ Cardinality(Excess) \in Nat
    OBVIOUS
<1>1. IsFiniteSet(1..Window)
    BY FS_Interval, Sizes
<1>2. IsFiniteSet(Names \X (1..Window))
    BY <1>1, NamesFinite, FS_Product
<1>3. Excess \in SUBSET (Names \X (1..Window))
    BY DEF Excess
<1>4. IsFiniteSet(Excess)
    BY <1>2, <1>3, FS_Subset
<1> QED BY <1>4, FS_CardinalityType

\* The swap takes a credit from the artist over the cap and brings no other over.
LEMMA SpreadProgress ==
    ASSUME Typed, NEW i \in Band(band), NEW j \in Below(band), Relieves(i, j), Swap(i, j)
    PROVE  Cardinality(Excess)' < Cardinality(Excess)
<1>1. i \in Ranks /\ j \in Ranks /\ i # j /\ Band(band) \subseteq Ranks /\ j \notin Band(band)
    BY SwapPlaces, BandOfRanks
<1>2. Band(band)' = Band(band) /\ ArtistCap' = ArtistCap /\ Names' = Names /\ Typed'
    BY <1>1, SwapTyped DEF Swap, Band, ArtistCap, Names
<1>3. /\ Artists(i)' = Artists(j)
      /\ \A k \in Band(band) \ {i} : Artists(k)' = Artists(k)
    BY <1>1, SwapMoves DEF Artists
<1>4. ASSUME NEW a
      PROVE  Credits(a)' = Credits(a) - (IF a \in Artists(i) THEN 1 ELSE 0)
                                      + (IF a \in Artists(j) THEN 1 ELSE 0)
  <2> DEFINE P == CreditsOf(a)
             Q == CreditsOf(a)'
  <2>1. P \ {i} = Q \ {i}
    BY <1>2, <1>3 DEF CreditsOf
  <2>2. (i \in P <=> a \in Artists(i)) /\ (i \in Q <=> a \in Artists(j))
    BY <1>2, <1>3 DEF CreditsOf
  <2>3. IsFiniteSet(P) /\ Credits(a) = Cardinality(P)
    BY CreditsBound
  <2>4. IsFiniteSet(Q) /\ Credits(a)' = Cardinality(Q)
    <3>1. Q \in SUBSET Band(band)
      BY <1>2 DEF CreditsOf
    <3>2. IsFiniteSet(Band(band))
      BY BandOfRanks, Sizes, FS_Interval DEF Band
    <3>3. IsFiniteSet(Q)
      BY <3>1, <3>2, FS_Subset
    <3> QED BY <3>3 DEF Credits, CreditsOf
  <2>5. Cardinality(Q) =
          Cardinality(P) - (IF i \in P THEN 1 ELSE 0) + (IF i \in Q THEN 1 ELSE 0)
    <3> HIDE DEF P, Q
    <3> QED BY <2>1, <2>3, <2>4, MoveOne
  <2> HIDE DEF P, Q
  <2> QED BY <2>2, <2>3, <2>4, <2>5
<1>5. \A a : Credits(a) \in Nat /\ Credits(a) <= Window
    BY CreditsBound
<1>6. ArtistCap \in Nat
  <2>1. targets \in Settings
    BY DEF Typed, QuotaTypeOK
  <2> QED BY <2>1, QuotaConstantsOK DEF ArtistCap
<1> DEFINE top == <<Over, Credits(Over)>>
<1>7. Over \in Artists(i) /\ Over \notin Artists(j) /\ Credits(Over) > ArtistCap
    BY DEF Relieves, Replacements
<1>8. \A a \in Artists(j) : Credits(a) + 1 - (IF a \in Artists(i) THEN 1 ELSE 0) <= ArtistCap
    BY DEF Relieves, Replacements
<1>9. top \in Excess
  <2>1. list[i] \in Ranks
    BY <1>1 DEF Typed, QuotaTypeOK
  <2>2. Over \in Names
    BY <1>7, <2>1 DEF Names, Artists, At
  <2>3. Credits(Over) \in 1..Window
    BY <1>5, <1>6, <1>7, Sizes
  <2> QED BY <1>5, <1>7, <2>2, <2>3 DEF Excess
<1>10. Excess' \subseteq Excess \ {top}
  <2>1. Excess' = {x \in Names \X (1..Window) : ArtistCap < x[2] /\ x[2] <= Credits(x[1])'}
    BY <1>2 DEF Excess
  <2> SUFFICES ASSUME NEW a \in Names, NEW n \in 1..Window, ArtistCap < n, n <= Credits(a)'
               PROVE  n <= Credits(a) /\ <<a, n>> # top
    BY <2>1 DEF Excess
  <2>2. CASE a \in Artists(j)
    <3>1. Credits(a)' <= ArtistCap
      <4>1. CASE a \in Artists(i)
        BY <1>4, <1>5, <1>6, <1>8, <2>2, <4>1
      <4>2. CASE a \notin Artists(i)
        BY <1>4, <1>5, <1>6, <1>8, <2>2, <4>2
      <4> QED BY <4>1, <4>2
    <3>2. Credits(a)' \in Nat
      <4>1. Credits(a)' = Credits(a) - (IF a \in Artists(i) THEN 1 ELSE 0) + 1
        BY <1>4, <2>2
      <4>2. Credits(a)' = Credits(a) \/ Credits(a)' = Credits(a) + 1
        BY <1>5, <4>1
      <4> QED BY <1>5, <4>2
    <3> QED BY <1>6, <3>1, <3>2
  <2>3. CASE a \notin Artists(j)
    <3>1. Credits(a)' = Credits(a) - (IF a \in Artists(i) THEN 1 ELSE 0)
      BY <1>4, <1>5, <2>3
    <3>2. CASE a \in Artists(i)
      <4>1. Credits(a)' = Credits(a) - 1
        BY <3>1, <3>2
      <4>2. n <= Credits(a) - 1 /\ Credits(a) \in Nat
        BY <1>5, <4>1
      <4> QED BY <4>2
    <3>3. CASE a \notin Artists(i)
      <4>1. a # Over /\ Credits(a)' = Credits(a)
        BY <1>5, <1>7, <3>1, <3>3
      <4> QED BY <4>1
    <3> QED BY <3>2, <3>3
  <2> QED BY <2>2, <2>3
<1>11. IsFiniteSet(Excess) /\ Cardinality(Excess) \in Nat /\ Cardinality(Excess)' \in Nat
  <2>1. IsFiniteSet(Excess) /\ Cardinality(Excess) \in Nat
    BY ExcessFinite
  <2>2. Excess' \in SUBSET Excess
    BY <1>10
  <2>3. IsFiniteSet(Excess')
    BY <2>1, <2>2, FS_Subset
  <2> QED BY <2>1, <2>3, FS_CardinalityType
<1> HIDE DEF top
<1>12. IsFiniteSet(Excess \ {top}) /\ Cardinality(Excess \ {top}) = Cardinality(Excess) - 1
    BY <1>9, <1>11, FS_RemoveElement
<1>13. Cardinality(Excess') <= Cardinality(Excess \ {top})
    BY <1>10, <1>12, FS_Subset
<1> QED BY <1>11, <1>12, <1>13

LEMMA WorkIsCounted == Typed => Work \in Nat
<1> SUFFICES ASSUME Typed PROVE Work \in Nat
    OBVIOUS
<1>1. Top - Cardinality(KeysOf(1..Top)) \in Nat
    BY KeysBound, Sizes
<1>2. Window - InHead(pass) \in Nat
    BY HeadBound, Sizes
<1>3. Count(band + 1, band + Window, "old") \in Nat
    BY BandOfRanks, CountOK, Sizes
<1>4. Cardinality(Excess) \in Nat
    BY ExcessFinite
<1>5. pass \in Passes
    BY DEF Typed, QuotaTypeOK
<1> QED BY <1>1, <1>2, <1>3, <1>4, <1>5 DEF Work, Passes

LEMMA ProgressStep == QuotaIInv /\ [QuotaNext]_quotaVars => [Progress]_quotaVars
<1> SUFFICES ASSUME QuotaIInv, QuotaNext PROVE Progress
    OBVIOUS
<1>0. Typed
    BY DEF QuotaIInv
<1>1. Onward => Progress
    BY DEF Onward, Progress
<1>2. ASSUME pass \in {"artists", "characters"},
             NEW next, <<pass, next>> \in Following, Diversify(next)
      PROVE  Progress
  <2>1. CASE Turn(next)
    BY <1>0, <1>1, <1>2, <2>1, TurnIsOnward
  <2>2. CASE \E i \in 1..Top, j \in Ranks \ 1..Top :
               i \in Redundant /\ j \in Promotable /\ Swap(i, j)
    <3>1. pass' = pass /\ band' = band
      BY <2>2 DEF Swap
    <3>2. Cardinality(KeysOf(1..Top))' = Cardinality(KeysOf(1..Top)) + 1
      BY <1>0, <1>2, <2>2, DiversifyProgress
    <3>3. Work = Top - Cardinality(KeysOf(1..Top))
      BY <1>2 DEF Work
    <3>4. Work' = Top - Cardinality(KeysOf(1..Top))'
      BY <1>2, <3>1 DEF Work, Top, Smaller
    <3>5. Work' < Work
      BY <3>2, <3>3, <3>4, KeysBound, Sizes
    <3> QED BY <3>1, <3>5 DEF Progress
  <2> QED BY <1>2, <2>1, <2>2, DiversifyMoves
<1>3. ASSUME NEW age \in {"fresh", "old"}, pass = age,
             NEW next, <<pass, next>> \in Following, Floor(age, next)
      PROVE  Progress
  <2>1. CASE Turn(next)
    BY <1>0, <1>1, <1>3, <2>1, TurnIsOnward
  <2>2. CASE \E i \in 1..Window, j \in Ranks \ 1..Window :
               Expendable(age, i) /\ At(j).age = age /\ Swap(i, j)
    <3>1. PICK i \in 1..Window, j \in Ranks \ 1..Window :
                 Expendable(age, i) /\ At(j).age = age /\ Swap(i, j)
      BY <2>2
    <3>2. pass' = pass /\ band' = band
      BY <3>1 DEF Swap
    <3>3. InHead(age)' = InHead(age) + 1
      <4>1. InHead(age)' = InHead(age) - (IF At(i).age = age THEN 1 ELSE 0)
                                       + (IF At(j).age = age THEN 1 ELSE 0)
        BY <1>0, <3>1, HeadSwap
      <4>2. At(i).age # age /\ At(j).age = age /\ InHead(age) \in Nat
        BY <3>1, HeadBound DEF Expendable
      <4> QED BY <4>1, <4>2
    <3>4. Work = Window - InHead(age)
      BY <1>3 DEF Work
    <3>5. Work' = Window - InHead(age)'
      BY <1>3, <3>2 DEF Work
    <3>6. Work' < Work
      BY <3>3, <3>4, <3>5, HeadBound, Sizes
    <3> QED BY <3>2, <3>6 DEF Progress
  <2> QED BY <1>3, <2>1, <2>2, FloorMoves
<1>4. CASE OldCeiling
  <2>1. pass = "ceiling" /\ <<pass, "spread">> \in Following
    BY <1>4 DEF OldCeiling, Following
  <2>2. CASE Turn("spread") \/ NextBand("spread")
    BY <1>0, <1>1, <2>1, <2>2, TurnIsOnward
  <2>3. CASE \E i \in Band(band), j \in Below(band) :
               At(i).age = "old" /\ At(j).age # "old" /\ Swap(i, j)
    <3>1. PICK i \in Band(band), j \in Below(band) :
                 At(i).age = "old" /\ At(j).age # "old" /\ Swap(i, j)
      BY <2>3
    <3>2. pass' = pass /\ band' = band
      BY <3>1 DEF Swap
    <3> DEFINE n == Count(band + 1, band + Window, "old")
    <3>3. Count(band + 1, band + Window, "old")' = n - 1 /\ n \in Nat
      <4>1. /\ i \in Ranks /\ j \in Ranks /\ i # j
            /\ band + 1 \in Nat /\ band + Window \in Nat
            /\ (band + 1)..(band + Window) \subseteq Ranks
            /\ i \in (band + 1)..(band + Window) /\ j \notin (band + 1)..(band + Window)
        BY <1>0, <3>1, SwapPlaces, BandOfRanks, Sizes DEF Band, Ranks
      <4>2. n \in Nat
        BY <4>1, CountOK
      <4>3. Count(band + 1, band + Window, "old")' =
              n - (IF At(i).age = "old" THEN 1 ELSE 0) + (IF At(j).age = "old" THEN 1 ELSE 0)
        <5>1. ASSUME NEW f \in Nat, NEW t \in Nat, f..t \subseteq Ranks,
                     i \in f..t, j \notin f..t
              PROVE  Count(f, t, "old")' =
                       Count(f, t, "old") - (IF At(i).age = "old" THEN 1 ELSE 0)
                                          + (IF At(j).age = "old" THEN 1 ELSE 0)
          BY <1>0, <3>1, <4>1, <5>1, SwapAcross
        <5>2. Count(band + 1, band + Window, "old")' =
                Cardinality({k \in (band + 1)..(band + Window) : At(k)'.age = "old"})
          BY <3>2 DEF Count
        <5> QED BY <3>2, <4>1, <5>1, <5>2 DEF Count
      <4> QED BY <3>1, <4>2, <4>3
    <3>4. Work' < Work
      BY <2>1, <3>2, <3>3 DEF Work
    <3> QED BY <3>2, <3>4 DEF Progress
  <2> QED BY <1>0, <1>4, <2>2, <2>3, CeilingMoves
<1>5. CASE Spread
  <2>1. pass = "spread" /\ <<pass, "done">> \in Following
    BY <1>5 DEF Spread, Following
  <2>2. CASE Turn("done") \/ NextBand("done")
    BY <1>0, <1>1, <2>1, <2>2, TurnIsOnward
  <2>3. CASE \E i \in Band(band), j \in Below(band) : Relieves(i, j) /\ Swap(i, j)
    <3>1. pass' = pass /\ band' = band
      BY <2>3 DEF Swap
    <3>2. Cardinality(Excess)' < Cardinality(Excess)
      BY <1>0, <2>3, SpreadProgress
    <3>3. Work' < Work
      BY <2>1, <3>1, <3>2 DEF Work
    <3> QED BY <3>1, <3>3 DEF Progress
  <2> QED BY <1>0, <1>5, <2>2, <2>3, SpreadMoves
<1>6. CASE DiversifyArtists
    BY <1>2, <1>6 DEF DiversifyArtists, Following
<1>7. CASE DiversifyCharacters
    BY <1>2, <1>7 DEF DiversifyCharacters, Following
<1>8. CASE FreshFloor
    BY <1>3, <1>8 DEF FreshFloor, Following
<1>9. CASE OldFloor
    BY <1>3, <1>9 DEF OldFloor, Following
<1> QED BY <1>4, <1>5, <1>6, <1>7, <1>8, <1>9 DEF QuotaNext

\* No pass swaps posts to and fro: every step goes on to a later pass or band, or
\* leaves its pass a smaller number of things to do ("it can never loop",
\* apply_composition_quota).  Passes and bands are finitely many.
THEOREM PassesProgress == QuotaSpec => [](Work \in Nat) /\ [][Progress]_quotaVars
<1>1. QuotaIInv => Work \in Nat
    BY WorkIsCounted DEF QuotaIInv
<1> QED BY QuotaInitIInv, QuotaIInvStep, ProgressStep, <1>1, PTL DEF QuotaSpec

-----------------------------------------------------------------------------
(* THE SCROLL *)

\* A tab waits for a request of its own.
OwnRequest ==
    \A t \in Tabs : awaited[t] # NoRequest =>
        request[awaited[t]].at # "free" /\ request[awaited[t]].key[1] = t

RenderedIsRecorded == \A k \in Keys : rendered[k] \subseteq shown[k]

\* The exclusions of the awaited request cover what its scroll has rendered.
Covers(r) == r.at = "read" /\ r.state # "expired" => rendered[r.key] \subseteq r.exclude

AwaitedIsCovered ==
    \A t \in Tabs : awaited[t] # NoRequest => Covers(request[awaited[t]])

IInv == TypeOK /\ OwnRequest /\ RenderedIsRecorded /\ AwaitedIsCovered /\ NoRepeatInScroll

USE RequestsOK

-----------------------------------------------------------------------------
LEMMA InitIInv == Init => IInv
<1> SUFFICES ASSUME Init PROVE IInv
    OBVIOUS
<1>1. TypeOK
    BY DEF Init, TypeOK, MaxIdle, Free
<1>2. OwnRequest /\ RenderedIsRecorded /\ AwaitedIsCovered /\ NoRepeatInScroll
    BY DEF Init, OwnRequest, RenderedIsRecorded, AwaitedIsCovered, NoRepeatInScroll
<1> QED BY <1>1, <1>2 DEF IInv

LEMMA ServingFields ==
    ASSUME TypeOK, NEW q \in Requests, request[q].at # "free"
    PROVE  /\ request[q] \in Serving
           /\ request[q].key \in Keys
           /\ request[q].key[1] \in Tabs
           /\ request[q].exclude \subseteq Posts
BY DEF TypeOK, Serving, Free, Keys

-----------------------------------------------------------------------------
LEMMA SendStep ==
    ASSUME IInv, NEW t \in Tabs, NEW a \in Accounts, NEW q \in Requests, Send(t, a, q)
    PROVE  IInv'
<1> DEFINE sent == [at |-> "sent", key |-> <<t, a>>, state |-> "unknown", exclude |-> {}]
<1>0. sent \in Serving /\ sent.at = "sent" /\ sent.key[1] = t
    BY DEF Serving, Keys
<1>1. TypeOK'
    BY <1>0 DEF IInv, TypeOK, Send, ghosts
<1>2. /\ request' = [request EXCEPT ![q] = sent]
      /\ awaited' = [awaited EXCEPT ![t] = q]
      /\ UNCHANGED <<shown, rendered, repeated>>
    BY DEF Send, ghosts
<1>3. \A u \in Tabs : u # t /\ awaited[u] # NoRequest => awaited[u] # q /\ awaited[u] \in Requests
    BY DEF IInv, OwnRequest, Send, TypeOK, Free
<1>4. OwnRequest'
    BY <1>0, <1>2, <1>3 DEF IInv, TypeOK, OwnRequest
<1>5. AwaitedIsCovered'
    BY <1>0, <1>2, <1>3 DEF IInv, TypeOK, AwaitedIsCovered, Covers
<1> QED BY <1>1, <1>2, <1>4, <1>5 DEF IInv, RenderedIsRecorded, NoRepeatInScroll

LEMMA GiveUpStep ==
    ASSUME IInv, NEW t \in Tabs, GiveUp(t)
    PROVE  IInv'
<1>1. TypeOK'
    BY DEF IInv, TypeOK, GiveUp, ghosts
<1> QED BY <1>1 DEF IInv, TypeOK, GiveUp, ghosts, OwnRequest, RenderedIsRecorded,
                    AwaitedIsCovered, Covers, NoRepeatInScroll

-----------------------------------------------------------------------------
LEMMA TouchStep ==
    ASSUME IInv, NEW q \in Requests, Touch(q)
    PROVE  IInv'
<1> DEFINE k == request[q].key
<1>0. request[q] \in Serving /\ k \in Keys /\ k[1] \in Tabs /\ TypeOK
    BY ServingFields DEF IInv, Touch
<1>1. CASE k \notin live /\ live' = live \cup {k} /\ idle' = [idle EXCEPT ![k] = 0]
           /\ Advance(q, "read", "fresh", {})
  <2>1. request' = [request EXCEPT ![q] =
            [at |-> "read", key |-> k, state |-> "fresh", exclude |-> {}]]
    BY <1>0, <1>1 DEF TypeOK, Advance
  <2>2. shown[k] = {} /\ rendered[k] = {}
    BY <1>0, <1>1 DEF IInv, TypeOK, RenderedIsRecorded
  <2>3. TypeOK'
    BY <1>0, <1>1, <2>1 DEF TypeOK, Serving, Touch, ghosts, MaxIdle
  <2>4. OwnRequest' /\ AwaitedIsCovered'
    BY <1>0, <2>1, <2>2 DEF IInv, TypeOK, Touch, ghosts, OwnRequest, AwaitedIsCovered, Covers
  <2> QED BY <2>3, <2>4 DEF IInv, Touch, ghosts, RenderedIsRecorded, NoRepeatInScroll
<1>2. CASE k \in live /\ Advance(q, "read", "expired", {})
           /\ UNCHANGED <<live, idle>>
  <2>1. request' = [request EXCEPT ![q] =
            [at |-> "read", key |-> k, state |-> "expired", exclude |-> {}]]
    BY <1>0, <1>2 DEF TypeOK, Advance
  <2>3. TypeOK'
    BY <1>0, <1>2, <2>1 DEF TypeOK, Serving, Touch, ghosts, MaxIdle
  <2>4. OwnRequest' /\ AwaitedIsCovered'
    BY <1>0, <2>1 DEF IInv, TypeOK, Touch, ghosts, OwnRequest, AwaitedIsCovered, Covers
  <2> QED BY <2>3, <2>4 DEF IInv, Touch, ghosts, RenderedIsRecorded, NoRepeatInScroll
<1>3. CASE k \in live /\ idle' = [idle EXCEPT ![k] = 0] /\ UNCHANGED live
           /\ Advance(q, "touched", "active", {})
  <2>1. request' = [request EXCEPT ![q] =
            [at |-> "touched", key |-> k, state |-> "active", exclude |-> {}]]
    BY <1>0, <1>3 DEF TypeOK, Advance
  <2>3. TypeOK'
    BY <1>0, <1>3, <2>1 DEF TypeOK, Serving, Touch, ghosts, MaxIdle
  <2>4. OwnRequest' /\ AwaitedIsCovered'
    BY <1>0, <2>1 DEF IInv, TypeOK, Touch, ghosts, OwnRequest, AwaitedIsCovered, Covers
  <2> QED BY <2>3, <2>4 DEF IInv, Touch, ghosts, RenderedIsRecorded, NoRepeatInScroll
<1> QED BY <1>1, <1>2, <1>3 DEF Touch

LEMMA ReadStep ==
    ASSUME IInv, NEW q \in Requests, ReadShown(q)
    PROVE  IInv'
<1> DEFINE k == request[q].key
<1>0. request[q] \in Serving /\ k \in Keys /\ TypeOK
    BY ServingFields DEF IInv, ReadShown
<1>1. request' = [request EXCEPT ![q] =
          [at |-> "read", key |-> k, state |-> request[q].state, exclude |-> shown[k]]]
    BY <1>0 DEF ReadShown, TypeOK, Advance
<1>2. rendered[k] \subseteq shown[k] /\ shown[k] \subseteq Posts
    BY <1>0 DEF IInv, RenderedIsRecorded, TypeOK
<1>3. TypeOK'
    BY <1>0, <1>1, <1>2 DEF TypeOK, Serving, ReadShown, ghosts
<1>4. OwnRequest' /\ AwaitedIsCovered'
    BY <1>0, <1>1, <1>2
       DEF IInv, TypeOK, ReadShown, ghosts, OwnRequest, AwaitedIsCovered, Covers
<1> QED BY <1>3, <1>4 DEF IInv, ReadShown, ghosts, RenderedIsRecorded, NoRepeatInScroll

-----------------------------------------------------------------------------
LEMMA RefuseStep ==
    ASSUME IInv, NEW q \in Requests, Refuse(q)
    PROVE  IInv'
<1>1. TypeOK'
    BY DEF IInv, TypeOK, Refuse, ghosts
<1>2. OwnRequest' /\ AwaitedIsCovered'
    BY DEF IInv, TypeOK, Refuse, ghosts, OwnRequest, AwaitedIsCovered, Covers
<1> QED BY <1>1, <1>2 DEF IInv, Refuse, ghosts, RenderedIsRecorded, NoRepeatInScroll

LEMMA DeleteStep ==
    ASSUME IInv, NEW keys \in SUBSET Keys, DeleteRows(keys)
    PROVE  IInv'
<1>1. TypeOK'
    BY DEF IInv, TypeOK, DeleteRows, MaxIdle
<1>2. RenderedIsRecorded'
    BY DEF IInv, RenderedIsRecorded, DeleteRows, TypeOK
<1>3. \A k \in Keys : rendered'[k] \subseteq rendered[k]
    BY DEF IInv, DeleteRows, TypeOK
<1>4. AwaitedIsCovered'
  <2> SUFFICES ASSUME NEW t \in Tabs, awaited[t] # NoRequest,
                      request[awaited[t]].at = "read", request[awaited[t]].state # "expired"
               PROVE  rendered'[request[awaited[t]].key] \subseteq request[awaited[t]].exclude
      BY DEF AwaitedIsCovered, Covers, DeleteRows
  <2>1. request[awaited[t]].key \in Keys
      BY ServingFields DEF IInv, TypeOK
  <2> QED BY <1>3, <2>1 DEF IInv, AwaitedIsCovered, Covers
<1> QED BY <1>1, <1>2, <1>4 DEF IInv, DeleteRows, OwnRequest, NoRepeatInScroll

LEMMA TickStep ==
    ASSUME IInv, Tick
    PROVE  IInv'
<1>1. TypeOK'
    BY DEF IInv, TypeOK, Tick, ghosts, MaxIdle
<1> QED BY <1>1 DEF IInv, Tick, ghosts, OwnRequest, RenderedIsRecorded,
                    AwaitedIsCovered, Covers, NoRepeatInScroll

-----------------------------------------------------------------------------
LEMMA FinishStep ==
    ASSUME IInv, NEW q \in Requests, NEW page \in SUBSET Posts, Finish(q, page)
    PROVE  IInv'
<1> DEFINE k == request[q].key
           t == k[1]
           state == request[q].state
<1>0. request[q] \in Serving /\ k \in Keys /\ t \in Tabs /\ TypeOK
    BY ServingFields DEF IInv, Finish
<1>1. /\ request' = [request EXCEPT ![q] = Free]
      /\ UNCHANGED <<live, idle>>
      /\ page \cap request[q].exclude = {}
    BY DEF Finish
<1>2. \A u \in Tabs : u # t => awaited[u] # q /\ awaited'[u] = awaited[u]
    BY <1>0 DEF IInv, OwnRequest, Finish, Deliver, TypeOK, ghosts
<1>3. awaited'[t] = IF awaited[t] = q THEN NoRequest ELSE awaited[t]
    BY <1>0 DEF Finish, Deliver, TypeOK, ghosts
<1>4. awaited' \in [Tabs -> Requests \cup {NoRequest}]
    BY <1>0 DEF Finish, Deliver, TypeOK, ghosts
<1>5. /\ shown' \in [Keys -> SUBSET Posts]
      /\ \A j \in Keys \ live : shown'[j] = {}
      /\ \A j \in Keys : shown[j] \subseteq shown'[j]
      /\ state # "expired" => page \subseteq shown'[k]
    BY <1>0 DEF Finish, Recordable, OwnsSession, TypeOK
<1>6. /\ rendered' \in [Keys -> SUBSET Posts]
      /\ repeated' \subseteq Keys
    BY <1>0 DEF Finish, Deliver, TypeOK, ghosts
<1>7. TypeOK'
    BY <1>0, <1>1, <1>4, <1>5, <1>6 DEF TypeOK, Free
<1>8. OwnRequest'
    BY <1>0, <1>1, <1>2, <1>3 DEF IInv, OwnRequest, TypeOK
<1>9. \A j \in Keys : \/ rendered'[j] = rendered[j]
                      \/ j = k /\ awaited[t] = q /\ state # "expired"
                         /\ rendered'[j] = rendered[j] \cup page
    BY <1>0 DEF Finish, Deliver, TypeOK, ghosts
<1>10. RenderedIsRecorded'
    BY <1>5, <1>9 DEF IInv, RenderedIsRecorded
<1>11. AwaitedIsCovered'
  <2> SUFFICES ASSUME NEW u \in Tabs, awaited'[u] # NoRequest
               PROVE  LET r == request'[awaited'[u]]
                      IN  r.at = "read" /\ r.state # "expired" => rendered'[r.key] \subseteq r.exclude
      BY DEF AwaitedIsCovered, Covers
  <2>1. awaited'[u] = awaited[u] /\ awaited[u] # q /\ awaited[u] \in Requests
      BY <1>0, <1>2, <1>3 DEF TypeOK
  <2>2. request'[awaited[u]] = request[awaited[u]]
      BY <1>0, <1>1, <2>1 DEF TypeOK
  <2>3. request[awaited[u]].key \in Keys /\ request[awaited[u]].key[1] = u
      BY <1>0, <2>1, ServingFields DEF IInv, OwnRequest
  <2>4. rendered'[request[awaited[u]].key] = rendered[request[awaited[u]].key]
      BY <1>9, <2>1, <2>3
  <2> QED BY <2>1, <2>2, <2>4 DEF IInv, AwaitedIsCovered, Covers
<1>12. NoRepeatInScroll'
  <2>1. CASE awaited[t] # q \/ state = "expired"
      BY <2>1 DEF IInv, NoRepeatInScroll, Finish, Deliver, ghosts
  <2>2. CASE awaited[t] = q /\ state # "expired"
    <3>1. rendered[k] \subseteq request[q].exclude
        BY <1>0, <2>2 DEF IInv, AwaitedIsCovered, Covers, Finish
    <3> QED BY <1>1, <2>2, <3>1 DEF IInv, NoRepeatInScroll, Finish, Deliver
  <2> QED BY <2>1, <2>2
<1> QED BY <1>7, <1>8, <1>10, <1>11, <1>12 DEF IInv

-----------------------------------------------------------------------------
LEMMA IInvStep == IInv /\ [Next]_vars => IInv'
<1> SUFFICES ASSUME IInv, [Next]_vars PROVE IInv'
    OBVIOUS
<1>1. CASE UNCHANGED vars
    BY <1>1 DEF vars, IInv, TypeOK, OwnRequest, RenderedIsRecorded, AwaitedIsCovered,
                Covers, NoRepeatInScroll
<1>2. ASSUME NEW a \in Accounts, Clear(a) PROVE IInv'
    BY <1>2, DeleteStep DEF Clear, ClearedRows, IInv, TypeOK
<1>3. CASE Prune
    BY <1>3, DeleteStep DEF Prune, PastCutoff, IInv, TypeOK
<1> QED BY <1>1, <1>2, <1>3, SendStep, GiveUpStep, TouchStep, ReadStep, RefuseStep,
           FinishStep, TickStep DEF Next

\* Every reachable state is well typed; in particular no post is recorded under
\* a session row that is gone (the ownership check of
\* record_session_shown_posts and the cascade of V37).
THEOREM TypeCorrect == Spec => []TypeOK
<1>1. IInv => TypeOK
    BY DEF IInv
<1> QED BY InitIInv, IInvStep, <1>1, PTL DEF Spec

\* While its session row lives and is in time a scroll never gets a post twice
\* (get_recommendations loads the set before the pipeline and records the page
\* before it answers).
THEOREM ScrollCorrect == Spec => []NoRepeatInScroll
<1>1. IInv => NoRepeatInScroll
    BY DEF IInv
<1> QED BY InitIInv, IInvStep, <1>1, PTL DEF Spec

-----------------------------------------------------------------------------
\* What one step may do to the sets of two accounts.
OneAccount ==
    \A k, j \in Keys :
        shown'[k] # shown[k] /\ shown'[j] # shown[j] =>
            k[2] = j[2] \/ (idle[k] > 2 * TtlMin /\ idle[j] > 2 * TtlMin)

\* A clear empties the sets of one account, the sweep those past the cutoff, and
\* a page goes into one set.
LEMMA OneAccountStep == TypeOK /\ [Next]_vars => [OneAccount]_vars
<1> SUFFICES ASSUME TypeOK, Next, NEW k \in Keys, NEW j \in Keys,
                    shown'[k] # shown[k], shown'[j] # shown[j]
             PROVE  k[2] = j[2] \/ (idle[k] > 2 * TtlMin /\ idle[j] > 2 * TtlMin)
    BY DEF OneAccount
<1>1. ASSUME NEW a \in Accounts, Clear(a) PROVE k[2] = a /\ j[2] = a
    BY <1>1 DEF Clear, ClearedRows, DeleteRows, TypeOK
<1>2. CASE Prune
    BY <1>2 DEF Prune, PastCutoff, DeleteRows, TypeOK
<1>3. ASSUME NEW q \in Requests, NEW page \in SUBSET Posts, Finish(q, page)
      PROVE  k = request[q].key /\ j = request[q].key
    BY <1>3 DEF Finish, TypeOK
<1>4. ASSUME NEW q \in Requests PROVE ~Touch(q) /\ ~ReadShown(q) /\ ~Refuse(q)
    BY DEF Touch, ReadShown, Refuse
<1>5. ASSUME NEW t \in Tabs PROVE ~GiveUp(t)
    BY DEF GiveUp
<1>6. ASSUME NEW t \in Tabs, NEW a \in Accounts, NEW q \in Requests PROVE ~Send(t, a, q)
    BY DEF Send
<1>7. ~Tick
    BY DEF Tick
<1> QED BY <1>1, <1>2, <1>3, <1>4, <1>5, <1>6, <1>7 DEF Next

\* Nothing done for one account changes what another account of the same tab was
\* shown (the account in the key of feed_session_posts, V37).
THEOREM AccountsCorrect == Spec => AccountsAreIndependent
<1>1. Spec => [][OneAccount]_vars
    BY TypeCorrect, OneAccountStep, PTL DEF Spec
<1> QED BY <1>1 DEF AccountsAreIndependent, OneAccount
=============================================================================
