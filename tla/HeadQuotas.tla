----------------------------- MODULE HeadQuotas -----------------------------
(***************************************************************************)
(* The passes that rearrange a ranked list for the page: a minimum of       *)
(* distinct artists and characters at its top (diversify.rs), then floors   *)
(* for fresh and old posts in the head, a ceiling for old posts and one for *)
(* each artist in every band of the list (composition.rs).                  *)
(*                                                                          *)
(* Each pass swaps two posts at a time until its rule holds or nothing can  *)
(* be swapped; each may undo what the ones before it established.  The      *)
(* ranking they start from is any order of any posts.                       *)
(***************************************************************************)
EXTENDS Integers, Sequences, FiniteSetsExt

CONSTANTS
    Size,          \* number of scored posts
    Kinds,         \* posts as the passes see them: age, artists in order, character
    Settings,      \* CompositionTargets: fresh, old, cap, artist
    TopK,          \* top_k of enforce_diversity_quota, 20 in the code
    SmallestTop,   \* the list it leaves alone is shorter than this, 4 in the code
    MinArtists,    \* MIN_ARTISTS
    MinCharacters, \* MIN_CHARACTERS
    Window,
    None

ASSUME QuotaConstantsOK ==
    /\ {Size, TopK, SmallestTop, MinArtists, MinCharacters, Window} \subseteq Nat \ {0}
    /\ Window <= Size /\ {MinArtists, MinCharacters} \subseteq 0..TopK
    /\ \A k \in Kinds : Len(k.artists) \in Nat /\ DOMAIN k.artists = 1..Len(k.artists)
    /\ \A s \in Settings : {s.fresh, s.old, s.cap, s.artist} \subseteq Nat

VARIABLES
    post,    \* post[i]: what the post that was ranked i-th is like
    targets,
    list,    \* the order, as ranks
    pass,    \* the pass under way
    band     \* posts before the band under way

quotaVars == <<post, targets, list, pass, band>>

Passes == {"artists", "characters", "fresh", "old", "ceiling", "spread", "done"}

Ranks == 1..Size

QuotaTypeOK ==
    /\ post \in [Ranks -> Kinds] /\ targets \in Settings
    /\ list \in [Ranks -> Ranks] /\ {list[i] : i \in Ranks} = Ranks
    /\ pass \in Passes
    /\ band \in 0..Size

Smaller(m, n) == IF m < n THEN m ELSE n

Top == Smaller(TopK, Size)

QuotaInit ==
    /\ post \in [Ranks -> Kinds] /\ targets \in Settings
    /\ list = [i \in Ranks |-> i]
    /\ pass = IF Top < SmallestTop THEN "fresh" ELSE "artists"
    /\ band = 0

At(i) == post[list[i]]

Count(from, to, age) == Cardinality({i \in from..to : At(i).age = age})

-----------------------------------------------------------------------------
(* diversify.rs *)

Artists(i) == {At(i).artists[k] : k \in DOMAIN At(i).artists}

\* The key of enforce_group_quota: the first artist, the first character.
Key(i) ==
    IF pass = "artists"
    THEN IF At(i).artists = <<>> THEN None ELSE At(i).artists[1]
    ELSE At(i).character

KeysOf(ranks) == {Key(i) : i \in ranks} \ {None}

\* Mistakes this code could make, each put in place of a definition below to
\* see that a property notices it.

MovedUp(i, j) == [list EXCEPT ![i] = list[j]]

FurtherDown == {j \in Ranks \ 1..(Top + 1) : Key(j) \notin KeysOf(1..Top) \cup {None}}

AnyOther(age, i) == At(i).age # age

OneTooMany(b, cap) == Count(b + 1, b + Window, "old") > cap + 1

MinDistinct == IF pass = "artists" THEN MinArtists ELSE MinCharacters

Redundant == {i \in 1..Top : Key(i) = None \/ \E j \in 1..(i - 1) : Key(j) = Key(i)}

Promotable == {j \in Ranks \ 1..Top : Key(j) \notin KeysOf(1..Top) \cup {None}}

Swapped(i, j) == [list EXCEPT ![i] = list[j], ![j] = list[i]]

Swap(i, j) ==
    /\ list' = Swapped(i, j)
    /\ UNCHANGED <<post, targets, pass, band>>

Turn(next) ==
    /\ pass' = next /\ band' = 0
    /\ UNCHANGED <<post, targets, list>>

Diversify(next) ==
    IF \/ Cardinality(KeysOf(1..Top)) >= MinDistinct
       \/ Promotable = {} \/ Redundant = {}
    THEN Turn(next)
    ELSE Swap(Max(Redundant), Min(Promotable))

DiversifyArtists == pass = "artists" /\ Diversify("characters")

DiversifyCharacters == pass = "characters" /\ Diversify("fresh")

-----------------------------------------------------------------------------
(* composition.rs *)

InHead(age) == Count(1, Window, age)

Quota(age) == Smaller(IF age = "fresh" THEN targets.fresh ELSE targets.old, Window)

Other(age) == IF age = "fresh" THEN "old" ELSE "fresh"

\* Leaving the head does not take the other floor what it has.
Expendable(age, i) ==
    /\ At(i).age # age
    /\ At(i).age = Other(age) => InHead(Other(age)) - 1 >= Smaller(Quota(Other(age)), InHead(Other(age)))

Floor(age, next) ==
    LET victims == {i \in 1..Window : Expendable(age, i)}
        sources == {i \in Ranks \ 1..Window : At(i).age = age}
    IN  IF InHead(age) >= Quota(age) \/ victims = {} \/ sources = {}
        THEN Turn(next)
        ELSE Swap(Max(victims), Min(sources))

FreshFloor == pass = "fresh" /\ Floor("fresh", "old")

OldFloor == pass = "old" /\ Floor("old", "ceiling")

Band(b) == (b + 1)..(b + Window)

Below(b) == Ranks \ 1..(b + Window)

\* The next full band, or the next pass.
NextBand(next) ==
    IF band + 2 * Window <= Size
    THEN band' = band + Window /\ UNCHANGED <<post, targets, list, pass>>
    ELSE Turn(next)

OldCap == Smaller(IF targets.cap > targets.old THEN targets.cap ELSE targets.old, Window)

OverCap(b, cap) == Count(b + 1, b + Window, "old") > cap

OldCeiling ==
    LET old == {i \in Band(band) : At(i).age = "old"}
        younger == {i \in Below(band) : At(i).age # "old"}
    IN  /\ pass = "ceiling"
        /\ IF targets.cap = 0 THEN Turn("spread")
           ELSE IF OverCap(band, OldCap) /\ younger # {} THEN Swap(Max(old), Min(younger))
           ELSE NextBand("spread")

Credits(a) == Cardinality({i \in Band(band) : a \in Artists(i)})

ArtistCap == targets.artist

\* The first artist over the cap, in band order; None if there is none.
Over ==
    LET crowded == {i \in Band(band) : \E a \in Artists(i) : Credits(a) > ArtistCap}
        names == At(Min(crowded)).artists
    IN  IF crowded = {} THEN None
        ELSE names[Min({k \in DOMAIN names : Credits(names[k]) > ArtistCap})]

\* swap_keeps_age
KeepsAge(victim, i) ==
    LET has(age) == Count(band + 1, band + Window, age)
        after(age) == has(age) - (IF At(victim).age = age THEN 1 ELSE 0)
                               + (IF At(i).age = age THEN 1 ELSE 0)
        floor(age) == IF band = 0 THEN Smaller(Quota(age), has(age)) ELSE 0
    IN  /\ after("fresh") >= floor("fresh") /\ after("old") >= floor("old")
        /\ after("old") <= IF targets.cap > 0 THEN OldCap ELSE Window

\* The mistake of a candidate whose own artists are not counted.
Others(over, victim) == {i \in Below(band) : over \notin Artists(i) /\ KeepsAge(victim, i)}

Replacements(over, victim) ==
    {i \in Below(band) :
        /\ over \notin Artists(i)
        /\ \A a \in Artists(i) :
             Credits(a) + 1 - (IF a \in Artists(victim) THEN 1 ELSE 0) <= ArtistCap
        /\ KeepsAge(victim, i)}

Spread ==
    LET victim == Max({i \in Band(band) : Over \in Artists(i)})
    IN  /\ pass = "spread"
        /\ IF targets.artist = 0 THEN Turn("done")
           ELSE IF Over = None THEN NextBand("done")
           ELSE IF Replacements(Over, victim) = {} THEN NextBand("done")
           ELSE Swap(victim, Min(Replacements(Over, victim)))

QuotaNext ==
    \/ DiversifyArtists \/ DiversifyCharacters
    \/ FreshFloor \/ OldFloor
    \/ OldCeiling \/ Spread

QuotaSpec == QuotaInit /\ [][QuotaNext]_quotaVars

\* The passes run to their end.
QuotaFairSpec == QuotaSpec /\ WF_quotaVars(QuotaNext)

-----------------------------------------------------------------------------
(* Properties *)

\* A pass ends with as many distinct keys at the top as the quota asks for, or
\* as the whole list has (enforce_group_quota).
MinimumIsReached ==
    [][(pass \in {"artists", "characters"} /\ pass' # pass) =>
         (Cardinality(KeysOf(1..Top)) >= Smaller(MinDistinct, Cardinality(KeysOf(Ranks))))]_quotaVars

\* When both floors fit into the head, each is met or takes all the list has,
\* and stays so through every later pass ("they are independent"; "it never
\* undercuts the old floor").
FloorsAreMet ==
    pass \in {"ceiling", "spread", "done"} /\ targets.fresh + targets.old <= Window =>
        \A age \in {"fresh", "old"} :
            InHead(age) >= Smaller(Quota(age), Count(1, Size, age))

Bands == {b \in 0..(Size - Window) : \E n \in 0..Size : b = n * Window}

\* A band has at most its share of old posts, or only old ones follow it.
WithinCeiling(b) ==
    \/ Count(b + 1, b + Window, "old") <= OldCap
    \/ \A i \in Below(b) : At(i).age = "old"

\* The ceiling holds in every band its pass is through with, and in the head
\* to the end ("The ceiling therefore runs on every band").
CeilingHolds ==
    targets.cap > 0 =>
        /\ pass = "ceiling" => \A b \in Bands : b < band => WithinCeiling(b)
        /\ pass \in {"spread", "done"} => WithinCeiling(0)

\* No two passes swap posts to and fro for ever ("it can never loop").
PassesEnd == <>(pass = "done")

\* "Artist swaps preserve the age class of the post they replace ... so the two
\* ceilings cannot undo each other" (composition.rs).
CeilingsDoNotFight ==
    pass = "done" /\ targets.cap > 0 => \A b \in Bands : WithinCeiling(b)
=============================================================================
