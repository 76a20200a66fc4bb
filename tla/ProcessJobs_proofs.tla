-------------------------- MODULE ProcessJobs_proofs --------------------------
(***************************************************************************)
(* For every set of accounts, tasks and posts, every page size and every    *)
(* cap: two runs overlap only after an eviction, a library shrinks only by  *)
(* its own full import, and an undisturbed import is whole.                 *)
(***************************************************************************)
EXTENDS ProcessJobs, SequenceTheorems, TLAPS

(* Division *)

LEMMA DivMod ==
    ASSUME NEW m \in Nat, NEW d \in Nat, d > 0
    PROVE  m \div d \in Nat /\ m = d * (m \div d) + (m % d) /\ m % d \in 0..(d - 1)
<1>1. m \div d \in Int /\ m \div d >= 0
    OBVIOUS
<1>2. m = d * (m \div d) + (m % d)
    OBVIOUS
<1>3. m % d \in 0..(d - 1)
    OBVIOUS
<1> QED BY <1>1, <1>2, <1>3

LEMMA MulMono ==
    ASSUME NEW d \in Nat, NEW x \in Nat, NEW y \in Nat, x <= y
    PROVE  d * x \in Nat /\ d * y \in Nat /\ d * x <= d * y
OBVIOUS

LEMMA DivUnique ==
    ASSUME NEW d \in Nat, d > 0, NEW k \in Nat
    PROVE  d * k \in Nat /\ (d * k) \div d = k
OBVIOUS

LEMMA DivLess ==
    ASSUME NEW m \in Nat, NEW d \in Nat, d > 0, NEW k \in Nat, m < d * k
    PROVE  m \div d < k
<1>1. m \div d \in Nat /\ d * (m \div d) <= m
    BY DivMod
<1>2. ASSUME k <= m \div d PROVE FALSE
    BY <1>1, <1>2, MulMono
<1> QED BY <1>1, <1>2

-----------------------------------------------------------------------------
(* Pages *)

\* The page, counted from zero, that shows the j-th favourite.
PageOf(j) == (j - 1) \div PageSize

LEMMA SizeOK == PageSize \in Nat /\ PageSize > 0
BY ImportConstantsOK

LEMMA PageOfNat == ASSUME NEW j \in Nat \ {0} PROVE PageOf(j) \in Nat
<1>1. j - 1 \in Nat
    OBVIOUS
<1> QED BY <1>1, SizeOK, DivMod DEF PageOf

\* Pages are asked for in order, and nothing is on a page after an empty one.
LEMMA PageBefore ==
    ASSUME NEW j \in Nat \ {0}, NEW k \in Nat, PageOf(j) >= k
    PROVE  LET i == PageSize * k + 1 IN i \in 1..j /\ PageOf(i) = k
<1> DEFINE m == j - 1
           d == PageSize
<1>0. m \in Nat /\ d \in Nat /\ d > 0 /\ PageOf(j) = m \div d
    BY SizeOK DEF PageOf
<1>1. m \div d \in Nat /\ d * (m \div d) <= m
  <2> HIDE DEF m, d
  <2> QED BY <1>0, DivMod
<1>2. d * k \in Nat /\ d * k <= d * (m \div d) /\ (d * k) \div d = k
  <2> HIDE DEF m, d
  <2> QED BY <1>0, <1>1, MulMono, DivUnique
<1>3. d * k <= m
  <2> HIDE DEF m, d
  <2> QED BY <1>0, <1>1, <1>2
<1>4. PageOf(d * k + 1) = (d * k) \div d
    BY <1>2 DEF PageOf
<1> QED BY <1>2, <1>3, <1>4

LEMMA WithinBound ==
    ASSUME NEW n \in Nat, NEW j \in 1..n, NEW k \in Nat, n <= PageSize * k
    PROVE  PageOf(j) < k
<1> DEFINE m == j - 1
           b == PageSize * k
<1>1. m \in Nat /\ b \in Nat
    BY SizeOK, MulMono
<1>2. m < b
    BY <1>1
<1> HIDE DEF m
<1>3. m \div PageSize < k
    BY <1>1, <1>2, SizeOK, DivLess
<1> QED BY <1>3 DEF m, PageOf

\* The loops ask for every page there is, up to their caps.
LEMMA PagesCover ==
    ASSUME NEW n \in Nat
    PROVE  /\ n \div PageSize + 1 \in Nat /\ PagesNeeded(n) \in Nat
           /\ n <= PageSize * (n \div PageSize + 1)
           /\ n <= PageSize * PagesNeeded(n)
<1> DEFINE q == n \div PageSize
           b == PageSize * q
<1>1. /\ q \in Nat /\ b \in Nat /\ n = b + (n % PageSize)
      /\ n % PageSize \in 0..(PageSize - 1)
    BY SizeOK, DivMod, MulMono
<1>2. PageSize * (q + 1) = b + PageSize
  <2>1. q \in Nat
    BY <1>1
  <2> HIDE DEF q
  <2> QED BY <2>1, SizeOK DEF b
<1>3. PagesNeeded(n) = IF n % PageSize > 0 THEN q + 1 ELSE q
    BY <1>1 DEF PagesNeeded
<1>4. n <= PageSize * (q + 1)
    BY <1>1, <1>2, SizeOK
<1>5. n <= PageSize * PagesNeeded(n)
  <2>1. CASE n % PageSize > 0
    BY <1>3, <1>4, <2>1
  <2>2. CASE ~(n % PageSize > 0)
    BY <1>1, <1>3, <2>2
  <2> QED BY <2>1, <2>2
<1>6. PagesNeeded(n) \in Nat
    BY <1>1, <1>3
<1> QED BY <1>1, <1>4, <1>5, <1>6

USE ImportConstantsOK

-----------------------------------------------------------------------------
(* Types *)

ModeNames == {"auto", "full", "incremental", "sync"}

LEMMA FreshType ==
    \A a \in Accounts, mode \in ModeNames, at \in RunStep :
        /\ Fresh(a, mode, at) \in RunRecord
        /\ Fresh(a, mode, at).acct = a /\ Fresh(a, mode, at).mode = mode
        /\ Fresh(a, mode, at).at = at /\ Fresh(a, mode, at).page = 1
        /\ Fresh(a, mode, at).clean = FALSE /\ Fresh(a, mode, at).owned = {}
BY DEF Fresh, RunRecord, ModeNames

LEMMA IdleType == Idle \in RunRecord /\ Idle.at = "idle" /\ Idle.clean = FALSE
<1> DEFINE a == CHOOSE x \in Accounts : TRUE
<1>1. a \in Accounts
    OBVIOUS
<1>2. "idle" \in RunStep
    BY DEF RunStep
<1>3. Idle = Fresh(a, "auto", "idle")
    BY DEF Idle
<1> HIDE DEF a
<1>4. "auto" \in ModeNames
    BY DEF ModeNames
<1>5. /\ Fresh(a, "auto", "idle") \in RunRecord /\ Fresh(a, "auto", "idle").at = "idle"
      /\ Fresh(a, "auto", "idle").clean = FALSE
    BY <1>1, <1>2, <1>4, FreshType
<1> QED BY <1>3, <1>5

LEMMA InitType == Init => TypeOK
<1> SUFFICES ASSUME Init PROVE TypeOK
    OBVIOUS
<1>1. run \in [Runs -> RunRecord]
    BY IdleType DEF Init
<1> QED BY <1>1 DEF Init, TypeOK, JobPhase

\* What an import's end leaves of its run.
LEMMA ImportsFields ==
    ASSUME TypeOK, NEW r \in Runs
    PROVE  /\ Imports(r) \in [Runs -> RunRecord]
           /\ \A s \in Runs \ {r} : Imports(r)[s] = run[s]
           /\ Imports(r)[r].at = "imported"
           /\ Imports(r)[r].acct = run[r].acct /\ Imports(r)[r].mode = run[r].mode
           /\ Imports(r)[r].clean = run[r].clean /\ Imports(r)[r].skipped = run[r].skipped
           /\ Imports(r)[r].sound = run[r].sound
<1> DEFINE f == Fresh(run[r].acct, run[r].mode, "imported")
           x == [f EXCEPT !.clean = run[r].clean, !.skipped = run[r].skipped, !.sound = run[r].sound]
<1>1. run[r] \in RunRecord
    BY DEF TypeOK
<1>2. f \in RunRecord /\ f.acct = run[r].acct /\ f.mode = run[r].mode /\ f.at = "imported"
  <2>1. run[r].acct \in Accounts /\ run[r].mode \in ModeNames
    BY <1>1 DEF RunRecord, ModeNames
  <2>2. "imported" \in RunStep
    BY DEF RunStep
  <2>3. /\ Fresh(run[r].acct, run[r].mode, "imported") \in RunRecord
        /\ Fresh(run[r].acct, run[r].mode, "imported").acct = run[r].acct
        /\ Fresh(run[r].acct, run[r].mode, "imported").mode = run[r].mode
        /\ Fresh(run[r].acct, run[r].mode, "imported").at = "imported"
    BY <2>1, <2>2, FreshType
  <2> QED BY <2>3
<1>3. /\ x \in RunRecord /\ x.at = "imported"
      /\ x.acct = run[r].acct /\ x.mode = run[r].mode
      /\ x.clean = run[r].clean /\ x.skipped = run[r].skipped /\ x.sound = run[r].sound
  <2> HIDE DEF f
  <2> QED BY <1>1, <1>2 DEF RunRecord
<1>4. Imports(r) = [run EXCEPT ![r] = x]
    BY DEF Imports
<1> HIDE DEF x
<1> QED BY <1>3, <1>4 DEF TypeOK

\* A disturbance takes the clean flag of an account's runs and nothing else.
LEMMA DisturbFields ==
    ASSUME TypeOK, NEW a \in Accounts
    PROVE  /\ Disturb(a) \in [Runs -> RunRecord]
           /\ \A s \in Runs :
                /\ run[s].acct # a => Disturb(a)[s] = run[s]
                /\ run[s].acct = a => Disturb(a)[s] = [run[s] EXCEPT !.clean = FALSE]
                /\ run[s].acct = a => Disturb(a)[s].clean = FALSE
                /\ Disturb(a)[s].at = run[s].at /\ Disturb(a)[s].acct = run[s].acct
                /\ Disturb(a)[s].mode = run[s].mode /\ Disturb(a)[s].page = run[s].page
                /\ Disturb(a)[s].owned = run[s].owned
<1> SUFFICES ASSUME NEW s \in Runs
             PROVE  /\ Disturb(a)[s] \in RunRecord
                    /\ run[s].acct # a => Disturb(a)[s] = run[s]
                    /\ run[s].acct = a => Disturb(a)[s] = [run[s] EXCEPT !.clean = FALSE]
                    /\ run[s].acct = a => Disturb(a)[s].clean = FALSE
                    /\ Disturb(a)[s].at = run[s].at /\ Disturb(a)[s].acct = run[s].acct
                    /\ Disturb(a)[s].mode = run[s].mode /\ Disturb(a)[s].page = run[s].page
                /\ Disturb(a)[s].owned = run[s].owned
    BY DEF Disturb
<1>1. run[s] \in RunRecord
    BY DEF TypeOK
<1>2. Disturb(a)[s] = IF run[s].acct = a THEN [run[s] EXCEPT !.clean = FALSE] ELSE run[s]
    BY DEF Disturb
<1>3. CASE run[s].acct = a
  <2>1. Disturb(a)[s] = [run[s] EXCEPT !.clean = FALSE]
    BY <1>2, <1>3
  <2> DEFINE x == [run[s] EXCEPT !.clean = FALSE]
  <2>2. /\ x \in RunRecord /\ x.clean = FALSE /\ x.at = run[s].at /\ x.acct = run[s].acct
        /\ x.mode = run[s].mode /\ x.page = run[s].page /\ x.owned = run[s].owned
    BY <1>1 DEF RunRecord
  <2>3. Disturb(a)[s] = x
    BY <2>1
  <2> QED BY <1>3, <2>1, <2>2, <2>3
<1>4. CASE run[s].acct # a
    BY <1>1, <1>2, <1>4
<1> QED BY <1>3, <1>4

-----------------------------------------------------------------------------
(* The invariant *)

\* As long as no run of an account was evicted, at most one is left, and the
\* entry is running while it is.
Slot(a) ==
    ~evicted[a] =>
        /\ \A r, s \in Living(a) : r = s
        /\ Living(a) # {} => job[a] = "running"

\* The order of the steps of a run x.
ShapeOf(x) ==
    /\ x.at \in {"starting", "counted", "dropping", "loading"} => x.page = 1 /\ x.owned = {}
    /\ x.at = "counted" => x.mode # "sync"
    /\ x.at = "dropping" => x.mode = "full"
    /\ x.at = "loading" => x.mode = "incremental"
    /\ x.at \in {"fetching", "saving", "imported"} => x.mode # "auto"

\* The favourites of the first k pages are known.
Saved(s, known, k) == \A j \in DOMAIN s : PageOf(j) < k => s[j] \in known

PagesOf(mode, n) ==
    IF mode = "sync" THEN Capped(n \div PageSize + 1, SyncCap)
    ELSE Capped(PagesNeeded(n), FullCap)

ReachableBy(x) ==
    LET n == Len(remote[x.acct])
    IN  CASE x.mode = "full" -> n <= FullCap * PageSize
          [] x.mode = "incremental" -> n <= IncrementalCap * PageSize
          [] OTHER -> n < SyncCap * PageSize

\* How far an undisturbed run x that skipped no page has come.
ProgressOf(x) ==
    LET s == remote[x.acct]
        known == lib[x.acct]
    IN  x.at # "idle" /\ x.clean /\ ~x.skipped =>
            /\ x.mode # "sync" => recent[x.acct] = {s}
            /\ x.at \in {"counted", "dropping", "fetching", "saving"} /\ x.mode # "incremental" =>
                 x.pages = PagesOf(x.mode, Len(s))
            /\ x.at \in {"fetching", "saving"} => Saved(s, known, x.page - 1) /\ x.owned \subseteq known
            /\ x.at = "saving" => x.got = Page(s, x.page)
            /\ x.at \in {"fetching", "saving"} /\ x.mode = "incremental" /\ x.sound =>
                 Gapless(s, x.owned)
            /\ x.at = "imported" /\ ReachableBy(x) /\ (x.mode = "incremental" => x.sound) =>
                 Listed(s) \subseteq known

RunInv == \A r \in Runs : ShapeOf(run[r]) /\ ProgressOf(run[r])

IInv == TypeOK /\ (\A a \in Accounts : Slot(a)) /\ RunInv

LEMMA InitIInv == Init => IInv
<1> SUFFICES ASSUME Init PROVE IInv
    OBVIOUS
<1>1. \A a \in Accounts : Slot(a)
    BY IdleType DEF Init, Slot, Living
<1>2. RunInv
    BY IdleType DEF Init, RunInv, ShapeOf, ProgressOf
<1> QED BY <1>1, <1>2, InitType DEF IInv

-----------------------------------------------------------------------------
(* What saving page after page amounts to *)

LEMMA PageIs == \A s, k : Page(s, k) = {s[i] : i \in {j \in DOMAIN s : PageOf(j) = k - 1}}
BY DEF Page, PageOf

LEMMA PageOfSeq ==
    ASSUME NEW s \in Seq(Posts), NEW i \in DOMAIN s
    PROVE  i \in Nat \ {0} /\ i \in 1..Len(s) /\ Len(s) \in Nat /\ PageOf(i) \in Nat
<1>1. i \in 1..Len(s) /\ Len(s) \in Nat
    OBVIOUS
<1>2. i \in Nat \ {0}
    BY <1>1
<1> QED BY <1>1, <1>2, PageOfNat

LEMMA NothingToSave ==
    ASSUME NEW s \in Seq(Posts), NEW known
    PROVE  Saved(s, known, 0)
BY PageOfSeq DEF Saved

LEMMA SavedNext ==
    ASSUME NEW s \in Seq(Posts), NEW known, NEW k \in Nat \ {0},
           Saved(s, known, k - 1), Page(s, k) \subseteq known
    PROVE  Saved(s, known, k)
<1> SUFFICES ASSUME NEW j \in DOMAIN s, PageOf(j) < k PROVE s[j] \in known
    BY DEF Saved
<1>0. PageOf(j) \in Nat
    BY PageOfSeq
<1>1. PageOf(j) < k - 1 \/ PageOf(j) = k - 1
    BY <1>0
<1> QED BY <1>1, PageIs DEF Saved

\* Everything is saved once every page up to the last one is.
LEMMA AllPages ==
    ASSUME NEW s \in Seq(Posts), NEW known, NEW k \in Nat, NEW m \in Nat,
           Saved(s, known, k), Len(s) <= PageSize * m, m <= k
    PROVE  Listed(s) \subseteq known
<1> SUFFICES ASSUME NEW j \in DOMAIN s PROVE s[j] \in known
    BY DEF Listed
<1>1. PageOf(j) < m /\ PageOf(j) \in Nat
    BY PageOfSeq, WithinBound
<1> QED BY <1>1 DEF Saved

\* Everything is saved once a page is empty.
LEMMA EmptyPage ==
    ASSUME NEW s \in Seq(Posts), NEW known, NEW k \in Nat \ {0},
           Saved(s, known, k - 1), Page(s, k) = {}
    PROVE  Listed(s) \subseteq known
<1> SUFFICES ASSUME NEW j \in DOMAIN s PROVE s[j] \in known
    BY DEF Listed
<1>1. ASSUME ~(PageOf(j) < k - 1) PROVE FALSE
  <2> DEFINE i == PageSize * (k - 1) + 1
  <2>1. i \in 1..j /\ PageOf(i) = k - 1
    BY <1>1, PageOfSeq, PageBefore
  <2>2. i \in DOMAIN s
    <3>1. j \in 1..Len(s) /\ Len(s) \in Nat /\ DOMAIN s = 1..Len(s)
        BY PageOfSeq
    <3> HIDE DEF i
    <3> QED BY <2>1, <3>1
  <2> HIDE DEF i
  <2>3. s[i] \in Page(s, k)
    BY <2>1, <2>2, PageIs
  <2> QED BY <2>3
<1> QED BY <1>1 DEF Saved

LEMMA PageOfMono ==
    ASSUME NEW i \in Nat \ {0}, NEW j \in 1..i
    PROVE  PageOf(j) <= PageOf(i)
<1> DEFINE m == i - 1
           l == j - 1
           q == m \div PageSize
<1>1. m \in Nat /\ l \in Nat /\ l <= m
    OBVIOUS
<1>2. q \in Nat /\ m = PageSize * q + (m % PageSize) /\ m % PageSize \in 0..(PageSize - 1)
    BY <1>1, SizeOK, DivMod
<1>3. PageSize * q \in Nat /\ PageSize * (q + 1) = PageSize * q + PageSize
  <2> HIDE DEF q
  <2> QED BY <1>2, SizeOK
<1>4. l < PageSize * (q + 1)
    BY <1>1, <1>2, <1>3, SizeOK
<1>5. l \div PageSize < q + 1
  <2>1. l \in Nat /\ q + 1 \in Nat
    BY <1>1, <1>2
  <2> HIDE DEF q, l
  <2> QED BY <1>4, <2>1, SizeOK, DivLess
<1>6. l \div PageSize \in Nat
    BY <1>1, SizeOK, DivMod
<1> QED BY <1>2, <1>5, <1>6 DEF PageOf

\* Everything is saved once a page overlaps a library without gaps.
LEMMA OverlapEnds ==
    ASSUME NEW s \in Seq(Posts), NEW known, NEW owned, NEW k \in Nat \ {0},
           Saved(s, known, k), Gapless(s, owned), owned \subseteq known,
           Page(s, k) \cap owned # {}
    PROVE  Listed(s) \subseteq known
<1>1. PICK i \in DOMAIN s : PageOf(i) = k - 1 /\ s[i] \in owned
    BY PageIs
<1> SUFFICES ASSUME NEW j \in DOMAIN s PROVE s[j] \in known
    BY DEF Listed
<1>2. CASE i < j
    BY <1>1, <1>2 DEF Gapless
<1>3. CASE ~(i < j)
  <2>1. j \in 1..i
    BY <1>3, PageOfSeq
  <2>2. PageOf(j) < k
    BY <1>1, <2>1, PageOfMono, PageOfSeq
  <2> QED BY <2>2 DEF Saved
<1> QED BY <1>2, <1>3

-----------------------------------------------------------------------------
(* Steps *)

\* What a run knows stays true while its account's favourites do not change
\* and its library does not shrink.
LEMMA ProgressKept ==
    ASSUME NEW x \in RunRecord, ProgressOf(x),
           remote'[x.acct] = remote[x.acct],
           recent'[x.acct] \in {recent[x.acct], {remote[x.acct]}},
           lib[x.acct] \subseteq lib'[x.acct]
    PROVE  ProgressOf(x)'
<1>1. \A k : Saved(remote[x.acct], lib[x.acct], k) => Saved(remote[x.acct], lib'[x.acct], k)
    BY DEF Saved
<1>2. ReachableBy(x)' = ReachableBy(x)
    BY DEF ReachableBy
<1> QED BY <1>1, <1>2 DEF ProgressOf

\* One run goes on to x.
LEMMA GoOn ==
    ASSUME IInv, NEW r \in Runs, NEW x \in RunRecord,
           run' = [run EXCEPT ![r] = x],
           run[r].at # "idle", x.at # "idle", x.acct = run[r].acct,
           x.mode = "sync" <=> run[r].mode = "sync",
           UNCHANGED <<remote, recent, changes, job, evicted>>,
           lib' \in [Accounts -> SUBSET Posts], \A a \in Accounts : lib[a] \subseteq lib'[a],
           ShapeOf(x), ProgressOf(x)'
    PROVE  IInv'
<1>1. TypeOK'
    BY DEF IInv, TypeOK
<1>2. run'[r] = x /\ \A s \in Runs \ {r} : run'[s] = run[s]
    BY DEF IInv, TypeOK
<1>3. \A a \in Accounts : Living(a)' = Living(a)
    BY <1>2 DEF Living
<1>4. \A a \in Accounts : Slot(a)'
    BY <1>3 DEF IInv, Slot
<1>5. ASSUME NEW s \in Runs PROVE (ShapeOf(run[s]) /\ ProgressOf(run[s]))'
  <2>1. CASE s = r
    BY <1>2, <2>1 DEF ShapeOf, ProgressOf, ReachableBy
  <2>2. CASE s # r
    <3>1. run[s] \in RunRecord /\ run[s].acct \in Accounts
        BY DEF IInv, TypeOK, RunRecord
    <3>2. ShapeOf(run[s]) /\ ProgressOf(run[s])
        BY DEF IInv, RunInv
    <3> DEFINE y == run[s]
    <3>3. run'[s] = y
        BY <1>2, <2>2
    <3> HIDE DEF y
    <3>4. ProgressOf(y)'
        BY <3>1, <3>2, ProgressKept DEF y
    <3> QED BY <3>2, <3>3, <3>4 DEF y, ShapeOf, ProgressOf, ReachableBy
  <2> QED BY <2>1, <2>2
<1> QED BY <1>1, <1>4, <1>5 DEF IInv, RunInv

\* Runs that stay as they are keep what they know.
LEMMA OthersKept ==
    ASSUME IInv, NEW S \in SUBSET Runs, \A s \in S : run'[s] = run[s],
           \A s \in S : LET a == run[s].acct
                       IN  /\ remote'[a] = remote[a]
                           /\ recent'[a] \in {recent[a], {remote[a]}}
                           /\ lib[a] \subseteq lib'[a]
    PROVE  \A s \in S : (ShapeOf(run[s]) /\ ProgressOf(run[s]))'
<1> SUFFICES ASSUME NEW s \in S PROVE (ShapeOf(run[s]) /\ ProgressOf(run[s]))'
    OBVIOUS
<1>0. run[s] \in RunRecord
    BY DEF IInv, TypeOK
<1> PICK y \in RunRecord : y = run[s]
    BY <1>0
<1>1. run'[s] = y /\ ShapeOf(y) /\ ProgressOf(y)
    BY DEF IInv, RunInv
<1>2. /\ remote'[y.acct] = remote[y.acct]
      /\ recent'[y.acct] \in {recent[y.acct], {remote[y.acct]}}
      /\ lib[y.acct] \subseteq lib'[y.acct]
    OBVIOUS
<1>3. ProgressOf(y)'
    BY <1>1, <1>2, ProgressKept
<1> QED BY <1>1, <1>3 DEF ShapeOf, ProgressOf, ReachableBy

\* A run is over, and its entry may say so.
LEMMA RunEnds ==
    ASSUME IInv, NEW r \in Runs, run[r].at # "idle",
           run' = [run EXCEPT ![r] = Idle],
           UNCHANGED <<remote, recent, changes, lib, evicted>>,
           job' \in [Accounts -> JobPhase],
           \A a \in Accounts : a # run[r].acct => job'[a] = job[a],
           run[r].mode = "sync" => job' = job
    PROVE  IInv'
<1>1. TypeOK'
    BY IdleType DEF IInv, TypeOK
<1>2. run'[r] = Idle /\ \A s \in Runs \ {r} : run'[s] = run[s]
    BY DEF IInv, TypeOK
<1>3. \A a \in Accounts : Living(a)' = Living(a) \ {r}
    BY <1>2, IdleType DEF Living
<1>4. ASSUME NEW a \in Accounts PROVE Slot(a)'
  <2>1. CASE r \in Living(a)
    BY <1>3, <2>1 DEF IInv, Slot
  <2>2. CASE r \notin Living(a)
    <3>1. a # run[r].acct \/ run[r].mode = "sync"
        BY <2>2 DEF Living
    <3>2. job'[a] = job[a] /\ Living(a)' = Living(a)
        BY <1>3, <2>2, <3>1
    <3> QED BY <3>2 DEF IInv, Slot
  <2> QED BY <2>1, <2>2
<1>5. \A s \in Runs \ {r} : (ShapeOf(run[s]) /\ ProgressOf(run[s]))'
    BY <1>2, OthersKept
<1>6. (ShapeOf(run[r]) /\ ProgressOf(run[r]))'
    BY <1>2, IdleType DEF ShapeOf, ProgressOf
<1> QED BY <1>1, <1>4, <1>5, <1>6 DEF IInv, RunInv

LEMMA FinishStep ==
    ASSUME IInv, NEW r \in Runs, NEW phase \in JobPhase, run[r].at # "idle", Finish(r, phase)
    PROVE  IInv'
<1>1. job' \in [Accounts -> JobPhase]
    BY DEF Finish, IInv, TypeOK
<1>2. \A a \in Accounts : a # run[r].acct => job'[a] = job[a]
    BY DEF Finish, IInv, TypeOK
<1>3. run[r].mode = "sync" => job' = job
    BY DEF Finish
<1>4. /\ run' = [run EXCEPT ![r] = Idle]
      /\ UNCHANGED <<remote, recent, changes, lib, evicted>>
    BY DEF Finish
<1> QED BY <1>1, <1>2, <1>3, <1>4, RunEnds

LEMMA DieStep == ASSUME IInv, NEW r \in Runs, Die(r) PROVE IInv'
<1>1. job' = job /\ job' \in [Accounts -> JobPhase]
    BY DEF Die, IInv, TypeOK
<1> QED BY <1>1, RunEnds DEF Die

LEMMA CrashStep == ASSUME IInv, Crash PROVE IInv'
<1>1. run' \in [Runs -> RunRecord] /\ \A r \in Runs : run'[r] = Idle
    BY IdleType DEF Crash
<1>2. TypeOK'
    BY <1>1 DEF Crash, IInv, TypeOK, JobPhase
<1>3. \A a \in Accounts : Slot(a)'
    BY <1>1, IdleType DEF Crash, Slot, Living
<1>4. RunInv'
    BY <1>1, IdleType DEF RunInv, ShapeOf, ProgressOf
<1> QED BY <1>2, <1>3, <1>4 DEF IInv

LEMMA PruneJobStep == ASSUME IInv, NEW a \in Accounts, PruneJob(a) PROVE IInv'
<1>1. TypeOK'
    BY DEF PruneJob, IInv, TypeOK, JobPhase
<1>2. \A b \in Accounts : Living(b)' = Living(b)
    BY DEF PruneJob, Living
<1>3. ASSUME NEW b \in Accounts PROVE Slot(b)'
  <2>1. CASE b = a
    <3>1. evicted'[a] = (evicted[a] \/ (job[a] = "running" /\ Living(a) # {}))
        BY DEF PruneJob, IInv, TypeOK
    <3>2. ~evicted'[a] => Living(a) = {}
        BY <3>1 DEF IInv, Slot
    <3> QED BY <1>2, <2>1, <3>2 DEF Slot
  <2>2. CASE b # a
    <3>1. job'[b] = job[b] /\ evicted'[b] = evicted[b]
        BY <2>2 DEF PruneJob, IInv, TypeOK
    <3> QED BY <1>2, <3>1 DEF IInv, Slot
  <2> QED BY <2>1, <2>2
<1>4. RunInv'
    BY OthersKept DEF PruneJob, RunInv
<1> QED BY <1>1, <1>3, <1>4 DEF IInv

-----------------------------------------------------------------------------
(* A run begins *)

LEMMA BeginKeeps ==
    ASSUME IInv, NEW r \in Runs, NEW x \in RunRecord,
           x.at = "starting", x.page = 1, x.owned = {}, x.clean = FALSE,
           run[r].at = "idle", run' = [run EXCEPT ![r] = x],
           UNCHANGED <<remote, recent, changes, lib>>
    PROVE  /\ run' \in [Runs -> RunRecord]
           /\ RunInv'
           /\ \A a \in Accounts :
                Living(a)' = IF x.acct = a /\ x.mode # "sync" THEN Living(a) \cup {r} ELSE Living(a)
<1>1. run'[r] = x /\ \A s \in Runs \ {r} : run'[s] = run[s]
    BY DEF IInv, TypeOK
<1>2. run' \in [Runs -> RunRecord]
    BY DEF IInv, TypeOK
<1>3. \A s \in Runs \ {r} : (ShapeOf(run[s]) /\ ProgressOf(run[s]))'
    BY <1>1, OthersKept
<1>4. (ShapeOf(run[r]) /\ ProgressOf(run[r]))'
    BY <1>1 DEF ShapeOf, ProgressOf
<1>5. \A a \in Accounts :
        Living(a)' = IF x.acct = a /\ x.mode # "sync" THEN Living(a) \cup {r} ELSE Living(a)
    BY <1>1 DEF Living
<1> QED BY <1>2, <1>3, <1>4, <1>5 DEF RunInv

LEMMA StartStep == ASSUME IInv, NEW r \in Runs, NEW a \in Accounts, Start(r, a) PROVE IInv'
<1>1. PICK mode \in Modes \ {"sync"} : run' = [run EXCEPT ![r] = Fresh(a, mode, "starting")]
    BY DEF Start
<1> DEFINE x == Fresh(a, mode, "starting")
<1>2. mode \in ModeNames /\ "starting" \in RunStep
    BY DEF ModeNames, RunStep
<1>3. /\ x \in RunRecord /\ x.at = "starting" /\ x.page = 1 /\ x.clean = FALSE /\ x.owned = {}
      /\ x.acct = a /\ x.mode = mode
    BY <1>2, FreshType
<1> HIDE DEF x
<1>4. /\ run[r].at = "idle" /\ run' = [run EXCEPT ![r] = x]
      /\ UNCHANGED <<remote, recent, changes, lib>>
      /\ job' = [job EXCEPT ![a] = "running"] /\ job[a] # "running"
      /\ evicted' = [evicted EXCEPT ![a] = @ /\ Living(a) # {}]
    BY <1>1 DEF x, Start, Claimable
<1>5. /\ run' \in [Runs -> RunRecord] /\ RunInv'
      /\ \A b \in Accounts :
           Living(b)' = IF x.acct = b /\ x.mode # "sync" THEN Living(b) \cup {r} ELSE Living(b)
    BY <1>3, <1>4, BeginKeeps
<1>5a. /\ Living(a)' = Living(a) \cup {r}
       /\ \A b \in Accounts : b # a => Living(b)' = Living(b)
    BY <1>3, <1>5
<1>6. TypeOK'
    BY <1>4, <1>5 DEF IInv, TypeOK, JobPhase
<1>7. ASSUME NEW b \in Accounts PROVE Slot(b)'
  <2>1. CASE b = a
    <3>1. job'[a] = "running" /\ evicted'[a] = (evicted[a] /\ Living(a) # {})
        BY <1>4 DEF IInv, TypeOK
    <3>2. ~evicted'[a] => Living(a) = {}
        BY <1>4, <3>1 DEF IInv, Slot
    <3>3. ~evicted'[a] => Living(a)' = {r}
        BY <1>5a, <3>2
    <3> QED BY <2>1, <3>1, <3>3 DEF Slot
  <2>2. CASE b # a
    <3>1. job'[b] = job[b] /\ evicted'[b] = evicted[b] /\ Living(b)' = Living(b)
        BY <1>4, <1>5a, <2>2 DEF IInv, TypeOK
    <3> QED BY <3>1 DEF IInv, Slot
  <2> QED BY <2>1, <2>2
<1> QED BY <1>5, <1>6, <1>7 DEF IInv

LEMMA StartSyncStep ==
    ASSUME IInv, NEW r \in Runs, NEW a \in Accounts, StartSync(r, a)
    PROVE  IInv'
<1> DEFINE x == Fresh(a, "sync", "starting")
<1>2. "sync" \in ModeNames /\ "starting" \in RunStep
    BY DEF ModeNames, RunStep
<1>3. /\ x \in RunRecord /\ x.at = "starting" /\ x.page = 1 /\ x.clean = FALSE /\ x.owned = {}
      /\ x.acct = a /\ x.mode = "sync"
    BY <1>2, FreshType
<1>4. run[r].at = "idle" /\ run' = [run EXCEPT ![r] = x]
    BY DEF StartSync
<1> HIDE DEF x
<1>5. UNCHANGED <<remote, recent, changes, lib, job, evicted>>
    BY DEF StartSync
<1>6. /\ run' \in [Runs -> RunRecord] /\ RunInv'
      /\ \A b \in Accounts : Living(b)' = Living(b)
    BY <1>3, <1>4, <1>5, BeginKeeps
<1>7. TypeOK'
    BY <1>5, <1>6 DEF IInv, TypeOK
<1>8. \A b \in Accounts : Slot(b)'
    BY <1>5, <1>6 DEF IInv, Slot
<1> QED BY <1>6, <1>7, <1>8 DEF IInv

-----------------------------------------------------------------------------
(* Upstream *)

LEMMA DisturbKeeps ==
    ASSUME IInv, NEW a \in Accounts, NEW d \in [Runs -> RunRecord],
           \A s \in Runs :
               /\ run[s].acct # a => d[s] = run[s]
               /\ run[s].acct = a => d[s].clean = FALSE
               /\ d[s].at = run[s].at /\ d[s].acct = run[s].acct
               /\ d[s].mode = run[s].mode /\ d[s].page = run[s].page
               /\ d[s].owned = run[s].owned,
           run' = d, UNCHANGED <<job, evicted>>,
           \A b \in Accounts : b # a =>
               remote'[b] = remote[b] /\ recent'[b] = recent[b] /\ lib[b] \subseteq lib'[b]
    PROVE  RunInv' /\ \A b \in Accounts : Slot(b)'
<1>1. \A b \in Accounts : Living(b)' = Living(b)
    BY DEF Living
<1>2. \A b \in Accounts : Slot(b)'
    BY <1>1 DEF IInv, Slot
<1> DEFINE S == {s \in Runs : run[s].acct # a}
<1>3. \A s \in Runs : run[s].acct \in Accounts
    BY DEF IInv, TypeOK, RunRecord
<1>3a. /\ S \in SUBSET Runs /\ \A s \in S : run'[s] = run[s]
       /\ \A s \in S : LET b == run[s].acct
                      IN  /\ remote'[b] = remote[b]
                          /\ recent'[b] \in {recent[b], {remote[b]}}
                          /\ lib[b] \subseteq lib'[b]
    BY <1>3
<1>4. \A s \in S : (ShapeOf(run[s]) /\ ProgressOf(run[s]))'
  <2> HIDE DEF S
  <2> QED BY <1>3a, OthersKept
<1>5. \A s \in Runs \ S : (ShapeOf(run[s]) /\ ProgressOf(run[s]))'
    BY DEF IInv, RunInv, ShapeOf, ProgressOf
<1> QED BY <1>2, <1>4, <1>5 DEF RunInv

LEMMA BecomesStep ==
    ASSUME IInv, NEW a \in Accounts, NEW s \in Seq(Posts), Becomes(a, s)
    PROVE  IInv'
<1>0. TypeOK
    BY DEF IInv
<1>1. run' = Disturb(a) /\ Disturb(a) \in [Runs -> RunRecord]
    BY <1>0, DisturbFields DEF Becomes
<1>2. TypeOK'
    BY <1>1 DEF Becomes, IInv, TypeOK
<1>3. \A b \in Accounts : b # a =>
        remote'[b] = remote[b] /\ recent'[b] = recent[b] /\ lib[b] \subseteq lib'[b]
    BY DEF Becomes, IInv, TypeOK
<1> PICK d \in [Runs -> RunRecord] : d = Disturb(a)
    BY <1>1
<1>3a. \A u \in Runs :
         /\ run[u].acct # a => d[u] = run[u]
         /\ run[u].acct = a => d[u].clean = FALSE
         /\ d[u].at = run[u].at /\ d[u].acct = run[u].acct
         /\ d[u].mode = run[u].mode /\ d[u].page = run[u].page
         /\ d[u].owned = run[u].owned
    BY <1>0, DisturbFields
<1>3b. run' = d /\ UNCHANGED <<job, evicted>>
    BY <1>1 DEF Becomes
<1>4. RunInv' /\ \A b \in Accounts : Slot(b)'
    BY <1>3, <1>3a, <1>3b, DisturbKeeps
<1> QED BY <1>2, <1>4 DEF IInv

LEMMA FavouriteStep == ASSUME IInv, NEW a \in Accounts, Favourite(a) PROVE IInv'
<1>1. PICK p \in Posts : Becomes(a, <<p>> \o remote[a])
    BY DEF Favourite
<1>2. <<p>> \o remote[a] \in Seq(Posts)
    BY DEF IInv, TypeOK
<1> QED BY <1>1, <1>2, BecomesStep

LEMMA UnfavouriteStep == ASSUME IInv, NEW a \in Accounts, Unfavourite(a) PROVE IInv'
<1>1. PICK i \in DOMAIN remote[a] :
        Becomes(a, SubSeq(remote[a], 1, i - 1) \o SubSeq(remote[a], i + 1, Len(remote[a])))
    BY DEF Unfavourite
<1>2. remote[a] \in Seq(Posts) /\ i \in 1..Len(remote[a])
    BY DEF IInv, TypeOK
<1>3. /\ SubSeq(remote[a], 1, i - 1) \in Seq(Posts)
      /\ SubSeq(remote[a], i + 1, Len(remote[a])) \in Seq(Posts)
    BY <1>2, SubSeqProperties
<1>4. SubSeq(remote[a], 1, i - 1) \o SubSeq(remote[a], i + 1, Len(remote[a])) \in Seq(Posts)
    BY <1>3
<1> QED BY <1>1, <1>4, BecomesStep

LEMMA ResponsesExpireStep == ASSUME IInv, NEW a \in Accounts, ResponsesExpire(a) PROVE IInv'
<1>1. TypeOK'
    BY DEF ResponsesExpire, IInv, TypeOK
<1>2. \A b \in Accounts : Slot(b)'
    BY DEF ResponsesExpire, IInv, Slot, Living
<1>3. \A b \in Accounts : recent'[b] \in {recent[b], {remote[b]}}
    BY DEF ResponsesExpire, IInv, TypeOK
<1>4. \A s \in Runs : run[s].acct \in Accounts
    BY DEF IInv, TypeOK, RunRecord
<1>5. RunInv'
    BY <1>3, <1>4, OthersKept DEF ResponsesExpire, RunInv
<1> QED BY <1>1, <1>2, <1>5 DEF IInv

-----------------------------------------------------------------------------
(* The steps of a run *)

\* One run goes on to x, and the library stays as it is.
LEMMA GoOnStill ==
    ASSUME IInv, NEW r \in Runs, NEW x \in RunRecord,
           run' = [run EXCEPT ![r] = x],
           run[r].at # "idle", x.at # "idle", x.acct = run[r].acct,
           x.mode = "sync" <=> run[r].mode = "sync",
           UNCHANGED <<remote, recent, changes, lib, job, evicted>>,
           ShapeOf(x), ProgressOf(x)
    PROVE  IInv'
<1>1. ProgressOf(x)'
    BY ProgressKept
<1>2. lib' \in [Accounts -> SUBSET Posts]
    BY DEF IInv, TypeOK
<1> QED BY <1>1, <1>2, GoOn

LEMMA AnswersType ==
    ASSUME IInv, NEW r \in Runs
    PROVE  /\ run[r] \in RunRecord /\ run[r].acct \in Accounts
           /\ remote[run[r].acct] \in Seq(Posts) /\ lib[run[r].acct] \in SUBSET Posts
           /\ Answers(r) \subseteq Seq(Posts)
           /\ ShapeOf(run[r]) /\ ProgressOf(run[r])
<1>1. run[r] \in RunRecord /\ run[r].acct \in Accounts
    BY DEF IInv, TypeOK, RunRecord
<1>2. /\ remote[run[r].acct] \in Seq(Posts) /\ recent[run[r].acct] \subseteq Seq(Posts)
      /\ lib[run[r].acct] \in SUBSET Posts
    BY <1>1 DEF IInv, TypeOK
<1> QED BY <1>1, <1>2 DEF Answers, IInv, RunInv

\* A run that is still clean is answered with the favourites as they are.
LEMMA CleanAnswers ==
    ASSUME IInv, NEW r \in Runs, NEW s \in Answers(r),
           run[r].at # "idle", run[r].clean, ~run[r].skipped
    PROVE  s = remote[run[r].acct]
BY AnswersType DEF Answers, ProgressOf

LEMMA PagesType ==
    ASSUME NEW n \in Nat, NEW mode
    PROVE  PagesOf(mode, n) \in Nat
BY PagesCover DEF PagesOf, Capped

LEMMA ReadAccountStep == ASSUME IInv, NEW r \in Runs, ReadAccount(r) PROVE IInv'
<1> DEFINE a == run[r].acct
           mode == run[r].mode
<1>0. /\ run[r] \in RunRecord /\ a \in Accounts /\ remote[a] \in Seq(Posts)
      /\ ShapeOf(run[r]) /\ run[r].at = "starting"
    BY AnswersType DEF ReadAccount
<1>1. PICK s \in Answers(r) :
        run' = [run EXCEPT
                ![r].favs = Len(s),
                ![r].pages = IF run[r].mode = "sync" THEN Capped(Len(s) \div PageSize + 1, SyncCap)
                             ELSE Capped(PagesNeeded(Len(s)), FullCap),
                ![r].clean = Answers(r) = {remote[a]},
                ![r].at = IF run[r].mode = "sync" THEN "fetching" ELSE "counted"]
    BY DEF ReadAccount
<1>2. s \in Seq(Posts) /\ Len(s) \in Nat
    BY AnswersType
<1>3. PagesOf(mode, Len(s)) \in Nat
    BY <1>2, PagesType
<1> DEFINE e == [run[r] EXCEPT !.favs = Len(s), !.pages = PagesOf(mode, Len(s)),
                               !.clean = (Answers(r) = {remote[a]}),
                               !.at = IF mode = "sync" THEN "fetching" ELSE "counted"]
<1>4. /\ e \in RunRecord /\ e.acct = a /\ e.mode = mode /\ e.page = run[r].page
      /\ e.pages = PagesOf(mode, Len(s)) /\ e.owned = run[r].owned /\ (e.clean => Answers(r) = {remote[a]})
      /\ e.at = IF mode = "sync" THEN "fetching" ELSE "counted"
    BY <1>0, <1>2, <1>3 DEF RunRecord, RunStep
<1>5. run' = [run EXCEPT ![r] = e]
    BY <1>1 DEF PagesOf, IInv, TypeOK
<1> HIDE DEF e
<1> PICK x \in RunRecord : x = e
    BY <1>4
<1>6. x.page = 1 /\ x.owned = {}
    BY <1>0, <1>4 DEF ShapeOf
<1>7. ShapeOf(x)
    BY <1>4, <1>6 DEF ShapeOf
<1>8. ProgressOf(x)
  <2> SUFFICES ASSUME x.clean PROVE ProgressOf(x)
    BY DEF ProgressOf
  <2>1. Answers(r) = {remote[a]} /\ s = remote[a]
    BY <1>4
  <2>2. mode # "sync" => recent[a] = {remote[a]}
    BY <2>1 DEF Answers
  <2>3. Saved(remote[a], lib[a], x.page - 1)
    BY <1>0, <1>6, NothingToSave
  <2>4. x.mode = "sync" => x.at # "saving" /\ x.at # "imported"
    BY <1>4
  <2>5. x.at \in {"fetching", "counted"} /\ (x.at = "fetching" => x.mode = "sync")
    BY <1>4
  <2>6. x.owned \subseteq lib[a]
    BY <1>6
  <2> QED BY <1>4, <2>1, <2>2, <2>3, <2>4, <2>5, <2>6 DEF ProgressOf
<1>9. UNCHANGED <<remote, recent, changes, lib, job, evicted>>
    BY DEF ReadAccount
<1> QED BY <1>0, <1>4, <1>5, <1>7, <1>8, <1>9, GoOnStill

LEMMA ChooseStep == ASSUME IInv, NEW r \in Runs, Choose(r) PROVE IInv'
<1>0. /\ run[r] \in RunRecord /\ run[r].at = "counted" /\ ShapeOf(run[r]) /\ ProgressOf(run[r])
      /\ UNCHANGED <<remote, recent, changes, lib, job, evicted>>
    BY AnswersType DEF Choose
<1>1. Resolved(r) \in {"full", "incremental"} /\ (run[r].mode # "auto" => Resolved(r) = run[r].mode)
    BY <1>0 DEF Resolved, ShapeOf, RunRecord
<1> DEFINE e == [run[r] EXCEPT !.mode = Resolved(r), !.favs = 0,
                               !.at = IF Resolved(r) = "full" THEN "dropping" ELSE "loading"]
<1>2. /\ e \in RunRecord /\ e.acct = run[r].acct /\ e.mode = Resolved(r) /\ e.page = run[r].page
      /\ e.pages = run[r].pages /\ e.clean = run[r].clean /\ e.skipped = run[r].skipped
      /\ e.owned = run[r].owned /\ e.at = IF Resolved(r) = "full" THEN "dropping" ELSE "loading"
    BY <1>0, <1>1 DEF RunRecord, RunStep
<1>3. run' = [run EXCEPT ![r] = e]
    BY DEF Choose, IInv, TypeOK
<1> HIDE DEF e
<1> PICK x \in RunRecord : x = e
    BY <1>2
<1>4. ShapeOf(x)
    BY <1>0, <1>1, <1>2 DEF ShapeOf
<1>5. ProgressOf(x)
    BY <1>0, <1>1, <1>2 DEF ShapeOf, ProgressOf, PagesOf
<1> QED BY <1>0, <1>1, <1>2, <1>3, <1>4, <1>5, GoOnStill DEF ShapeOf

LEMMA DropStep == ASSUME IInv, NEW r \in Runs, Drop(r) PROVE IInv'
<1> DEFINE a == run[r].acct
<1>0. /\ run[r] \in RunRecord /\ a \in Accounts /\ remote[a] \in Seq(Posts)
      /\ run[r].at = "dropping" /\ ShapeOf(run[r]) /\ ProgressOf(run[r])
      /\ UNCHANGED <<remote, recent, changes, job, evicted>>
      /\ lib' = [b \in Accounts |-> IF b = a THEN {} ELSE lib[b] \ ExclusivelyOwned(a)]
      /\ run' = [Disturb(a) EXCEPT ![r].clean = run[r].clean, ![r].at = "fetching"]
    BY AnswersType DEF Drop
<1>0a. TypeOK
    BY DEF IInv
<1>0b. /\ Disturb(a) \in [Runs -> RunRecord]
       /\ \A u \in Runs :
            /\ run[u].acct # a => Disturb(a)[u] = run[u]
            /\ run[u].acct = a => Disturb(a)[u] = [run[u] EXCEPT !.clean = FALSE]
            /\ run[u].acct = a => Disturb(a)[u].clean = FALSE
            /\ Disturb(a)[u].at = run[u].at /\ Disturb(a)[u].acct = run[u].acct
            /\ Disturb(a)[u].mode = run[u].mode /\ Disturb(a)[u].page = run[u].page
            /\ Disturb(a)[u].owned = run[u].owned
    BY <1>0, <1>0a, DisturbFields
<1> PICK d \in [Runs -> RunRecord] :
         /\ d = Disturb(a)
         /\ \A u \in Runs :
              /\ run[u].acct # a => d[u] = run[u]
              /\ run[u].acct = a => d[u] = [run[u] EXCEPT !.clean = FALSE]
              /\ run[u].acct = a => d[u].clean = FALSE
              /\ d[u].at = run[u].at /\ d[u].acct = run[u].acct
              /\ d[u].mode = run[u].mode /\ d[u].page = run[u].page /\ d[u].owned = run[u].owned
    BY <1>0b
<1> DEFINE e == [run[r] EXCEPT !.clean = FALSE]
           f == [e EXCEPT !.clean = run[r].clean, !.at = "fetching"]
<1>1. e \in RunRecord /\ d[r] = e
    BY <1>0 DEF RunRecord
<1>2. /\ f \in RunRecord /\ f.acct = a /\ f.mode = run[r].mode /\ f.page = run[r].page
      /\ f.pages = run[r].pages /\ f.clean = run[r].clean /\ f.skipped = run[r].skipped
      /\ f.owned = run[r].owned /\ f.at = "fetching"
    BY <1>0 DEF RunRecord, RunStep
<1>3. run' = [d EXCEPT ![r] = f]
  <2>1. run' = [d EXCEPT ![r].clean = run[r].clean, ![r].at = "fetching"]
    BY <1>0
  <2> HIDE DEF e
  <2> QED BY <1>1, <2>1
<1> HIDE DEF e, f
<1> PICK x \in RunRecord : x = f
    BY <1>2
<1>4. run'[r] = x /\ (\A u \in Runs \ {r} : run'[u] = d[u]) /\ run' \in [Runs -> RunRecord]
    BY <1>3
<1>5. \A b \in Accounts : b # a => lib[b] \subseteq lib'[b]
    BY <1>0 DEF ExclusivelyOwned
<1>6. lib' \in [Accounts -> SUBSET Posts]
    BY <1>0 DEF IInv, TypeOK
<1>7. TypeOK'
    BY <1>0, <1>4, <1>6 DEF IInv, TypeOK
<1>7a. ASSUME NEW u \in Runs
       PROVE  /\ run'[u].acct = run[u].acct /\ run'[u].mode = run[u].mode
              /\ run'[u].at = "idle" => run[u].at = "idle"
              /\ run[u].at = "idle" => run'[u].at = "idle"
  <2>1. CASE u = r
    <3>1. /\ run'[r].acct = run[r].acct /\ run'[r].mode = run[r].mode
          /\ run'[r].at = "fetching" /\ run[r].at = "dropping"
        BY <1>0, <1>2, <1>4
    <3> QED BY <2>1, <3>1
  <2>2. CASE u # r
    <3>1. /\ d[u].at = run[u].at /\ d[u].acct = run[u].acct /\ d[u].mode = run[u].mode
        BY <2>2
    <3>2. run'[u] = d[u]
        BY <1>4, <2>2
    <3> QED BY <3>1, <3>2
  <2> QED BY <2>1, <2>2
<1>8. \A b \in Accounts : Living(b)' = Living(b)
  <2>1. \A b \in Accounts, u \in Runs :
          (run'[u].acct = b /\ run'[u].mode # "sync" /\ run'[u].at # "idle")
            <=> (run[u].acct = b /\ run[u].mode # "sync" /\ run[u].at # "idle")
    BY <1>7a
  <2> QED BY <2>1 DEF Living
<1>9. \A b \in Accounts : Slot(b)'
    BY <1>0, <1>8 DEF IInv, Slot
<1>10. x.page = 1 /\ x.owned = {} /\ x.mode = "full"
    BY <1>0, <1>2 DEF ShapeOf
<1>11. (ShapeOf(run[r]) /\ ProgressOf(run[r]))'
  <2>1. ShapeOf(x)
    BY <1>2, <1>10 DEF ShapeOf
  <2>2. Saved(remote[a], lib'[a], x.page - 1)
    BY <1>0, <1>10, NothingToSave
  <2>3. ProgressOf(x)'
    BY <1>0, <1>2, <1>10, <2>2 DEF ProgressOf
  <2> QED BY <1>4, <2>1, <2>3 DEF ShapeOf, ProgressOf, ReachableBy
<1>12. ASSUME NEW u \in Runs, u # r, run[u].acct = a PROVE (ShapeOf(run[u]) /\ ProgressOf(run[u]))'
  <2>0. /\ d[u].clean = FALSE /\ d[u].at = run[u].at /\ d[u].mode = run[u].mode
        /\ d[u].page = run[u].page /\ d[u].owned = run[u].owned
    BY <1>12
  <2>1. run'[u] = d[u] /\ run'[u].clean = FALSE
    BY <1>4, <1>12, <2>0
  <2>1a. ShapeOf(run[u])
    BY DEF IInv, RunInv
  <2>2. ShapeOf(run'[u])
    BY <2>0, <2>1, <2>1a DEF ShapeOf
  <2> QED BY <2>1, <2>2 DEF ShapeOf, ProgressOf
<1>13. ASSUME NEW u \in Runs, u # r, run[u].acct # a PROVE (ShapeOf(run[u]) /\ ProgressOf(run[u]))'
  <2>1. run[u].acct \in Accounts /\ run'[u] = run[u]
    BY <1>4, <1>13 DEF IInv, TypeOK, RunRecord
  <2>2. /\ {u} \in SUBSET Runs /\ \A w \in {u} : run'[w] = run[w]
        /\ \A w \in {u} : LET b == run[w].acct
                         IN  /\ remote'[b] = remote[b]
                             /\ recent'[b] \in {recent[b], {remote[b]}}
                             /\ lib[b] \subseteq lib'[b]
    BY <1>0, <1>5, <1>13, <2>1
  <2>3. \A w \in {u} : (ShapeOf(run[w]) /\ ProgressOf(run[w]))'
    BY <2>2, OthersKept
  <2> QED BY <2>3
<1>14. RunInv'
    BY <1>11, <1>12, <1>13 DEF RunInv
<1> QED BY <1>7, <1>9, <1>14 DEF IInv

LEMMA BeginIncrementalStep == ASSUME IInv, NEW r \in Runs, BeginIncremental(r) PROVE IInv'
<1> DEFINE a == run[r].acct
<1>0. /\ run[r] \in RunRecord /\ a \in Accounts /\ remote[a] \in Seq(Posts) /\ lib[a] \in SUBSET Posts
      /\ run[r].at = "loading" /\ ShapeOf(run[r]) /\ ProgressOf(run[r])
      /\ UNCHANGED <<remote, recent, changes, lib, job, evicted>>
    BY AnswersType DEF BeginIncremental
<1>1. Gapless(remote[a], lib[a]) \in BOOLEAN
    BY DEF Gapless
<1> DEFINE e == [run[r] EXCEPT !.owned = lib[a], !.sound = Gapless(remote[a], lib[a]),
                               !.at = "fetching"]
<1>2. /\ e \in RunRecord /\ e.acct = a /\ e.mode = run[r].mode /\ e.page = run[r].page
      /\ e.clean = run[r].clean /\ e.skipped = run[r].skipped
      /\ e.owned = lib[a] /\ (e.sound => Gapless(remote[a], lib[a])) /\ e.at = "fetching"
    BY <1>0, <1>1 DEF RunRecord, RunStep
<1>3. run' = [run EXCEPT ![r] = e]
    BY DEF BeginIncremental, IInv, TypeOK
<1> HIDE DEF e
<1> PICK x \in RunRecord : x = e
    BY <1>2
<1>4. x.page = 1 /\ x.mode = "incremental"
    BY <1>0, <1>2 DEF ShapeOf
<1>5. ShapeOf(x)
    BY <1>2, <1>4 DEF ShapeOf
<1>6. Saved(remote[a], lib[a], x.page - 1)
    BY <1>0, <1>4, NothingToSave
<1>7. ProgressOf(x)
    BY <1>0, <1>2, <1>4, <1>6 DEF ProgressOf
<1> QED BY <1>0, <1>2, <1>3, <1>5, <1>7, GoOnStill

\* A run gets to the end of its loop, saving what it had fetched.
LEMMA ImportedWithStep ==
    ASSUME IInv, NEW r \in Runs, run' = Imports(r),
           run[r].at # "idle", run[r].mode # "auto",
           UNCHANGED <<remote, recent, changes, job, evicted>>,
           lib' \in [Accounts -> SUBSET Posts], \A a \in Accounts : lib[a] \subseteq lib'[a],
           run[r].clean /\ ~run[r].skipped /\ ReachableBy(run[r])
               /\ (run[r].mode = "incremental" => run[r].sound)
             => Listed(remote[run[r].acct]) \subseteq lib'[run[r].acct]
    PROVE  IInv'
<1> DEFINE e == Imports(r)[r]
<1>0. TypeOK /\ run[r] \in RunRecord /\ run[r].acct \in Accounts /\ ProgressOf(run[r])
    BY AnswersType DEF IInv
<1>1. /\ Imports(r) \in [Runs -> RunRecord]
      /\ \A s \in Runs \ {r} : Imports(r)[s] = run[s]
      /\ e.at = "imported" /\ e.acct = run[r].acct /\ e.mode = run[r].mode
      /\ e.clean = run[r].clean /\ e.skipped = run[r].skipped /\ e.sound = run[r].sound
    BY <1>0, ImportsFields
<1>2. run' = [run EXCEPT ![r] = e] /\ e \in RunRecord
    BY <1>0, <1>1 DEF TypeOK
<1> HIDE DEF e
<1> PICK x \in RunRecord : x = e
    BY <1>2
<1>3. ShapeOf(x)
    BY <1>1 DEF ShapeOf
<1>4. ReachableBy(x) = ReachableBy(run[r]) /\ ReachableBy(x)' = ReachableBy(x)
    BY <1>1 DEF ReachableBy
<1>5. ProgressOf(x)'
    BY <1>0, <1>1, <1>4 DEF ProgressOf
<1>6. /\ x.at # "idle" /\ x.acct = run[r].acct /\ x.mode = run[r].mode
      /\ run' = [run EXCEPT ![r] = x]
    BY <1>1, <1>2
<1>7. (x.mode = "sync") <=> (run[r].mode = "sync")
    BY <1>6
<1> QED BY <1>3, <1>5, <1>6, <1>7, GoOn

\* It gets there with nothing left to save.
LEMMA ImportedStep ==
    ASSUME IInv, NEW r \in Runs, run' = Imports(r),
           run[r].at = "fetching",
           UNCHANGED <<remote, recent, changes, lib, job, evicted>>,
           run[r].clean /\ ~run[r].skipped /\ ReachableBy(run[r])
               /\ (run[r].mode = "incremental" => run[r].sound)
             => Listed(remote[run[r].acct]) \subseteq lib[run[r].acct]
    PROVE  IInv'
<1>1. run[r].mode # "auto"
    BY AnswersType DEF ShapeOf
<1>2. lib' = lib /\ lib' \in [Accounts -> SUBSET Posts]
    BY DEF IInv, TypeOK
<1> QED BY <1>1, <1>2, ImportedWithStep

LEMMA FetchPageStep == ASSUME IInv, NEW r \in Runs, FetchPage(r) PROVE IInv'
<1> DEFINE a == run[r].acct
           k == run[r].page
<1>0. /\ run[r] \in RunRecord /\ a \in Accounts /\ remote[a] \in Seq(Posts)
      /\ run[r].at = "fetching" /\ ShapeOf(run[r]) /\ ProgressOf(run[r])
      /\ UNCHANGED <<remote, recent, changes, lib, job, evicted>>
    BY AnswersType DEF FetchPage
<1>1. PICK s \in Answers(r) :
        run' = IF Page(s, k) = {} /\ run[r].mode # "full" THEN Imports(r)
               ELSE [run EXCEPT ![r].got = Page(s, k), ![r].fails = 0, ![r].at = "saving"]
    BY DEF FetchPage
<1>2. s \in Seq(Posts) /\ k \in Nat \ {0}
    BY <1>0, AnswersType DEF RunRecord
<1>3. run[r].clean /\ ~run[r].skipped => s = remote[a] /\ Saved(s, lib[a], k - 1)
    BY <1>0, CleanAnswers DEF ProgressOf
<1>4. CASE Page(s, k) = {} /\ run[r].mode # "full"
  <2>1. run[r].clean /\ ~run[r].skipped => Listed(remote[a]) \subseteq lib[a]
    BY <1>2, <1>3, <1>4, EmptyPage
  <2>2. run' = Imports(r)
    BY <1>1, <1>4
  <2> QED BY <1>0, <2>1, <2>2, ImportedStep
<1>5. CASE ~(Page(s, k) = {} /\ run[r].mode # "full")
  <2>1. Page(s, k) \in SUBSET Posts
    BY <1>2 DEF Page
  <2> PICK g \in SUBSET Posts : g = Page(s, k)
    BY <2>1
  <2> DEFINE e == [run[r] EXCEPT !.got = g, !.fails = 0, !.at = "saving"]
  <2>2. /\ e \in RunRecord /\ e.acct = a /\ e.mode = run[r].mode /\ e.page = k
        /\ e.pages = run[r].pages /\ e.clean = run[r].clean /\ e.skipped = run[r].skipped
        /\ e.owned = run[r].owned /\ e.sound = run[r].sound /\ e.got = g
        /\ e.at = "saving"
    <3>1. 0 \in 0..MaxConsecutiveFailures - 1
      OBVIOUS
    <3> QED BY <1>0, <3>1 DEF RunRecord, RunStep
  <2>3. run' = [run EXCEPT ![r] = e]
    BY <1>1, <1>5 DEF IInv, TypeOK
  <2> HIDE DEF e
  <2> PICK x \in RunRecord : x = e
    BY <2>2
  <2>4. ShapeOf(x)
    BY <1>0, <2>2 DEF ShapeOf
  <2>5. ProgressOf(x)
    BY <1>0, <1>3, <2>2 DEF ProgressOf
  <2> QED BY <1>0, <2>2, <2>3, <2>4, <2>5, GoOnStill
<1> QED BY <1>4, <1>5

LEMMA PageFailsStep == ASSUME IInv, NEW r \in Runs, PageFails(r) PROVE IInv'
<1>0. /\ run[r] \in RunRecord /\ run[r].at = "fetching" /\ ShapeOf(run[r])
    BY AnswersType DEF PageFails
<1>1. CASE Finish(r, "failed")
    BY <1>0, <1>1, FinishStep DEF JobPhase
<1>2. CASE /\ run[r].mode # "sync" /\ ~TooMany(r)
           /\ run' = [run EXCEPT ![r].fails = @ + 1, ![r].page = @ + 1, ![r].skipped = TRUE]
           /\ UNCHANGED <<remote, recent, changes, lib, job, evicted>>
  <2>0. run[r].fails \in 0..MaxConsecutiveFailures - 1 /\ run[r].page \in Nat \ {0}
    BY <1>0 DEF RunRecord
  <2>0a. ~(run[r].fails + 1 >= MaxConsecutiveFailures)
    BY <1>2 DEF TooMany
  <2>1. run[r].fails + 1 \in 0..MaxConsecutiveFailures - 1 /\ run[r].page + 1 \in Nat \ {0}
    BY <2>0, <2>0a
  <2> PICK f \in 0..MaxConsecutiveFailures - 1, k \in Nat \ {0} :
           f = run[r].fails + 1 /\ k = run[r].page + 1
    BY <2>1
  <2> DEFINE e == [run[r] EXCEPT !.fails = f, !.page = k, !.skipped = TRUE]
  <2>2. /\ e \in RunRecord /\ e.acct = run[r].acct /\ e.mode = run[r].mode
        /\ e.skipped = TRUE /\ e.at = "fetching"
    BY <1>0, <2>1 DEF RunRecord
  <2>3. run' = [run EXCEPT ![r] = e]
    BY <1>2 DEF IInv, TypeOK
  <2> HIDE DEF e
  <2> PICK x \in RunRecord : x = e
    BY <2>2
  <2>4. ShapeOf(x) /\ ProgressOf(x)
    BY <1>0, <2>2 DEF ShapeOf, ProgressOf
  <2> QED BY <1>0, <1>2, <2>2, <2>3, <2>4, GoOnStill
<1> QED BY <1>1, <1>2 DEF PageFails

LEMMA SavePageStep == ASSUME IInv, NEW r \in Runs, SavePage(r) PROVE IInv'
<1> DEFINE a == run[r].acct
           k == run[r].page
           s == remote[a]
           known == lib[a] \cup (run[r].got \ run[r].owned)
<1>0. /\ run[r] \in RunRecord /\ a \in Accounts /\ remote[a] \in Seq(Posts)
      /\ run[r].at = "saving" /\ ShapeOf(run[r]) /\ ProgressOf(run[r])
      /\ UNCHANGED <<remote, recent, changes, job, evicted>>
      /\ lib' = [lib EXCEPT ![a] = @ \cup (run[r].got \ run[r].owned)]
    BY AnswersType DEF SavePage
<1>1. /\ k \in Nat \ {0} /\ run[r].got \in SUBSET Posts /\ run[r].owned \in SUBSET Posts
    BY <1>0 DEF RunRecord
<1>2. /\ lib' \in [Accounts -> SUBSET Posts] /\ \A b \in Accounts : lib[b] \subseteq lib'[b]
      /\ lib'[a] = known
    BY <1>0, <1>1 DEF IInv, TypeOK
<1>3. ASSUME run[r].clean, ~run[r].skipped
      PROVE  Page(s, k) = run[r].got /\ Saved(s, known, k - 1) /\ Saved(s, known, k)
  <2>1. /\ Page(s, k) = run[r].got /\ Saved(s, lib[a], k - 1)
        /\ run[r].owned \subseteq lib[a]
    BY <1>0, <1>3 DEF ProgressOf
  <2>2. Saved(s, known, k - 1)
    BY <2>1 DEF Saved
  <2>3. Saved(s, known, k)
    <3> HIDE DEF s, known, k
    <3>1. Page(s, k) \subseteq known
      BY <2>1 DEF known
    <3> QED BY <1>0, <1>1, <2>2, <3>1, SavedNext DEF s, k
  <2> QED BY <2>1, <2>2, <2>3
<1>4. CASE Overlaps(r)
  <2>1. run' = Imports(r) /\ run[r].mode = "incremental" /\ run[r].got \cap run[r].owned # {}
    BY <1>4 DEF SavePage, Overlaps
  <2>2. run[r].clean /\ ~run[r].skipped /\ run[r].sound => Listed(s) \subseteq known
    <3> SUFFICES ASSUME run[r].clean, ~run[r].skipped, run[r].sound PROVE Listed(s) \subseteq known
      OBVIOUS
    <3>1. Gapless(s, run[r].owned) /\ run[r].owned \subseteq known
      BY <1>0, <2>1 DEF ProgressOf
    <3>2. Saved(s, known, k) /\ Page(s, k) \cap run[r].owned # {}
      BY <1>3, <2>1
    <3> HIDE DEF s, known, k
    <3> QED BY <1>0, <1>1, <3>1, <3>2, OverlapEnds DEF s, k
  <2> QED BY <1>0, <1>2, <2>1, <2>2, ImportedWithStep
<1>5. CASE ~Overlaps(r)
  <2>1. k + 1 \in Nat \ {0}
    BY <1>1
  <2> PICK l \in Nat \ {0} : l = k + 1
    BY <2>1
  <2> DEFINE e == [run[r] EXCEPT !.page = l, !.got = {}, !.at = "fetching"]
  <2>2. /\ e \in RunRecord /\ e.acct = a /\ e.mode = run[r].mode /\ e.page = l
        /\ e.pages = run[r].pages /\ e.clean = run[r].clean /\ e.skipped = run[r].skipped
        /\ e.owned = run[r].owned /\ e.sound = run[r].sound /\ e.at = "fetching"
    BY <1>0, <1>1 DEF RunRecord, RunStep
  <2>3. run' = [run EXCEPT ![r] = e]
    BY <1>5 DEF SavePage, IInv, TypeOK
  <2> HIDE DEF e
  <2> PICK x \in RunRecord : x = e
    BY <2>2
  <2>4. ShapeOf(x)
    BY <1>0, <2>2 DEF ShapeOf
  <2>5. x.clean /\ ~x.skipped => Saved(s, known, x.page - 1)
    BY <1>1, <1>3, <2>2
  <2>6. ProgressOf(x)'
    BY <1>0, <1>2, <2>2, <2>5 DEF ProgressOf
  <2> QED BY <1>0, <1>2, <2>2, <2>3, <2>4, <2>6, GoOn
<1> QED BY <1>4, <1>5

\* The last page that is asked for covers every favourite within the cap.
LEMMA LastPageEnough ==
    ASSUME NEW mode \in {"full", "sync"}, NEW n \in Nat,
           IF mode = "full" THEN n <= FullCap * PageSize ELSE n < SyncCap * PageSize
    PROVE  PagesOf(mode, n) \in Nat /\ n <= PageSize * PagesOf(mode, n)
<1>0. /\ n <= PageSize * (n \div PageSize + 1) /\ n <= PageSize * PagesNeeded(n)
    BY PagesCover
<1>1. FullCap * PageSize = PageSize * FullCap /\ SyncCap * PageSize = PageSize * SyncCap
    OBVIOUS
<1>2. CASE mode = "full"
  <2>1. n <= PageSize * FullCap
    BY <1>1, <1>2
  <2>2. PagesOf(mode, n) \in {PagesNeeded(n), FullCap}
    BY <1>2 DEF PagesOf, Capped
  <2>3. PagesOf(mode, n) \in Nat
    BY PagesType
  <2> QED BY <1>0, <2>1, <2>2, <2>3
<1>3. CASE mode = "sync"
  <2>0. PageSize * SyncCap \in Nat
    BY SizeOK, MulMono
  <2>1. n <= PageSize * SyncCap
    BY <1>1, <1>3, <2>0
  <2>2. PagesOf(mode, n) \in {n \div PageSize + 1, SyncCap}
    BY <1>3 DEF PagesOf, Capped
  <2>3. PagesOf(mode, n) \in Nat
    BY PagesType
  <2> QED BY <1>0, <2>1, <2>2, <2>3
<1> QED BY <1>2, <1>3

LEMMA PagesEndStep == ASSUME IInv, NEW r \in Runs, PagesEnd(r) PROVE IInv'
<1> DEFINE a == run[r].acct
           k == run[r].page
           s == remote[a]
           n == Len(s)
<1>0. /\ run[r] \in RunRecord /\ a \in Accounts /\ s \in Seq(Posts)
      /\ run[r].at = "fetching" /\ run[r].mode # "auto" /\ ProgressOf(run[r])
      /\ UNCHANGED <<remote, recent, changes, lib, job, evicted>>
      /\ k > LastPage(r) /\ run' = Imports(r)
    BY AnswersType DEF PagesEnd, ShapeOf
<1>1. k \in Nat \ {0} /\ n \in Nat
    BY <1>0 DEF RunRecord
<1>2. ASSUME run[r].clean, ~run[r].skipped, ReachableBy(run[r])
      PROVE  Listed(s) \subseteq lib[a]
  <2>1. Saved(s, lib[a], k - 1)
    BY <1>0, <1>2 DEF ProgressOf
  <2>2. CASE run[r].mode = "incremental"
    <3>1. n <= IncrementalCap * PageSize /\ LastPage(r) = IncrementalCap
        BY <1>2, <2>2 DEF ReachableBy, LastPage
    <3>2. IncrementalCap * PageSize = PageSize * IncrementalCap
        OBVIOUS
    <3>3. n <= PageSize * IncrementalCap /\ IncrementalCap <= k - 1 /\ k - 1 \in Nat
        BY <1>0, <1>1, <3>1, <3>2
    <3> HIDE DEF s, k
    <3> QED BY <1>0, <2>1, <3>3, AllPages
  <2>3. CASE run[r].mode # "incremental"
    <3>1. run[r].mode \in {"full", "sync"}
        BY <1>0, <2>3 DEF RunRecord
    <3>2. IF run[r].mode = "full" THEN n <= FullCap * PageSize ELSE n < SyncCap * PageSize
        BY <1>2, <2>3 DEF ReachableBy
    <3>3. PagesOf(run[r].mode, n) \in Nat /\ n <= PageSize * PagesOf(run[r].mode, n)
        BY <1>1, <3>1, <3>2, LastPageEnough
    <3>4. LastPage(r) = PagesOf(run[r].mode, n)
        BY <1>0, <1>2, <2>3 DEF LastPage, ProgressOf
    <3>5. PagesOf(run[r].mode, n) <= k - 1 /\ k - 1 \in Nat
        BY <1>0, <1>1, <3>3, <3>4
    <3> HIDE DEF s, k
    <3> QED BY <1>0, <2>1, <3>3, <3>5, AllPages
  <2> QED BY <2>2, <2>3
<1> QED BY <1>0, <1>2, ImportedStep

-----------------------------------------------------------------------------
(* Every step *)

LEMMA StepKeepsIInv == ASSUME IInv, NEW r \in Runs, Step(r) PROVE IInv'
<1>1. CASE ReadAccount(r)
    BY <1>1, ReadAccountStep
<1>2. CASE Choose(r)
    BY <1>2, ChooseStep
<1>3. CASE Drop(r)
    BY <1>3, DropStep
<1>4. CASE BeginIncremental(r)
    BY <1>4, BeginIncrementalStep
<1>5. CASE FetchPage(r)
    BY <1>5, FetchPageStep
<1>6. CASE PageFails(r)
    BY <1>6, PageFailsStep
<1>7. CASE SavePage(r)
    BY <1>7, SavePageStep
<1>8. CASE PagesEnd(r)
    BY <1>8, PagesEndStep
<1>9. CASE RefreshProfiles(r)
    BY <1>9, FinishStep DEF RefreshProfiles, JobPhase
<1>10. CASE StepFails(r)
    BY <1>10, FinishStep DEF StepFails, JobPhase
<1> QED BY <1>1, <1>2, <1>3, <1>4, <1>5, <1>6, <1>7, <1>8, <1>9, <1>10 DEF Step

LEMMA NextKeepsIInv == IInv /\ [Next]_vars => IInv'
<1> SUFFICES ASSUME IInv, [Next]_vars PROVE IInv'
    OBVIOUS
<1>1. ASSUME NEW a \in Imported, Favourite(a) PROVE IInv'
    BY <1>1, FavouriteStep
<1>2. ASSUME NEW a \in Imported, Unfavourite(a) PROVE IInv'
    BY <1>2, UnfavouriteStep
<1>3. ASSUME NEW a \in Imported, ResponsesExpire(a) PROVE IInv'
    BY <1>3, ResponsesExpireStep
<1>4. ASSUME NEW a \in Imported, PruneJob(a) PROVE IInv'
    BY <1>4, PruneJobStep
<1>5. ASSUME NEW r \in Runs, NEW a \in Imported, Start(r, a) PROVE IInv'
    BY <1>5, StartStep
<1>6. ASSUME NEW r \in Runs, NEW a \in Imported, StartSync(r, a) PROVE IInv'
    BY <1>6, StartSyncStep
<1>7. ASSUME NEW r \in Runs, Step(r) PROVE IInv'
    BY <1>7, StepKeepsIInv
<1>8. ASSUME NEW r \in Runs, Die(r) PROVE IInv'
    BY <1>8, DieStep
<1>9. CASE Crash
    BY <1>9, CrashStep
<1>10. CASE UNCHANGED vars
  <2>1. TypeOK' /\ \A a \in Accounts : Slot(a)'
    BY <1>10 DEF vars, IInv, TypeOK, Slot, Living
  <2>2. RunInv'
    BY <1>10, OthersKept DEF vars, RunInv
  <2> QED BY <2>1, <2>2 DEF IInv
<1> QED BY <1>1, <1>2, <1>3, <1>4, <1>5, <1>6, <1>7, <1>8, <1>9, <1>10 DEF Next

LEMMA Inductive == Spec => []IInv
<1> QED BY InitIInv, NextKeepsIInv, PTL DEF Spec

-----------------------------------------------------------------------------
(* Theorems *)

\* Registry, upstream, libraries and tasks keep their types (jobs.rs,
\* pipeline.rs, sync.rs).
THEOREM TypeCorrect == Spec => []TypeOK
<1>1. IInv => TypeOK
    BY DEF IInv
<1> QED BY <1>1, Inductive, PTL

\* For any number of tasks and accounts, two runs of one account are under way
\* only after the pruner evicted a running entry (try_begin, finish,
\* prune_finished_jobs).
THEOREM OverlapNeedsEviction == Spec => []OverlapOnlyAfterEviction
<1>1. IInv => OverlapOnlyAfterEviction
    BY DEF IInv, Slot, OverlapOnlyAfterEviction
<1> QED BY <1>1, Inductive, PTL

\* A library shrinks only by its own account's full import, whatever the other
\* imports, the pruner and upstream do (drop_account_posts).
THEOREM TeardownOnly == Spec => OnlyOwnTeardownShrinks
<1> DEFINE Shrinks(a) ==
        ~(lib[a] \subseteq lib'[a]) =>
            \E r \in Runs : /\ run[r].acct = a /\ run[r].mode = "full"
                            /\ run[r].at = "dropping" /\ run'[r].at = "fetching"
<1>1. IInv /\ [Next]_vars => [\A a \in Accounts : Shrinks(a)]_vars
  <2> SUFFICES ASSUME IInv, Next, NEW a \in Accounts, ~(lib[a] \subseteq lib'[a])
               PROVE  \E r \in Runs : /\ run[r].acct = a /\ run[r].mode = "full"
                                      /\ run[r].at = "dropping" /\ run'[r].at = "fetching"
    BY DEF vars
  <2>0. lib[a] \in SUBSET Posts /\ lib \in [Accounts -> SUBSET Posts]
    BY DEF IInv, TypeOK
  <2>1. PICK r \in Runs : Drop(r) \/ SavePage(r)
    <3>1. lib' # lib
        OBVIOUS
    <3> QED BY <3>1 DEF Next, Favourite, Unfavourite, Becomes, ResponsesExpire, PruneJob, Start,
                      StartSync, Step, Die, Crash, ReadAccount, Choose, BeginIncremental,
                      FetchPage, PageFails, PagesEnd, RefreshProfiles, StepFails, Finish
  <2>2. CASE SavePage(r)
    <3>1. lib' = [lib EXCEPT ![run[r].acct] =
                    lib[run[r].acct] \cup (run[r].got \ run[r].owned)]
        BY <2>2 DEF SavePage
    <3>2. lib[a] \subseteq lib'[a]
        BY <2>0, <3>1
    <3> QED BY <3>2
  <2>3. CASE Drop(r)
    <3>1. /\ run[r].at = "dropping" /\ run[r].mode = "full" /\ run[r].acct \in Accounts
          /\ lib' = [b \in Accounts |->
                       IF b = run[r].acct THEN {} ELSE lib[b] \ ExclusivelyOwned(run[r].acct)]
        BY <2>3, AnswersType DEF Drop, ShapeOf
    <3>2. run[r].acct = a
        BY <2>0, <3>1 DEF ExclusivelyOwned
    <3>3. run'[r].at = "fetching"
      <4>1. run' = [Disturb(run[r].acct) EXCEPT ![r].clean = run[r].clean, ![r].at = "fetching"]
        BY <2>3 DEF Drop
      <4>2. Disturb(run[r].acct) \in [Runs -> RunRecord]
        BY <3>1, DisturbFields DEF IInv
      <4> PICK d \in [Runs -> RunRecord] : d = Disturb(run[r].acct)
        BY <4>2
      <4>3. run'[r] = [[d[r] EXCEPT !.clean = run[r].clean] EXCEPT !.at = "fetching"]
        BY <4>1
      <4>4. d[r] \in RunRecord
        OBVIOUS
      <4> QED BY <4>3, <4>4 DEF RunRecord
    <3> QED BY <3>1, <3>2, <3>3
  <2> QED BY <2>1, <2>2, <2>3
<1> QED BY <1>1, Inductive, PTL DEF Spec, OnlyOwnTeardownShrinks

\* For every page size and every cap, an import nothing disturbed has brought in
\* all it could reach (run_full_fetch, run_incremental_fetch,
\* sync_account_direct).
THEOREM UndisturbedIsWhole == Spec => []WholeUnlessDisturbed
<1>1. IInv => WholeUnlessDisturbed
  <2> SUFFICES ASSUME IInv, NEW r \in Runs,
                      run[r].at = "imported", run[r].clean, ~run[r].skipped, Reachable(r),
                      run[r].mode = "incremental" => run[r].sound
               PROVE  Listed(remote[run[r].acct]) \subseteq lib[run[r].acct]
    BY DEF WholeUnlessDisturbed
  <2>1. ProgressOf(run[r])
    BY DEF IInv, RunInv
  <2>2. ReachableBy(run[r])
    BY DEF Reachable, ReachableBy
  <2> QED BY <2>1, <2>2 DEF ProgressOf
<1> QED BY <1>1, Inductive, PTL
=============================================================================
