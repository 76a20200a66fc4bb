---------------------- MODULE InteractionDelivery_proofs ----------------------
(***************************************************************************)
(* For every set of looks, tabs, requests, replays and outbox keys: the     *)
(* delivery implements Evidence, so a look counts exactly once while it is  *)
(* recorded, and no look vanishes on its way.                               *)
(*                                                                          *)
(* NoLookVanishes alone is not inductive: a request that was answered ok is *)
(* about to go, and so is a batch of the outbox whose replay was answered.  *)
(* Covered leaves both out, and holds all the same, since the answer came   *)
(* with the rows.  That the row and the batch are of the same looks needs   *)
(* FreshKeys: a key is not used again while a replay still holds its batch. *)
(***************************************************************************)
EXTENDS InteractionDelivery, TLAPS

BatchesAreMade ==
    /\ \A t \in Tabs : buffer[t] \subseteq made
    /\ \A q \in Requests : request[q].looks \subseteq made
    /\ \A i \in Ids : outbox[i] \subseteq made
    /\ \A r \in Replays, i \in Ids : replay[r].todo[i] \subseteq made

\* What a replay has sent is one of the batches it still holds.
HoldsWhatItSent ==
    \A r \in Replays : replay[r].at \in {"sent"} \cup Answers =>
        replay[r].id \in Ids /\ replay[r].todo[replay[r].id] # {}

\* A key means the same batch to the outbox and to a replay that holds it.
FreshKeys ==
    \A r \in Replays, i \in Ids :
        replay[r].todo[i] # {} /\ outbox[i] # {} => replay[r].todo[i] = outbox[i]

\* A batch of the outbox that no replay is about to remove.
Stays(i) == \A r \in Replays : ~(replay[r].at = "ok" /\ replay[r].id = i)

Covered(l) ==
    \/ l \in recorded \/ l \in gone
    \/ \E t \in Tabs : l \in buffer[t]
    \/ \E q \in Requests : request[q].at \in {"sent", "refused"} /\ l \in request[q].looks
    \/ \E i \in Ids : l \in outbox[i] /\ Stays(i)

ReplayRecord == [at : {"idle", "next", "sent"} \cup Answers, id : Ids \cup {None}, todo : [Ids -> Batches]]

\* A replay may turn into s: it holds no batch but its own and those of the
\* outbox, and has no answer yet.
MayBe(r, s) ==
    /\ \A i \in Ids : s.todo[i] \in {{}, replay[r].todo[i], outbox[i]}
    /\ s.at \in {"sent"} \cup Answers => s.id \in Ids /\ s.todo[s.id] # {}
    /\ s.at # "ok"

RequestRecord == [at : {"free", "sent", "kept"} \cup Answers, looks : Batches]

Syncs == {"none", "registered", "lost"}

AllCovered == \A l \in made : Covered(l)

IInv ==
    /\ TypeOK /\ BatchesAreMade /\ HoldsWhatItSent /\ FreshKeys
    /\ E!CountedOnce /\ AllCovered

USE DeliveryConstantsOK

-----------------------------------------------------------------------------
LEMMA InitIInv == Init => IInv
BY DEF Init, IInv, TypeOK, BatchesAreMade, HoldsWhatItSent, FreshKeys, E!CountedOnce,
       AllCovered, Free, Idle, NoBatches, Batches, Answers

LEMMA FreeAndIdle ==
    /\ Free \in RequestRecord
    /\ Free.at = "free" /\ Free.looks = {}
    /\ Keeping \in RequestRecord
    /\ Keeping.at = "kept" /\ Keeping.looks = {}
    /\ Idle \in ReplayRecord
    /\ Idle.at = "idle" /\ \A i \in Ids : Idle.todo[i] = {}
BY DEF Free, Keeping, Idle, NoBatches, Batches, Answers, RequestRecord, ReplayRecord

\* What an accepted batch does to the server.
LEMMA AcceptKeeps ==
    ASSUME IInv, NEW batch \in SUBSET made, Accept(batch), made' = made, gone' = gone
    PROVE  /\ catalog' \in SUBSET Posts
           /\ recorded' = recorded \cup batch /\ recorded' \in SUBSET made'
           /\ counted' \in [Looks -> {0, 1}]
           /\ E!CountedOnce'
           /\ E!Next
<1>1. made \in SUBSET Looks /\ recorded \in SUBSET made
    BY DEF IInv, TypeOK
<1>2. counted' \in [Looks -> {0, 1}] /\ E!CountedOnce'
    BY <1>1 DEF IInv, TypeOK, E!CountedOnce, Accept, Fresh
<1>3. E!Record(batch \ recorded)
    BY <1>1 DEF Accept, Fresh, E!Record
<1>4. E!Next
    BY <1>1, <1>3 DEF E!Next
<1> QED BY <1>1, <1>2, <1>4 DEF IInv, TypeOK, Accept

\* What taking looks back does to the server.
LEMMA UncountedKeeps ==
    ASSUME IInv, NEW ls \in SUBSET recorded, made' = made,
           recorded' = recorded \ ls, counted' = Uncounted(ls), gone' = gone \cup ls
    PROVE  /\ recorded' \in SUBSET made' /\ gone' \in SUBSET made'
           /\ counted' \in [Looks -> {0, 1}]
           /\ E!CountedOnce'
           /\ E!Next
<1>1. made \in SUBSET Looks /\ recorded \in SUBSET made /\ gone \in SUBSET made
    BY DEF IInv, TypeOK
<1>2. counted' \in [Looks -> {0, 1}] /\ E!CountedOnce'
    BY <1>1 DEF IInv, TypeOK, E!CountedOnce, Uncounted
<1>3. E!Forget(ls)
    BY <1>1 DEF Uncounted, E!Forget
<1> QED BY <1>1, <1>2, <1>3 DEF E!Next

-----------------------------------------------------------------------------
(* The page *)

\* Looks that a flush moves are covered by the request that takes them.
LEMMA FlushKeeps ==
    ASSUME IInv, NEW t \in Tabs, NEW batch \in SUBSET made', Flushed(t, batch),
           UNCHANGED <<worker, server>>,
           made \subseteq made', made' \subseteq Looks,
           gone' \subseteq gone, made' \ batch \subseteq made, gone \ gone' \subseteq batch,
           buffer[t] \subseteq batch
    PROVE  IInv'
<1>1. /\ buffer' = [buffer EXCEPT ![t] = {}]
      /\ timer' \in [Tabs -> {"none", "armed"}]
    BY DEF IInv, TypeOK, Flushed, Cleared
<1>2. /\ request' \in [Requests -> RequestRecord]
      /\ \A q \in Requests : request'[q].looks \subseteq made'
      /\ \A l \in batch : \E q \in Requests : request'[q].at = "sent" /\ l \in request'[q].looks
      /\ \A q \in Requests : request'[q] = request[q] \/ request[q] = Free
  <2>1. CASE batch = {}
    BY <2>1 DEF IInv, TypeOK, BatchesAreMade, Flushed, RequestRecord
  <2>2. CASE batch # {}
    <3>1. PICK q \in Requests :
            /\ request[q] = Free
            /\ request' = [request EXCEPT ![q] = [at |-> "sent", looks |-> batch]]
        BY <2>2 DEF Flushed
    <3>2. [at |-> "sent", looks |-> batch] \in RequestRecord
        BY DEF Batches, RequestRecord
    <3> QED BY <3>1, <3>2, FreeAndIdle DEF IInv, TypeOK, BatchesAreMade, RequestRecord
  <2> QED BY <2>1, <2>2
<1>3. TypeOK'
    BY <1>1, <1>2 DEF IInv, TypeOK, Batches, RequestRecord, worker, server
<1>4. BatchesAreMade' /\ HoldsWhatItSent' /\ FreshKeys'
    BY <1>1, <1>2 DEF IInv, TypeOK, BatchesAreMade, HoldsWhatItSent, FreshKeys, worker
<1>5. E!CountedOnce'
    BY DEF IInv, E!CountedOnce, server
<1>6. ASSUME NEW l \in made' PROVE Covered(l)'
  <2>1. CASE l \in batch
    BY <1>2, <2>1 DEF Covered
  <2>2. CASE l \notin batch
    <3>1. l \in made /\ Covered(l)
        BY <2>2 DEF IInv, AllCovered
    <3>2. ASSUME NEW u \in Tabs, l \in buffer[u] PROVE l \in buffer'[u]
        BY <1>1, <2>2, <3>2 DEF IInv, TypeOK
    <3>3. ASSUME NEW q \in Requests, l \in request[q].looks PROVE request'[q] = request[q]
        BY <1>2, <3>3, FreeAndIdle
    <3>4. l \in gone => l \in gone'
        BY <2>2
    <3>5. \A i \in Ids : Stays(i)' = Stays(i)
        BY DEF Stays, worker
    <3> QED BY <3>1, <3>2, <3>3, <3>4, <3>5 DEF Covered, worker, server
  <2> QED BY <2>1, <2>2
<1> QED BY <1>3, <1>4, <1>5, <1>6 DEF IInv, AllCovered

LEMMA PushStep ==
    ASSUME IInv, NEW t \in Tabs, NEW l \in Looks, Push(t, l)
    PROVE  IInv' /\ [E!Next]_(E!vars)
<1> DEFINE batch == buffer[t] \cup {l}
<1>0. /\ made' = made \cup {l} /\ gone' = gone \ {l}
      /\ UNCHANGED <<worker, server>>
      /\ made' \subseteq Looks /\ batch \subseteq made'
    BY DEF Push, IInv, TypeOK, BatchesAreMade
<1>1. E!Next
    BY <1>0 DEF E!Next, E!Make, server
<1>2. CASE l \in Opens \/ Cardinality(batch) >= FlushAt
  <2>1. Flushed(t, batch)
    BY <1>2 DEF Push
  <2> HIDE DEF batch
  <2>2. buffer[t] \subseteq batch /\ l \in batch
    BY DEF batch
  <2> QED BY <1>0, <1>1, <2>1, <2>2, FlushKeeps
<1>3. CASE ~(l \in Opens \/ Cardinality(batch) >= FlushAt)
  <2>1. /\ buffer' = [buffer EXCEPT ![t] = batch]
        /\ timer' = [timer EXCEPT ![t] = IF @ = "none" THEN "armed" ELSE @]
        /\ UNCHANGED request
    BY <1>3 DEF Push
  <2>2. TypeOK'
    BY <1>0, <2>1 DEF IInv, TypeOK, Batches, worker, server
  <2>3. BatchesAreMade' /\ HoldsWhatItSent' /\ FreshKeys'
    BY <1>0, <2>1 DEF IInv, TypeOK, BatchesAreMade, HoldsWhatItSent, FreshKeys, worker
  <2>4. E!CountedOnce'
    BY <1>0 DEF IInv, E!CountedOnce, server
  <2>5. ASSUME NEW k \in made' PROVE Covered(k)'
    <3>1. CASE k = l
        BY <2>1, <3>1 DEF Covered, IInv, TypeOK
    <3>2. CASE k # l
      <4>1. k \in made /\ Covered(k) /\ (k \in gone => k \in gone')
        BY <1>0, <3>2 DEF IInv, AllCovered
      <4>2. \A u \in Tabs : buffer[u] \subseteq buffer'[u]
        BY <2>1 DEF IInv, TypeOK
      <4>3. \A i \in Ids : Stays(i)' = Stays(i)
        BY <1>0 DEF Stays, worker
      <4> QED BY <1>0, <2>1, <4>1, <4>2, <4>3 DEF Covered, worker, server
    <3> QED BY <3>1, <3>2
  <2> QED BY <1>1, <2>2, <2>3, <2>4, <2>5 DEF IInv, AllCovered
<1> QED BY <1>2, <1>3

\* The timer and the page's hiding send what the buffer holds.
LEMMA FlushStep ==
    ASSUME IInv, NEW t \in Tabs, Debounce(t) \/ Hide(t)
    PROVE  IInv' /\ [E!Next]_(E!vars)
<1>1. Flushed(t, buffer[t]) /\ UNCHANGED <<worker, server, ghosts>>
    BY DEF Debounce, Hide
<1>2. made' = made /\ gone' = gone /\ made \subseteq Looks /\ buffer[t] \subseteq made
    BY <1>1 DEF ghosts, IInv, TypeOK, BatchesAreMade
<1>3. IInv'
    BY <1>1, <1>2, FlushKeeps
<1> QED BY <1>1, <1>3 DEF E!vars, server, ghosts

LEMMA KillStep ==
    ASSUME IInv, NEW t \in Tabs, Kill(t)
    PROVE  IInv' /\ [E!Next]_(E!vars)
<1>1. /\ buffer' = [buffer EXCEPT ![t] = {}] /\ timer' = [timer EXCEPT ![t] = "none"]
      /\ gone' = gone \cup buffer[t]
      /\ UNCHANGED <<request, worker, server, made>>
    BY DEF Kill
<1>2. TypeOK'
    BY <1>1 DEF IInv, TypeOK, BatchesAreMade, Batches, worker, server
<1>3. BatchesAreMade' /\ HoldsWhatItSent' /\ FreshKeys'
    BY <1>1 DEF IInv, TypeOK, BatchesAreMade, HoldsWhatItSent, FreshKeys, worker
<1>4. E!CountedOnce'
    BY <1>1 DEF IInv, E!CountedOnce, server
<1>5. ASSUME NEW l \in made' PROVE Covered(l)'
  <2>1. \A i \in Ids : Stays(i)' = Stays(i)
    BY <1>1 DEF Stays, worker
  <2>2. \A u \in Tabs : l \in buffer[u] => l \in buffer'[u] \/ l \in gone'
    BY <1>1 DEF IInv, TypeOK
  <2> QED BY <1>1, <2>1, <2>2 DEF IInv, AllCovered, Covered, worker, server
<1> QED BY <1>1, <1>2, <1>3, <1>4, <1>5 DEF IInv, AllCovered, E!vars, server

-----------------------------------------------------------------------------
(* The requests of the page *)

LEMMA ArriveStep ==
    ASSUME IInv, NEW q \in Requests, Arrive(q)
    PROVE  IInv' /\ [E!Next]_(E!vars)
<1>0. UNCHANGED <<page, worker, ghosts>> /\ request[q].looks \in SUBSET made
    BY DEF Arrive, IInv, BatchesAreMade
<1>1. CASE Accept(request[q].looks) /\ request' = [request EXCEPT ![q].at = "ok"]
  <2>1. /\ catalog' \in SUBSET Posts
        /\ recorded' = recorded \cup request[q].looks /\ recorded' \in SUBSET made'
        /\ counted' \in [Looks -> {0, 1}]
        /\ E!CountedOnce'
        /\ E!Next
    BY <1>0, <1>1, AcceptKeeps DEF ghosts
  <2>2. TypeOK'
    <3>1. request \in [Requests -> RequestRecord]
        BY DEF IInv, TypeOK, RequestRecord
    <3>2. [request[q] EXCEPT !.at = "ok"] \in RequestRecord
        BY <3>1 DEF RequestRecord, Answers
    <3>3. request' \in [Requests -> RequestRecord]
        BY <1>1, <3>1, <3>2
    <3> QED BY <1>0, <2>1, <3>3 DEF IInv, TypeOK, RequestRecord, page, worker, ghosts
  <2>3. BatchesAreMade' /\ HoldsWhatItSent' /\ FreshKeys'
    <3>1. \A p \in Requests : request'[p].looks = request[p].looks
        BY <1>1 DEF IInv, TypeOK
    <3>2. BatchesAreMade'
        BY <1>0, <3>1 DEF IInv, BatchesAreMade, page, worker, ghosts
    <3> QED BY <1>0, <3>2 DEF IInv, HoldsWhatItSent, FreshKeys, worker
  <2>4. ASSUME NEW l \in made' PROVE Covered(l)'
    <3>1. Covered(l) /\ \A i \in Ids : Stays(i)' = Stays(i)
        BY <1>0 DEF IInv, AllCovered, ghosts, Stays, worker
    <3>2. \A p \in Requests \ {q} : request'[p] = request[p]
        BY <1>1 DEF IInv, TypeOK
    <3> QED BY <1>0, <2>1, <3>1, <3>2 DEF Covered, page, worker, ghosts
  <2> QED BY <2>1, <2>2, <2>3, <2>4 DEF IInv, AllCovered
<1>2. CASE Refuse /\ request' = [request EXCEPT ![q].at = "refused"]
  <2>1. TypeOK'
    <3>1. request \in [Requests -> RequestRecord]
        BY DEF IInv, TypeOK, RequestRecord
    <3>2. [request[q] EXCEPT !.at = "refused"] \in RequestRecord
        BY <3>1 DEF RequestRecord, Answers
    <3>3. request' \in [Requests -> RequestRecord]
        BY <1>2, <3>1, <3>2
    <3> QED BY <1>0, <1>2, <3>3 DEF IInv, TypeOK, RequestRecord, page, worker, ghosts, server, Refuse
  <2>2. BatchesAreMade' /\ HoldsWhatItSent' /\ FreshKeys' /\ E!CountedOnce'
    <3>1. \A p \in Requests : request'[p].looks = request[p].looks
        BY <1>2 DEF IInv, TypeOK
    <3>2. BatchesAreMade'
        BY <1>0, <3>1 DEF IInv, BatchesAreMade, page, worker, ghosts
    <3>3. E!CountedOnce'
        BY <1>2 DEF IInv, E!CountedOnce, server, Refuse
    <3> QED BY <1>0, <3>2, <3>3 DEF IInv, HoldsWhatItSent, FreshKeys, worker
  <2>3. ASSUME NEW l \in made' PROVE Covered(l)'
    <3>1. Covered(l) /\ \A i \in Ids : Stays(i)' = Stays(i)
        BY <1>0 DEF IInv, AllCovered, ghosts, Stays, worker
    <3>2. /\ \A p \in Requests \ {q} : request'[p] = request[p]
          /\ request'[q].looks = request[q].looks /\ request'[q].at = "refused"
        BY <1>2 DEF IInv, TypeOK
    <3> QED BY <1>0, <1>2, <3>1, <3>2 DEF Covered, page, worker, ghosts, server, Refuse
  <2> QED BY <1>0, <1>2, <2>1, <2>2, <2>3 DEF IInv, AllCovered, E!vars, ghosts, server, Refuse
<1> QED BY <1>1, <1>2 DEF Arrive

\* A request ends, and its looks are dropped unless the server recorded them.
LEMMA EndKeeps ==
    ASSUME IInv, NEW q \in Requests, NEW s \in {Free, Keeping},
           request' = [request EXCEPT ![q] = s],
           UNCHANGED <<page, outbox, replay, server, made>>, sync' \in Syncs,
           gone' \in {gone, gone \cup request[q].looks},
           request[q].at \in {"ok", "kept"} \/ gone' = gone \cup request[q].looks
    PROVE  IInv' /\ [E!Next]_(E!vars)
<1>0. s \in RequestRecord /\ s.looks = {}
    BY FreeAndIdle
<1>1. TypeOK'
    BY <1>0 DEF IInv, TypeOK, BatchesAreMade, RequestRecord, Syncs, page, server
<1>2. BatchesAreMade' /\ HoldsWhatItSent' /\ FreshKeys' /\ E!CountedOnce'
    BY <1>0 DEF IInv, TypeOK, BatchesAreMade, HoldsWhatItSent, FreshKeys, E!CountedOnce,
                page, server
<1>3. ASSUME NEW l \in made' PROVE Covered(l)'
  <2>1. Covered(l) /\ \A i \in Ids : Stays(i)' = Stays(i)
    BY DEF IInv, AllCovered, Stays
  <2>2. \A p \in Requests \ {q} : request'[p] = request[p]
    BY DEF IInv, TypeOK
  <2> QED BY <2>1, <2>2 DEF Covered, page, server
<1> QED BY <1>1, <1>2, <1>3 DEF IInv, AllCovered, E!vars, server

LEMMA ScheduleSyncStep ==
    ASSUME IInv, NEW q \in Requests, ScheduleSync(q)
    PROVE  IInv' /\ [E!Next]_(E!vars)
<1>1. request' = [request EXCEPT ![q] = Free] /\ UNCHANGED <<page, outbox, replay, server, made, gone>>
    BY DEF ScheduleSync, ghosts
<1>2. sync' \in Syncs
    BY DEF ScheduleSync, AfterAsking, Lost, Syncs
<1>3. request[q].at = "kept"
    BY DEF ScheduleSync
<1> QED BY <1>1, <1>2, <1>3, EndKeeps

LEMMA KeepStep ==
    ASSUME IInv, NEW q \in Requests, Keep(q)
    PROVE  IInv' /\ [E!Next]_(E!vars)
<1>0. request' = [request EXCEPT ![q] = Keeping] /\ UNCHANGED <<page, replay, sync, server, made>>
    BY DEF Keep
<1>0a. sync' \in Syncs
    BY <1>0 DEF IInv, TypeOK, Syncs
<1>1. CASE gone' = gone \cup request[q].looks /\ UNCHANGED outbox
    BY <1>0, <1>0a, <1>1, EndKeeps
<1>2. ASSUME NEW i \in Ids, Unused(i), outbox' = [outbox EXCEPT ![i] = request[q].looks], gone' = gone
      PROVE  IInv' /\ [E!Next]_(E!vars)
  <2>1. TypeOK'
    BY <1>0, <1>2, FreeAndIdle DEF IInv, TypeOK, RequestRecord, page, server
  <2>2. BatchesAreMade'
    BY <1>0, <1>2, FreeAndIdle DEF IInv, TypeOK, BatchesAreMade, page
  <2>3. HoldsWhatItSent' /\ FreshKeys' /\ E!CountedOnce'
    BY <1>0, <1>2 DEF IInv, TypeOK, HoldsWhatItSent, FreshKeys, E!CountedOnce, server, Unused
  <2>4. Stays(i) /\ \A j \in Ids : Stays(j)' = Stays(j)
    BY <1>0, <1>2 DEF IInv, HoldsWhatItSent, Stays, Unused, Answers
  <2>5. ASSUME NEW l \in made' PROVE Covered(l)'
    <3>1. Covered(l)
        BY <1>0 DEF IInv, AllCovered
    <3>2. \A p \in Requests \ {q} : request'[p] = request[p]
        BY <1>0 DEF IInv, TypeOK
    <3>3. \A j \in Ids \ {i} : outbox'[j] = outbox[j]
        BY <1>2 DEF IInv, TypeOK
    <3>4. outbox'[i] = request[q].looks /\ outbox[i] = {}
        BY <1>2 DEF IInv, TypeOK, Unused
    <3> QED BY <1>0, <1>2, <2>4, <3>1, <3>2, <3>3, <3>4 DEF Covered, page, server
  <2> QED BY <1>0, <2>1, <2>2, <2>3, <2>5 DEF IInv, AllCovered, E!vars, server
<1> QED BY <1>1, <1>2 DEF Keep

-----------------------------------------------------------------------------
(* The service worker *)

\* A replay that changes its own record only.
LEMMA ReplayKeeps ==
    ASSUME IInv, NEW r \in Replays, NEW s \in ReplayRecord, MayBe(r, s),
           replay' = [replay EXCEPT ![r] = s], sync' \in Syncs,
           UNCHANGED <<page, request, outbox, server, ghosts>>
    PROVE  IInv' /\ [E!Next]_(E!vars)
<1>1. TypeOK'
    BY DEF ReplayRecord, Syncs, IInv, TypeOK, page, server, ghosts
<1>2. BatchesAreMade'
    BY DEF MayBe, IInv, TypeOK, BatchesAreMade, page, ghosts
<1>3. HoldsWhatItSent' /\ FreshKeys'
    BY DEF MayBe, IInv, TypeOK, HoldsWhatItSent, FreshKeys
<1>4. E!CountedOnce'
    BY DEF IInv, E!CountedOnce, server
<1>5. ASSUME NEW l \in made' PROVE Covered(l)'
  <2>1. Covered(l)
    BY DEF IInv, AllCovered, ghosts
  <2>2. \A i \in Ids : Stays(i) => Stays(i)'
    BY DEF MayBe, Stays, IInv, TypeOK
  <2> QED BY <2>1, <2>2 DEF Covered, page, server, ghosts
<1> QED BY <1>1, <1>2, <1>3, <1>4, <1>5 DEF IInv, AllCovered, E!vars, server, ghosts

LEMMA StartReplayStep ==
    ASSUME IInv, NEW r \in Replays, StartReplay(r)
    PROVE  IInv' /\ [E!Next]_(E!vars)
<1>1. PICK todo \in {outbox, NoBatches} :
        replay' = [replay EXCEPT ![r] = [at |-> "next", id |-> None, todo |-> todo]]
    BY DEF StartReplay
<1> DEFINE s == [at |-> "next", id |-> None, todo |-> todo]
<1>2. replay' = [replay EXCEPT ![r] = s]
    BY <1>1
<1>3. UNCHANGED <<page, request, outbox, server, ghosts>>
    BY DEF StartReplay
<1>4. sync' \in Syncs
    BY DEF StartReplay, IInv, TypeOK, Syncs
<1>5. todo \in [Ids -> Batches]
    BY DEF IInv, TypeOK, NoBatches, Batches
<1>6. s \in ReplayRecord
    BY <1>5 DEF ReplayRecord
<1>7. MayBe(r, s)
    BY DEF MayBe, NoBatches, Answers
<1> HIDE DEF s
<1> QED BY <1>2, <1>3, <1>4, <1>6, <1>7, ReplayKeeps

LEMMA SendAgainStep ==
    ASSUME IInv, NEW r \in Replays, NEW i \in Ids, SendAgain(r, i)
    PROVE  IInv' /\ [E!Next]_(E!vars)
<1> DEFINE s == [replay[r] EXCEPT !.at = "sent", !.id = i]
<1>1. /\ replay' = [replay EXCEPT ![r] = s]
      /\ UNCHANGED <<page, request, outbox, server, ghosts>> /\ sync' \in Syncs
    BY DEF SendAgain, IInv, TypeOK, Syncs
<1>2. replay[r] \in ReplayRecord
    BY DEF IInv, TypeOK, ReplayRecord
<1>3. s \in ReplayRecord
    BY <1>2 DEF ReplayRecord
<1>4. s.at = "sent" /\ s.id = i /\ s.todo = replay[r].todo /\ s.todo[i] # {}
    BY <1>2 DEF SendAgain, ReplayRecord
<1>5. MayBe(r, s)
    BY <1>4 DEF MayBe
<1> HIDE DEF s
<1> QED BY <1>1, <1>3, <1>5, ReplayKeeps

LEMMA RefusedStep ==
    ASSUME IInv, NEW r \in Replays, Refused(r)
    PROVE  IInv' /\ [E!Next]_(E!vars)
<1> DEFINE s == [replay[r] EXCEPT !.at = "refused"]
<1>1. /\ replay' = [replay EXCEPT ![r] = s] /\ replay[r].at = "sent"
      /\ UNCHANGED <<page, request, outbox, server, ghosts>> /\ sync' \in Syncs
    BY DEF Refused, Refuse, IInv, TypeOK, Syncs
<1>2a. replay[r] \in ReplayRecord
    BY DEF IInv, TypeOK, ReplayRecord
<1>2. s \in ReplayRecord
    BY <1>2a DEF Answers, ReplayRecord
<1>3. s.at = "refused" /\ s.id = replay[r].id /\ s.todo = replay[r].todo
    BY DEF IInv, TypeOK
<1>4. s.id \in Ids /\ s.todo[s.id] # {}
    BY <1>1, <1>3 DEF IInv, HoldsWhatItSent
<1>5. MayBe(r, s)
    BY <1>3, <1>4 DEF MayBe
<1> HIDE DEF s
<1> QED BY <1>1, <1>2, <1>5, ReplayKeeps

\* Giving a batch up, or all of them.
LEMMA OnwardFields ==
    ASSUME IInv, NEW r \in Replays, replay[r].at \in {"sent"} \cup Answers
    PROVE  \E s \in ReplayRecord :
              /\ Onward(r) = [replay EXCEPT ![r] = s]
              /\ s.at = "next"
              /\ s.todo[replay[r].id] = {}
              /\ \A i \in Ids : s.todo[i] \in {{}, replay[r].todo[i]}
<1>1. replay[r].id \in Ids
    BY DEF IInv, HoldsWhatItSent
<1> DEFINE rest == [replay[r].todo EXCEPT ![replay[r].id] = {}]
           s == [at |-> "next", id |-> None, todo |-> rest]
<1>2. s \in ReplayRecord
    BY <1>1 DEF IInv, TypeOK, Batches, ReplayRecord
<1>3. Onward(r) = [replay EXCEPT ![r] = s]
    BY DEF Onward
<1>4. /\ s.at = "next" /\ s.todo[replay[r].id] = {}
      /\ \A i \in Ids : s.todo[i] \in {{}, replay[r].todo[i]}
    BY <1>1 DEF IInv, TypeOK
<1> HIDE DEF s
<1> QED BY <1>2, <1>3, <1>4

LEMMA SkipStep ==
    ASSUME IInv, NEW r \in Replays, Skip(r)
    PROVE  IInv' /\ [E!Next]_(E!vars)
<1>1. /\ replay[r].at \in {"sent"} \cup Answers /\ replay' = Onward(r)
      /\ UNCHANGED <<page, request, outbox, server, ghosts>> /\ sync' \in Syncs
    BY DEF Skip, Answers, IInv, TypeOK, Syncs
<1>2. PICK s \in ReplayRecord :
         /\ replay' = [replay EXCEPT ![r] = s]
         /\ s.at = "next" /\ \A i \in Ids : s.todo[i] \in {{}, replay[r].todo[i]}
    BY <1>1, OnwardFields
<1>3. MayBe(r, s)
    BY <1>2 DEF Answers, MayBe
<1> QED BY <1>1, <1>2, <1>3, ReplayKeeps

\* The loop ends, or the browser ends it.
LEMMA EndReplayStep ==
    ASSUME IInv, NEW r \in Replays, Finish(r) \/ Stop(r)
    PROVE  IInv' /\ [E!Next]_(E!vars)
<1>1. /\ replay' = [replay EXCEPT ![r] = Idle]
      /\ UNCHANGED <<page, request, outbox, server, ghosts>>
    BY DEF Finish, Stop
<1>2. sync' \in Syncs
    BY DEF Finish, Stop, Lost, IInv, TypeOK, Syncs
<1>3. MayBe(r, Idle)
    BY FreeAndIdle DEF Answers, MayBe
<1> QED BY <1>1, <1>2, <1>3, FreeAndIdle, ReplayKeeps

LEMMA AcceptedStep ==
    ASSUME IInv, NEW r \in Replays, NEW i \in Ids, Accepted(r, i)
    PROVE  IInv' /\ [E!Next]_(E!vars)
<1>0. /\ replay[r].at = "sent" /\ replay[r].id = i
      /\ Accept(replay[r].todo[i])
      /\ replay' = [replay EXCEPT ![r].at = "ok"]
      /\ UNCHANGED <<page, request, outbox, sync, ghosts>>
      /\ replay[r].todo[i] \in SUBSET made
    BY DEF Accepted, IInv, BatchesAreMade
<1>1. /\ catalog' \in SUBSET Posts
      /\ recorded' = recorded \cup replay[r].todo[i] /\ recorded' \in SUBSET made'
      /\ counted' \in [Looks -> {0, 1}]
      /\ E!CountedOnce'
      /\ E!Next
    BY <1>0, AcceptKeeps DEF ghosts
<1>2. /\ \A u \in Replays : replay'[u].id = replay[u].id /\ replay'[u].todo = replay[u].todo
      /\ \A u \in Replays \ {r} : replay'[u] = replay[u]
    BY <1>0 DEF IInv, TypeOK
<1>2a. replay' \in [Replays -> ReplayRecord]
  <2>1. replay \in [Replays -> ReplayRecord]
    BY DEF IInv, TypeOK, ReplayRecord
  <2>2. [replay[r] EXCEPT !.at = "ok"] \in ReplayRecord
    BY <2>1 DEF ReplayRecord, Answers
  <2> QED BY <1>0, <2>1, <2>2
<1>3. TypeOK'
    BY <1>0, <1>1, <1>2a DEF IInv, TypeOK, ReplayRecord, page, ghosts
<1>4. BatchesAreMade' /\ FreshKeys'
    BY <1>0, <1>2 DEF IInv, BatchesAreMade, FreshKeys, page, ghosts
<1>5. HoldsWhatItSent'
    BY <1>0, <1>2 DEF IInv, HoldsWhatItSent
<1>6. ASSUME NEW l \in made' PROVE Covered(l)'
  <2>1. Covered(l)
    BY <1>0 DEF IInv, AllCovered, ghosts
  <2>2. outbox[i] \subseteq recorded'
    BY <1>0, <1>1 DEF IInv, FreshKeys, HoldsWhatItSent
  <2>3. \A j \in Ids \ {i} : Stays(j) => Stays(j)'
    BY <1>0, <1>2 DEF Stays
  <2> QED BY <1>0, <1>1, <2>1, <2>2, <2>3 DEF Covered, page, ghosts
<1> QED BY <1>1, <1>3, <1>4, <1>5, <1>6 DEF IInv, AllCovered

LEMMA RemovePendingStep ==
    ASSUME IInv, NEW r \in Replays, NEW i \in Ids, RemovePending(r, i)
    PROVE  IInv' /\ [E!Next]_(E!vars)
<1>0. /\ replay[r].at = "ok" /\ replay[r].id = i
      /\ outbox' = [outbox EXCEPT ![i] = {}]
      /\ replay' = Onward(r)
      /\ UNCHANGED <<page, request, sync, server, ghosts>>
    BY DEF RemovePending, Done
<1>1. PICK s \in ReplayRecord :
         /\ replay' = [replay EXCEPT ![r] = s]
         /\ s.at = "next" /\ s.todo[i] = {}
         /\ \A j \in Ids : s.todo[j] \in {{}, replay[r].todo[j]}
    BY <1>0, OnwardFields DEF Answers
<1>2. s.at \notin {"sent"} \cup Answers
    BY <1>1 DEF Answers
<1>3. TypeOK'
    BY <1>0, <1>1 DEF IInv, TypeOK, page, server, ghosts, Batches, ReplayRecord
<1>4. BatchesAreMade'
    BY <1>0, <1>1 DEF IInv, TypeOK, BatchesAreMade, page, ghosts
<1>4a. \A u \in Replays \ {r} : replay'[u] = replay[u]
    BY <1>1 DEF IInv, TypeOK
<1>4b. replay'[r] = s /\ \A j \in Ids \ {i} : outbox'[j] = outbox[j]
    BY <1>0, <1>1 DEF IInv, TypeOK
<1>4c. outbox'[i] = {}
    BY <1>0 DEF IInv, TypeOK
<1>5. HoldsWhatItSent'
    BY <1>2, <1>4a, <1>4b DEF IInv, HoldsWhatItSent
<1>5a. FreshKeys'
  <2> SUFFICES ASSUME NEW u \in Replays, NEW j \in Ids, replay'[u].todo[j] # {}, outbox'[j] # {}
               PROVE  replay'[u].todo[j] = outbox'[j]
    BY DEF FreshKeys
  <2>1. j # i /\ outbox'[j] = outbox[j]
    BY <1>4b, <1>4c
  <2>2. replay'[u].todo[j] = replay[u].todo[j]
    BY <1>1, <1>4a, <1>4b
  <2> QED BY <2>1, <2>2 DEF IInv, FreshKeys
<1>6. E!CountedOnce'
    BY <1>0 DEF IInv, E!CountedOnce, server
<1>7. ASSUME NEW l \in made' PROVE Covered(l)'
  <2>1. Covered(l)
    BY <1>0 DEF IInv, AllCovered, ghosts
  <2>2. ~Stays(i)
    BY <1>0 DEF Stays
  <2>3. \A j \in Ids : Stays(j) => Stays(j)'
    BY <1>1 DEF Stays, IInv, TypeOK
  <2>4. \A j \in Ids \ {i} : outbox'[j] = outbox[j]
    BY <1>0 DEF IInv, TypeOK
  <2> QED BY <1>0, <2>1, <2>2, <2>3, <2>4 DEF Covered, page, server, ghosts
<1> QED BY <1>0, <1>3, <1>4, <1>5, <1>5a, <1>6, <1>7 DEF IInv, AllCovered, E!vars, server, ghosts

-----------------------------------------------------------------------------
(* The server on its own *)

LEMMA ForgetStep ==
    ASSUME IInv, NEW ls \in Batches, Forget(ls)
    PROVE  IInv' /\ [E!Next]_(E!vars)
<1>0. /\ ls \in SUBSET recorded /\ recorded' = recorded \ ls
      /\ counted' = Uncounted(ls) /\ gone' = gone \cup ls
      /\ UNCHANGED <<page, request, worker, catalog, made>>
    BY DEF Forget
<1>1. /\ recorded' \in SUBSET made' /\ gone' \in SUBSET made'
      /\ counted' \in [Looks -> {0, 1}]
      /\ E!CountedOnce'
      /\ E!Next
    BY <1>0, UncountedKeeps
<1>2. TypeOK' /\ BatchesAreMade' /\ HoldsWhatItSent' /\ FreshKeys'
    BY <1>0, <1>1 DEF IInv, TypeOK, BatchesAreMade, HoldsWhatItSent, FreshKeys, page, worker
<1>3. \A i \in Ids : Stays(i)' = Stays(i)
    BY <1>0 DEF Stays, worker
<1> QED BY <1>0, <1>1, <1>2, <1>3 DEF IInv, AllCovered, Covered, page, worker

LEMMA DeletePostStep ==
    ASSUME IInv, NEW p \in Posts, DeletePost(p)
    PROVE  IInv' /\ [E!Next]_(E!vars)
<1> DEFINE ls == {l \in recorded : PostOf[l] = p}
<1>0. /\ ls \in SUBSET recorded /\ recorded' = recorded \ ls
      /\ counted' = Uncounted(ls) /\ gone' = gone \cup ls
      /\ catalog' = catalog \ {p}
      /\ UNCHANGED <<page, request, worker, made>>
    BY DEF DeletePost
<1> HIDE DEF ls
<1>1. /\ recorded' \in SUBSET made' /\ gone' \in SUBSET made'
      /\ counted' \in [Looks -> {0, 1}]
      /\ E!CountedOnce'
      /\ E!Next
    BY <1>0, UncountedKeeps
<1>2. TypeOK' /\ BatchesAreMade' /\ HoldsWhatItSent' /\ FreshKeys'
    BY <1>0, <1>1 DEF IInv, TypeOK, BatchesAreMade, HoldsWhatItSent, FreshKeys, page, worker
<1>3. \A i \in Ids : Stays(i)' = Stays(i)
    BY <1>0 DEF Stays, worker
<1> QED BY <1>0, <1>1, <1>2, <1>3 DEF IInv, AllCovered, Covered, page, worker

LEMMA PersistStep ==
    ASSUME IInv, NEW p \in Posts, Persist(p)
    PROVE  IInv' /\ [E!Next]_(E!vars)
<1>1. TypeOK' /\ BatchesAreMade' /\ HoldsWhatItSent' /\ FreshKeys' /\ E!CountedOnce'
    BY DEF Persist, IInv, TypeOK, BatchesAreMade, HoldsWhatItSent, FreshKeys, E!CountedOnce,
           page, worker, ghosts
<1>2. \A i \in Ids : Stays(i)' = Stays(i)
    BY DEF Persist, Stays, worker
<1> QED BY <1>1, <1>2 DEF Persist, IInv, AllCovered, Covered, page, worker, ghosts, E!vars

-----------------------------------------------------------------------------
LEMMA NextKeepsIInv == IInv /\ [Next]_vars => IInv' /\ [E!Next]_(E!vars)
<1> SUFFICES ASSUME IInv, [Next]_vars PROVE IInv' /\ [E!Next]_(E!vars)
    OBVIOUS
<1>1. ASSUME NEW t \in Tabs, NEW l \in Looks, Push(t, l)
      PROVE  IInv' /\ [E!Next]_(E!vars)
    BY <1>1, PushStep
<1>2. ASSUME NEW t \in Tabs, Debounce(t) \/ Hide(t) \/ Kill(t)
      PROVE  IInv' /\ [E!Next]_(E!vars)
    BY <1>2, FlushStep, KillStep
<1>3a. sync \in Syncs
    BY DEF IInv, TypeOK, Syncs
<1>3. ASSUME NEW q \in Requests, Arrive(q) \/ Answered(q) \/ Fail(q) \/ Keep(q) \/ ScheduleSync(q)
      PROVE  IInv' /\ [E!Next]_(E!vars)
  <2>1. CASE Arrive(q)
    BY <2>1, ArriveStep
  <2>2. CASE Answered(q)
    <3>1. request[q].at = "ok" \/ gone' = gone \cup request[q].looks
        BY <2>2 DEF Answered, Answers
    <3> QED BY <2>2, <3>1, <1>3a, EndKeeps DEF Answered, worker
  <2>3. CASE Fail(q)
    BY <2>3, <1>3a, EndKeeps DEF Fail, worker
  <2>4. CASE Keep(q)
    BY <2>4, KeepStep
  <2>5. CASE ScheduleSync(q)
    BY <2>5, ScheduleSyncStep
  <2> QED BY <1>3, <2>1, <2>2, <2>3, <2>4, <2>5
<1>4. ASSUME NEW r \in Replays, StartReplay(r) \/ Refused(r) \/ Skip(r) \/ Finish(r) \/ Stop(r)
      PROVE  IInv' /\ [E!Next]_(E!vars)
    BY <1>4, StartReplayStep, RefusedStep, SkipStep, EndReplayStep
<1>5. ASSUME NEW r \in Replays, NEW i \in Ids,
             SendAgain(r, i) \/ Accepted(r, i) \/ RemovePending(r, i)
      PROVE  IInv' /\ [E!Next]_(E!vars)
    BY <1>5, SendAgainStep, AcceptedStep, RemovePendingStep
<1>6. ASSUME NEW p \in Posts, Persist(p) \/ DeletePost(p)
      PROVE  IInv' /\ [E!Next]_(E!vars)
    BY <1>6, PersistStep, DeletePostStep
<1>7. ASSUME NEW ls \in Batches, Forget(ls)
      PROVE  IInv' /\ [E!Next]_(E!vars)
    BY <1>7, ForgetStep
<1>8. CASE UNCHANGED vars
  <2>1. IInv'
    BY <1>8 DEF IInv, TypeOK, BatchesAreMade, HoldsWhatItSent, FreshKeys, E!CountedOnce, AllCovered,
                Covered, Stays, vars
  <2> QED BY <1>8, <2>1 DEF vars, E!vars
<1> QED BY <1>1, <1>2, <1>3, <1>4, <1>5, <1>6, <1>7, <1>8 DEF Next, Handle

LEMMA InvariantOfDelivery == Spec => []IInv
<1>1. IInv /\ [Next]_vars => IInv'
    BY NextKeepsIInv
<1> QED BY InitIInv, <1>1, PTL DEF Spec

\* Every variable keeps its type.
THEOREM TypeCorrect == Spec => []TypeOK
<1>1. IInv => TypeOK
    BY DEF IInv
<1> QED BY InvariantOfDelivery, <1>1, PTL

\* A look that was made is somewhere on its way, recorded, or known to be gone,
\* whatever the network, the browser and overlapping replays do (resp.ok).
THEOREM NothingVanishes == Spec => []NoLookVanishes
<1>1. IInv => NoLookVanishes
    BY DEF IInv, AllCovered, Covered, NoLookVanishes, Buffered, Underway, Kept
<1> QED BY InvariantOfDelivery, <1>1, PTL

\* The delivery implements Evidence: at-least-once delivery of idempotent
\* batches records and counts each look once (INSERT OR IGNORE).
THEOREM DeliveryIsEvidence == Spec => EvidenceOnce
<1>1. Init => E!Init
    BY DEF Init, E!Init
<1>2. IInv /\ [Next]_vars => [E!Next]_(E!vars)
    BY NextKeepsIInv
<1> QED BY InvariantOfDelivery, <1>1, <1>2, PTL DEF Spec, E!Spec, EvidenceOnce

\* What a look adds to the feedback is one while its row is there, and nothing
\* before and after (inserted > 0).
THEOREM CountedWithItsRow == Spec => []E!CountedOnce
<1>1. IInv => E!CountedOnce
    BY DEF IInv
<1> QED BY InvariantOfDelivery, <1>1, PTL
=============================================================================
