------------------------ MODULE InteractionDelivery ------------------------
(***************************************************************************)
(* How a look gets from a card to the database: the buffer of a tab with    *)
(* its debounce timer and its flush on unload (interaction_queue.rs), the   *)
(* service worker that keeps what the network refused and replays it later  *)
(* (sw.js), and the batch route (routes/feed.rs, db/feed.rs).               *)
(*                                                                          *)
(* Any request may fail before it reaches the server or after the server    *)
(* has answered it, a tab may be killed, the browser may stop the worker    *)
(* between any two steps, and two replays may overlap.                      *)
(***************************************************************************)
EXTENDS Naturals, FiniteSets

CONSTANTS
    Looks,    \* one event of one tab session about one post
    Posts,
    PostOf,   \* PostOf[l]: the post a look is about
    Opens,    \* looks that are open events
    Tabs,
    Requests, \* POSTs of the pages under way at once
    Replays,  \* the handlers of the sync and of the periodic sync event
    Sync,     \* the one of them that a registered sync starts
    Ids,      \* keys of the outbox in use at once
    FlushAt,  \* FLUSH_AT
    None

ASSUME DeliveryConstantsOK ==
    /\ PostOf \in [Looks -> Posts] /\ Opens \subseteq Looks
    /\ IsFiniteSet(Looks) /\ FlushAt \in Nat \ {0}
    /\ None \notin Ids /\ Sync \in Replays

VARIABLES
    buffer,   \* buffer[t]: TASK
    timer,    \* timer[t]: TIMER_ID
    request,  \* request[q]: a page's batch, and what became of it
    outbox,   \* outbox[i]: the batch in PENDING_STORE under key i
    replay,   \* replay[r]: the batches r still has to send, and the one it sent
    sync,     \* the browser's registration of SYNC_TAG; "lost" if it is gone
              \* although no replay has been through the outbox for it
    catalog,  \* posts with a row
    recorded, \* rows of feed_interactions
    counted,  \* counted[l]: what l adds to account_tag_feedback
    \* ghosts
    made,     \* looks a card reported
    gone      \* looks of a dropped batch or taken back, and not made again since

vars == <<buffer, timer, request, outbox, replay, sync, catalog, recorded, counted, made, gone>>
page == <<buffer, timer>>
worker == <<outbox, replay, sync>>
server == <<catalog, recorded, counted>>
ghosts == <<made, gone>>

Answers == {"ok", "refused"}

Batches == SUBSET Looks

NoBatches == [i \in Ids |-> {}]

TypeOK ==
    /\ buffer \in [Tabs -> Batches]
    /\ timer \in [Tabs -> {"none", "armed"}]
    /\ request \in [Requests -> [at : {"free", "sent", "kept"} \cup Answers, looks : Batches]]
    /\ outbox \in [Ids -> Batches]
    /\ replay \in [Replays -> [at : {"idle", "next", "sent"} \cup Answers,
                               id : Ids \cup {None}, todo : [Ids -> Batches]]]
    /\ sync \in {"none", "registered", "lost"}
    /\ catalog \in SUBSET Posts
    /\ recorded \in SUBSET made /\ counted \in [Looks -> {0, 1}]
    /\ made \in SUBSET Looks /\ gone \in SUBSET made

Free == [at |-> "free", looks |-> {}]

Idle == [at |-> "idle", id |-> None, todo |-> NoBatches]

Init ==
    /\ buffer = [t \in Tabs |-> {}] /\ timer = [t \in Tabs |-> "none"]
    /\ request = [q \in Requests |-> Free]
    /\ outbox = NoBatches /\ replay = [r \in Replays |-> Idle] /\ sync = "none"
    /\ catalog = Posts
    /\ recorded = {} /\ counted = [l \in Looks |-> 0]
    /\ made = {} /\ gone = {}

-----------------------------------------------------------------------------
(* Mistakes this code could make, each put in place of a definition below to
   see that a property notices it *)

AllOfThem(batch) == batch

OnAnyAnswer(r) == replay[r].at \in Answers

StillCounted(ls) == counted

UnlessReplaying == IF \A r \in Replays : replay[r].at = "idle" THEN {"registered"} ELSE {sync}

-----------------------------------------------------------------------------
(* The server *)

\* INSERT OR IGNORE: a look whose row is there changes nothing.
Fresh(batch) == batch \ recorded

\* record_feed_interactions_batch
Accept(batch) ==
    /\ \A l \in batch \ recorded : PostOf[l] \in catalog
    /\ recorded' = recorded \cup batch
    /\ counted' = [l \in Looks |-> IF l \in Fresh(batch) THEN counted[l] + 1 ELSE counted[l]]
    /\ UNCHANGED catalog

\* A post without a row, a device token out of scope, the rate limit: the
\* batch is refused as a whole.
Refuse == UNCHANGED server

Uncounted(ls) == [l \in Looks |-> IF l \in ls THEN 0 ELSE counted[l]]

\* Undo of an event, or a clear of the account.
Forget(ls) ==
    /\ ls # {} /\ ls \subseteq recorded
    /\ recorded' = recorded \ ls
    /\ counted' = Uncounted(ls)
    /\ gone' = gone \cup ls
    /\ UNCHANGED <<page, request, worker, catalog, made>>

Persist(p) ==
    /\ p \notin catalog /\ catalog' = catalog \cup {p}
    /\ UNCHANGED <<page, request, worker, recorded, counted, ghosts>>

\* A catalog delete takes the interactions of the post.
DeletePost(p) ==
    LET cascade == {l \in recorded : PostOf[l] = p}
    IN  /\ p \in catalog /\ catalog' = catalog \ {p}
        /\ recorded' = recorded \ cascade
        /\ counted' = Uncounted(cascade)
        /\ gone' = gone \cup cascade
        /\ UNCHANGED <<page, request, worker, made>>

-----------------------------------------------------------------------------
(* The page *)

Cleared == "none"

\* flush, flush_keepalive: the timer is cleared and the buffer sent.
Flushed(t, batch) ==
    /\ buffer' = [buffer EXCEPT ![t] = {}]
    /\ timer' = [timer EXCEPT ![t] = Cleared]
    /\ IF batch = {} THEN UNCHANGED request
       ELSE \E q \in Requests :
              /\ request[q] = Free
              /\ request' = [request EXCEPT ![q] = [at |-> "sent", looks |-> batch]]

Push(t, l) ==
    LET batch == buffer[t] \cup {l}
    IN  /\ made' = made \cup {l} /\ gone' = gone \ {l}
        /\ IF l \in Opens \/ Cardinality(batch) >= FlushAt
           THEN Flushed(t, batch)
           ELSE /\ buffer' = [buffer EXCEPT ![t] = batch]
                /\ timer' = [timer EXCEPT ![t] = IF @ = "none" THEN "armed" ELSE @]
                /\ UNCHANGED request
        /\ UNCHANGED <<worker, server>>

\* The debounce timer fires.
Debounce(t) ==
    /\ timer[t] = "armed"
    /\ Flushed(t, buffer[t])
    /\ UNCHANGED <<worker, server, ghosts>>

\* pagehide, or visibilitychange on a hidden document.
Hide(t) ==
    /\ Flushed(t, buffer[t])
    /\ UNCHANGED <<worker, server, ghosts>>

\* The tab ends without an event, and starts again.
Kill(t) ==
    /\ buffer' = [buffer EXCEPT ![t] = {}] /\ timer' = [timer EXCEPT ![t] = "none"]
    /\ gone' = gone \cup buffer[t]
    /\ UNCHANGED <<request, worker, server, made>>

Arrive(q) ==
    /\ request[q].at = "sent"
    /\ \/ Accept(request[q].looks) /\ request' = [request EXCEPT ![q].at = "ok"]
       \/ Refuse /\ request' = [request EXCEPT ![q].at = "refused"]
    /\ UNCHANGED <<page, worker, ghosts>>

\* The page looks at no status: a refused batch is dropped.
Answered(q) ==
    /\ request[q].at \in Answers
    /\ request' = [request EXCEPT ![q] = Free]
    /\ gone' = IF request[q].at = "refused" THEN gone \cup request[q].looks ELSE gone
    /\ UNCHANGED <<page, worker, server, made>>

\* The network fails, with or without the server having seen the batch, and no
\* service worker stands in between.
Fail(q) ==
    /\ request[q].at \in {"sent"} \cup Answers
    /\ request' = [request EXCEPT ![q] = Free]
    /\ gone' = gone \cup request[q].looks
    /\ UNCHANGED <<page, worker, server, made>>

-----------------------------------------------------------------------------
(* The service worker *)

\* uniqueId: no batch that is stored or still to be sent has the key.
Unused(i) == outbox[i] = {} /\ \A r \in Replays : replay[r].todo[i] = {}

Keeping == [at |-> "kept", looks |-> {}]

\* handleInteractionPost: the batch is stored, or it cannot be, because its
\* body is used up or the store fails; the page is told 202 in either case.
Keep(q) ==
    /\ request[q].at \in {"sent"} \cup Answers
    /\ request' = [request EXCEPT ![q] = Keeping]
    /\ \/ \E i \in Ids :
            /\ Unused(i)
            /\ outbox' = [outbox EXCEPT ![i] = request[q].looks]
            /\ UNCHANGED gone
       \/ gone' = gone \cup request[q].looks /\ UNCHANGED outbox
    /\ UNCHANGED <<page, replay, sync, server, made>>

\* A registration that is there already stays.
Lost == IF sync = "registered" THEN sync ELSE "lost"

AfterAsking == {"registered", Lost}

\* scheduleSync: the browser may not know background sync, refuse it, or stop
\* the worker before it is asked.
ScheduleSync(q) ==
    /\ request[q].at = "kept"
    /\ request' = [request EXCEPT ![q] = Free]
    /\ sync' \in AfterAsking
    /\ UNCHANGED <<page, outbox, replay, server, ghosts>>

\* replayPendingEvents: getAllPending, which takes an outbox that cannot be read
\* for an empty one.  A sync uses its registration up; a periodic sync comes when
\* the browser likes, if the app is installed and may have it.
StartReplay(r) ==
    LET Listed(todo, rest) ==
            /\ replay' = [replay EXCEPT ![r] = [at |-> "next", id |-> None, todo |-> todo]]
            /\ sync' = IF r = Sync THEN rest ELSE sync
    IN  /\ replay[r].at = "idle" /\ (r = Sync => sync = "registered")
        /\ Listed(outbox, "none") \/ Listed(NoBatches, "lost")
        /\ UNCHANGED <<page, request, outbox, server, ghosts>>

SendAgain(r, i) ==
    /\ replay[r].at = "next" /\ replay[r].todo[i] # {}
    /\ replay' = [replay EXCEPT ![r].at = "sent", ![r].id = i]
    /\ UNCHANGED <<page, request, outbox, sync, server, ghosts>>

Accepted(r, i) ==
    /\ replay[r].at = "sent" /\ replay[r].id = i
    /\ Accept(replay[r].todo[i])
    /\ replay' = [replay EXCEPT ![r].at = "ok"]
    /\ UNCHANGED <<page, request, outbox, sync, ghosts>>

Refused(r) ==
    /\ replay[r].at = "sent"
    /\ Refuse
    /\ replay' = [replay EXCEPT ![r].at = "refused"]
    /\ UNCHANGED <<page, request, outbox, sync, ghosts>>

Onward(r) ==
    LET rest == [replay[r].todo EXCEPT ![replay[r].id] = {}]
    IN  [replay EXCEPT ![r] = [at |-> "next", id |-> None, todo |-> rest]]

Done(r) == replay[r].at = "ok"

\* removePending
RemovePending(r, i) ==
    /\ Done(r) /\ replay[r].id = i
    /\ outbox' = [outbox EXCEPT ![i] = {}]
    /\ replay' = Onward(r)
    /\ UNCHANGED <<page, request, sync, server, ghosts>>

\* A refusal or a failure of the network, whose batch is kept.
Skip(r) ==
    /\ replay[r].at \in {"sent"} \cup Answers
    /\ replay' = Onward(r)
    /\ UNCHANGED <<page, request, outbox, sync, server, ghosts>>

\* The loop is through.  The event has succeeded, whatever is still in the outbox:
\* the browser does not try again.
Finish(r) ==
    /\ replay[r].at = "next" /\ replay[r].todo = NoBatches
    /\ replay' = [replay EXCEPT ![r] = Idle]
    /\ UNCHANGED <<page, request, outbox, sync, server, ghosts>>

\* The browser stops the worker.  It tries a sync again, or gives it up.
Stop(r) ==
    /\ replay[r].at # "idle"
    /\ replay' = [replay EXCEPT ![r] = Idle]
    /\ IF r = Sync THEN sync' \in {"registered", Lost} ELSE UNCHANGED sync
    /\ UNCHANGED <<page, request, outbox, server, ghosts>>

Handle(r) ==
    \/ Refused(r) \/ Skip(r) \/ Finish(r)
    \/ \E i \in Ids : SendAgain(r, i) \/ Accepted(r, i) \/ RemovePending(r, i)

Next ==
    \/ \E t \in Tabs : Debounce(t) \/ Hide(t) \/ Kill(t) \/ \E l \in Looks : Push(t, l)
    \/ \E q \in Requests : Arrive(q) \/ Answered(q) \/ Fail(q) \/ Keep(q) \/ ScheduleSync(q)
    \/ \E r \in Replays : StartReplay(r) \/ Handle(r) \/ Stop(r)
    \/ \E p \in Posts : Persist(p) \/ DeletePost(p)
    \/ \E ls \in Batches : Forget(ls)

Spec == Init /\ [][Next]_vars

\* Timers fire, requests end, a registered sync starts its handler, and a handler
\* that is not stopped runs on.  The browser gives a sync up before it has stopped
\* it for ever, so one that it starts again and again gets to each batch.  Nothing
\* is asked of periodic syncs, nor that anything is ever accepted.
Fairness ==
    /\ \A t \in Tabs : WF_vars(Debounce(t))
    /\ \A q \in Requests :
         WF_vars(Arrive(q) \/ Answered(q) \/ Fail(q) \/ Keep(q) \/ ScheduleSync(q))
    /\ WF_vars(StartReplay(Sync)) /\ WF_vars(Handle(Sync))
    /\ \A i \in Ids : SF_vars(SendAgain(Sync, i))

FairSpec == Spec /\ Fairness

-----------------------------------------------------------------------------
(* Properties *)

E == INSTANCE Evidence WITH Looks <- Looks, made <- made, recorded <- recorded, counted <- counted

\* Delivery at least once, out of order, with batches repeated by replays that
\* overlap and by answers that were lost, is evidence exactly once ("the batch
\* is idempotent on the server", flush_keepalive).
EvidenceOnce == E!Spec

Buffered == UNION {buffer[t] : t \in Tabs}
Underway == UNION {request[q].looks : q \in Requests}
Kept == UNION {outbox[i] : i \in Ids}

\* No look vanishes on its way: it is in a buffer, in a request, in the outbox
\* or in the database, unless a batch it was in was dropped or it was taken
\* back.  A replay takes nothing out that the server has not recorded
\* (resp.ok, replayPendingEvents).
NoLookVanishes == made \subseteq Buffered \cup Underway \cup Kept \cup recorded \cup gone

Sending(l) == \E r \in Replays : replay[r].at = "sent" /\ l \in replay[r].todo[replay[r].id]

\* A look does not stay in the page: it is recorded, given up, or kept by the
\* worker and sent again at least once, whatever becomes of the others in the
\* outbox; unless the browser refused or dropped the sync (schedule_debounce,
\* scheduleSync, replayPendingEvents).  A batch that is kept while a replay is in
\* its loop gets a sync of its own.  That a look arrives is promised to nobody: a
\* batch that its replay could not deliver waits until another one is kept.
LookGetsItsTry ==
    \A l \in Looks :
        l \in Buffered \cup Underway ~>
            \/ l \in recorded \cup gone
            \/ Sending(l)
            \/ l \in Kept /\ sync = "lost"
=============================================================================
