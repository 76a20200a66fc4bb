----------------------------- MODULE FeedSession -----------------------------
(***************************************************************************)
(* The session-scoped dedup of one scroll: feed_sessions and                *)
(* feed_session_posts (db/sessions.rs), the two recommendation routes that  *)
(* touch, read and record them in transactions of their own                 *)
(* (routes/feed.rs), and the browser tab that keeps one session id across   *)
(* account switches and has at most one page request outstanding.           *)
(*                                                                          *)
(* A tick is half a minute, so that whole minutes can be rounded down the   *)
(* way the code rounds them.                                                *)
(***************************************************************************)
EXTENDS Naturals

CONSTANTS
    Accounts,
    Tabs,       \* a tab mints its session id once
    Posts,      \* posts the pipeline may select, after every durable filter
    Requests,   \* page requests the server is working on
    TtlMin,     \* FEED_SESSION_TTL_MIN
    NoRequest   \* no request outstanding

ASSUME RequestsOK == NoRequest \notin Requests /\ TtlMin \in Nat

Keys == Tabs \X Accounts        \* PRIMARY KEY (session_id, account_id)

\* Long enough for a session to be expired in every sense.
MaxIdle == 2 * (TtlMin + 1)

VARIABLES
    live,       \* keys with a row in feed_sessions
    idle,       \* idle[k]: half minutes since last_accessed_at
    shown,      \* shown[k]: feed_session_posts
    request,    \* request[q]: where the server stands
    awaited,    \* awaited[t]: the request tab t waits for, or NoRequest
    \* ghosts, reset with the row
    rendered,   \* posts delivered to the tab while its session was in time
    repeated    \* keys that got a post twice while their session was in time

vars == <<live, idle, shown, request, awaited, rendered, repeated>>

Free == [at |-> "free"]

Serving == [at : {"sent", "touched", "read"}, key : Keys,
            state : {"unknown", "fresh", "active", "expired"}, exclude : SUBSET Posts]

TypeOK ==
    /\ live \subseteq Keys
    /\ idle \in [Keys -> 0..MaxIdle]
    /\ shown \in [Keys -> SUBSET Posts]
    /\ \A k \in Keys \ live : shown[k] = {}
    /\ request \in [Requests -> Serving \cup {Free}]
    /\ awaited \in [Tabs -> Requests \cup {NoRequest}]
    /\ rendered \in [Keys -> SUBSET Posts]
    /\ repeated \subseteq Keys

Init ==
    /\ live = {}
    /\ idle = [k \in Keys |-> 0]
    /\ shown = [k \in Keys |-> {}]
    /\ request = [q \in Requests |-> Free]
    /\ awaited = [t \in Tabs |-> NoRequest]
    /\ rendered = [k \in Keys |-> {}]
    /\ repeated = {}

ghosts == <<rendered, repeated>>

-----------------------------------------------------------------------------
(* Mistakes this code could make, each put in place of a definition below to
   see that a property notices it *)

TouchAnyway(k) == FALSE

RecordActiveOnly(state) == state = "active"

AnySession(k) == TRUE

RowsOfSessions(a) == {k \in live : <<k[1], a>> \in live}

-----------------------------------------------------------------------------
(* The browser *)

\* The tab asks for the next page of the account it has selected.
Send(t, a, q) ==
    /\ awaited[t] = NoRequest
    /\ request[q] = Free
    /\ request' = [request EXCEPT ![q] =
           [at |-> "sent", key |-> <<t, a>>, state |-> "unknown", exclude |-> {}]]
    /\ awaited' = [awaited EXCEPT ![t] = q]
    /\ UNCHANGED <<live, idle, shown, ghosts>>

\* The response is lost, or the page goes away: the server works on.
GiveUp(t) ==
    /\ awaited[t] # NoRequest
    /\ awaited' = [awaited EXCEPT ![t] = NoRequest]
    /\ UNCHANGED <<live, idle, shown, request, ghosts>>

-----------------------------------------------------------------------------
(* The routes *)

\* num_minutes() rounds down.
Expired(k) == idle[k] \div 2 > TtlMin

Advance(q, at, state, exclude) ==
    request' = [request EXCEPT ![q] =
        [at |-> at, key |-> @.key, state |-> state, exclude |-> exclude]]

\* touch_or_create_feed_session, one transaction.
Touch(q) ==
    /\ request[q].at = "sent"
    /\ LET k == request[q].key
       IN  \/ /\ k \notin live
              /\ live' = live \cup {k}
              /\ idle' = [idle EXCEPT ![k] = 0]
              /\ Advance(q, "read", "fresh", {})
           \/ /\ k \in live /\ Expired(k)
              /\ Advance(q, "read", "expired", {})
              /\ UNCHANGED <<live, idle>>
           \/ /\ k \in live /\ ~Expired(k)
              /\ idle' = [idle EXCEPT ![k] = 0]
              /\ Advance(q, "touched", "active", {})
              /\ UNCHANGED live
    /\ UNCHANGED <<shown, awaited, ghosts>>

\* get_session_shown_post_ids: only an active session has a history to load.
ReadShown(q) ==
    /\ request[q].at = "touched"
    /\ Advance(q, "read", request[q].state, shown[request[q].key])
    /\ UNCHANGED <<live, idle, shown, awaited, ghosts>>

Recordable(state) == state # "expired"

\* The session must belong to the account before its set is written.
OwnsSession(k) == k \in live

\* The page reaches the tab, if the tab still waits for this request.
Deliver(q, page) ==
    LET k == request[q].key
        t == k[1]
        state == request[q].state
    IN  IF awaited[t] # q THEN UNCHANGED <<awaited, ghosts>>
        ELSE /\ awaited' = [awaited EXCEPT ![t] = NoRequest]
             /\ \/ state = "expired" /\ UNCHANGED ghosts
                \/ /\ state # "expired"
                   /\ rendered' = [rendered EXCEPT ![k] = @ \cup page]
                   /\ repeated' = IF page \cap rendered[k] = {} THEN repeated
                                  ELSE repeated \cup {k}

\* The pipeline selects a page and record_session_shown_posts writes it.
Finish(q, page) ==
    /\ request[q].at = "read"
    /\ page \subseteq Posts \ request[q].exclude
    /\ LET k == request[q].key
       IN  \/ /\ ~Recordable(request[q].state) \/ page = {}
              /\ UNCHANGED shown
           \/ /\ Recordable(request[q].state) /\ page # {} /\ OwnsSession(k)
              /\ shown' = [shown EXCEPT ![k] = @ \cup page]
    /\ Deliver(q, page)
    /\ request' = [request EXCEPT ![q] = Free]
    /\ UNCHANGED <<live, idle>>

\* The row went away after the touch: the route answers with an error.
Refuse(q) ==
    /\ request[q].at = "read" /\ Recordable(request[q].state)
    /\ ~OwnsSession(request[q].key)
    /\ request' = [request EXCEPT ![q] = Free]
    /\ awaited' = [t \in Tabs |-> IF awaited[t] = q THEN NoRequest ELSE awaited[t]]
    /\ UNCHANGED <<live, idle, shown, ghosts>>

-----------------------------------------------------------------------------
(* The sweeps *)

\* Rows go with their posts (ON DELETE CASCADE, PRUNE_SESSION_POSTS_SQL).
DeleteRows(keys) ==
    /\ live' = live \ keys
    /\ idle' = [k \in Keys |-> IF k \in keys THEN 0 ELSE idle[k]]
    /\ shown' = [k \in Keys |-> IF k \in keys THEN {} ELSE shown[k]]
    /\ rendered' = [k \in Keys |-> IF k \in keys THEN {} ELSE rendered[k]]
    /\ UNCHANGED <<request, awaited, repeated>>

ClearedRows(a) == {k \in live : k[2] = a}

\* The session part of clear_feed_interactions.
Clear(a) ==
    /\ ClearedRows(a) # {}
    /\ DeleteRows(ClearedRows(a))

PastCutoff == {k \in live : idle[k] > 2 * TtlMin}

\* prune_expired_sessions
Prune ==
    /\ PastCutoff # {}
    /\ DeleteRows(PastCutoff)

\* Bound: a request that has touched its session answers within the tick.
Tick ==
    /\ \A q \in Requests : request[q].at \in {"free", "sent"}
    /\ \E k \in live : idle[k] < MaxIdle
    /\ idle' = [k \in Keys |-> IF k \in live /\ idle[k] < MaxIdle THEN idle[k] + 1 ELSE idle[k]]
    /\ UNCHANGED <<live, shown, request, awaited, ghosts>>

Next ==
    \/ \E t \in Tabs, a \in Accounts, q \in Requests : Send(t, a, q)
    \/ \E t \in Tabs : GiveUp(t)
    \/ \E q \in Requests :
         Touch(q) \/ ReadShown(q) \/ Refuse(q) \/ \E page \in SUBSET Posts : Finish(q, page)
    \/ \E a \in Accounts : Clear(a)
    \/ Prune
    \/ Tick

Spec == Init /\ [][Next]_vars

\* Time passes and the pruner's loop comes round.
FairSpec == Spec /\ WF_vars(Tick) /\ WF_vars(Prune)

-----------------------------------------------------------------------------
(* Properties *)

\* While its session row lives and is in time, a scroll never gets a post twice,
\* whatever requests were abandoned, cleared or pruned on the way ("keep a
\* single scroll from re-serving the page it just rendered",
\* docs/development.md, Feed deduplication).
NoRepeatInScroll == repeated = {}

\* A scroll set belongs to one account: no step changes the sets of two accounts
\* that share a tab, unless both have expired (V37, "clear_feed_interactions for
\* one account wiped the other's scroll set").
AccountsAreIndependent ==
    [][\A k, j \in Keys :
           shown'[k] # shown[k] /\ shown'[j] # shown[j] =>
               k[2] = j[2] \/ (idle[k] > 2 * TtlMin /\ idle[j] > 2 * TtlMin)]_vars

\* An expired session is collected, however often its tab keeps asking ("Don't
\* touch - let the prune sweep collect it", touch_or_create_feed_session).
ExpiredSessionsAreCollected ==
    \A k \in Keys : (k \in live /\ idle[k] > 2 * TtlMin + 1) ~> (k \notin live)
=============================================================================
