------------------------------ MODULE EventIngest ------------------------------
(***************************************************************************)
(* The requests that bring events in: /events (receive_events) and the     *)
(* tracker's /c (collect_event), one event each, in the production mode    *)
(* (EVENT_INGEST_MODE=redis_stream).  A request passes three stores, each  *)
(* in Redis with a fallback in Postgres: the deduplication keys, the usage *)
(* counter, the queue.  Redis calls take effect at once; what is done in   *)
(* Postgres is one transaction, committed at the end or rolled back.       *)
(* Where no REDIS_URL is set, everything is in that transaction.           *)
(*                                                                         *)
(* The usage windows are one counter with one limit, the minute's; held    *)
(* Purchases are PurchaseFlow's.  USAGE_DB_SYNC_IN_REQUEST is off.         *)
(***************************************************************************)
EXTENDS StreamBridge

CONSTANTS
    Slots,             \* requests in flight
    Configured,        \* the choices of REDIS_URL that are looked at: is it set?
    Limit,             \* clients.rate_limit
    MaxRequests,       \* bound: requests
    MaxCallFailures,   \* bound: Redis calls and database calls that fail
    MaxWebCrashes      \* bound: web processes that die in the middle of a request

ASSUME IngestAssumption ==
    /\ IsFiniteSet(Slots)
    /\ Configured \subseteq BOOLEAN
    /\ {Limit, MaxRequests, MaxCallFailures, MaxWebCrashes} \subseteq Nat

VARIABLES
    redis,    \* is REDIS_URL set?
    req,      \* req[s]: a request in flight
    dedup,    \* deduplication keys in Redis, and the committed rows of event_dedup
    usage,    \* the counter in Redis, and the committed row of usage_counters
    past,     \* history: what was queued (and how often), answered "queued", refused, failed
    spent     \* how much of each bound a behaviour has used

vars == <<streamVars, redis, req, dedup, usage, past, spent>>

Routes == {"events", "collect"}
Steps  == {"reserve", "reserveDB", "lua", "rate", "unrate", "count", "uncount", "countDB",
           "enqueue", "commit", "undo"}

\* fast: the tracker's path without the database.  tx: what the transaction
\* has written and not committed: a key, a count, an outbox row.
Free == [at |-> "free"]
Requests == [at: Steps, id: Ids, route: Routes, fast: BOOLEAN, tx: SUBSET {"key", "count", "row"}]

TypeOK ==
    /\ StreamTypeOK
    /\ redis \in Configured
    /\ req \in [Slots -> Requests \cup {Free}]
    /\ dedup \in [redis: SUBSET Ids, db: SUBSET Ids]
    /\ usage \in [redis: Nat, db: 0 .. Limit]
    /\ past \in [queued: [Ids -> Nat], total: Nat, told: SUBSET Ids, refused: SUBSET Ids,
                 failures: [Ids -> Nat]]
    /\ spent \in [requests: 0 .. MaxRequests, failures: 0 .. MaxCallFailures,
                  crashes: 0 .. MaxWebCrashes]

Init ==
    /\ StreamInit
    /\ redis \in Configured
    /\ req = [s \in Slots |-> Free]
    /\ dedup = [redis |-> {}, db |-> {}]
    /\ usage = [redis |-> 0, db |-> 0]
    /\ past = [queued |-> [e \in Ids |-> 0], total |-> 0, told |-> {}, refused |-> {},
               failures |-> [e \in Ids |-> 0]]
    /\ spent = [requests |-> 0, failures |-> 0, crashes |-> 0]

-----------------------------------------------------------------------------
At(s, step)     == req[s].at = step
GoesTo(s, step) == req' = [req EXCEPT ![s].at = step]
Ends(s)         == req' = [req EXCEPT ![s] = Free]

\* Another transaction has written the same row and is not at its end.
Locked(s, what, ids) ==
    \E t \in Slots \ {s} : ~At(t, "free") /\ what \in req[t].tx /\ req[t].id \in ids

\* The history when the event is n times more in the queue
Queued(s, n) == [past EXCEPT !.queued[req[s].id] = @ + n, !.total = @ + n]

\* A call that fails: the code sees an exception, whether or not it took effect.
Fails(s, n) ==
    /\ spent.failures < MaxCallFailures
    /\ spent' = [spent EXCEPT !.failures = @ + 1]
    /\ past' = [Queued(s, n) EXCEPT !.failures[req[s].id] = @ + 1]

BridgeUnchanged == UNCHANGED <<group, bridge, rows, deleted, bridgeSpent>>

Arrives(s) ==
    /\ At(s, "free")
    /\ spent.requests < MaxRequests
    /\ spent' = [spent EXCEPT !.requests = @ + 1]
    /\ \E e \in Ids, route \in Routes :
           req' = [req EXCEPT ![s] = [at |-> IF redis THEN "reserve" ELSE "reserveDB", id |-> e,
                                      route |-> route, fast |-> redis /\ route = "collect",
                                      tx |-> {}]]
    /\ UNCHANGED <<streamVars, dedup, usage, past>>

-----------------------------------------------------------------------------
(* Deduplication.  What follows is, for /events, quota and queue in one     *)
(* Redis script; for the tracker the rate only, or on its slow path, after  *)
(* Redis has failed once, the quota.                                        *)

Reserved(s, how) ==
    req' = [req EXCEPT ![s].tx = @ \cup how,
                       ![s].at = IF ~redis THEN "countDB"
                                 ELSE IF req[s].route = "events" THEN "lua"
                                 ELSE IF req[s].fast THEN "rate" ELSE "count"]

\* Fault: the key is looked at and not set.
ReserveUnset(s) ==
    /\ At(s, "reserve")
    /\ \/ req[s].id \in dedup.redis /\ Ends(s)
       \/ req[s].id \notin dedup.redis /\ Reserved(s, {})
    /\ UNCHANGED <<streamVars, dedup, usage, past, spent>>

\* SET NX; a key that was there is answered "deduplicated".
Reserve(s) ==
    /\ At(s, "reserve")
    /\ \/ req[s].id \in dedup.redis /\ Ends(s)
       \/ req[s].id \notin dedup.redis /\ Reserved(s, {})
    /\ dedup' = [dedup EXCEPT !.redis = @ \cup {req[s].id}]
    /\ UNCHANGED <<streamVars, usage, past, spent>>

ReserveFails(s) ==
    /\ At(s, "reserve")
    /\ Fails(s, 0)
    /\ dedup' \in {dedup, [dedup EXCEPT !.redis = @ \cup {req[s].id}]}
    /\ \/ req[s].fast /\ req' = [req EXCEPT ![s].fast = FALSE]
       \/ ~req[s].fast /\ GoesTo(s, "reserveDB")
    /\ UNCHANGED <<streamVars, usage>>

\* INSERT ... ON CONFLICT DO NOTHING waits for a transaction with the same key.
ReserveDB(s) ==
    /\ At(s, "reserveDB")
    /\ ~Locked(s, "key", {req[s].id})
    /\ \/ req[s].id \in dedup.db /\ Ends(s)
       \/ req[s].id \notin dedup.db /\ Reserved(s, {"key"})
    /\ UNCHANGED <<streamVars, dedup, usage, past, spent>>

\* The caller has reserved nothing and undoes nothing.
ReserveDBFails(s) ==
    /\ At(s, "reserveDB")
    /\ Fails(s, 0)
    /\ Ends(s)
    /\ UNCHANGED <<streamVars, dedup, usage>>

-----------------------------------------------------------------------------
(* /events: the script of reserve_usage_and_enqueue_stream.                 *)

\* Fault: the count is compared before it is raised.
ScriptLate(s) ==
    /\ usage.redis <= Limit
    /\ usage' = [usage EXCEPT !.redis = @ + 1]
    /\ Xadd(req[s].id)

\* The script, when the limit lets it through.
Script(s) ==
    /\ usage.redis + 1 <= Limit
    /\ usage' = [usage EXCEPT !.redis = @ + 1]
    /\ Xadd(req[s].id)

LuaAccepts(s) ==
    /\ At(s, "lua")
    /\ Script(s)
    /\ past' = Queued(s, 1)
    /\ GoesTo(s, "commit")
    /\ BridgeUnchanged
    /\ UNCHANGED <<dedup, spent>>

LuaRejects(s) ==
    /\ At(s, "lua")
    /\ usage.redis + 1 > Limit
    /\ GoesTo(s, "undo")
    /\ UNCHANGED <<streamVars, dedup, usage, past, spent>>

\* The caller goes on with the separate steps.
LuaFails(s) ==
    /\ At(s, "lua")
    /\ \/ Fails(s, 0) /\ UNCHANGED <<stream, usage>>
       \/ Fails(s, 1) /\ Script(s)
    /\ GoesTo(s, "count")
    /\ BridgeUnchanged
    /\ UNCHANGED dedup

-----------------------------------------------------------------------------
(* The counter on its own: check_rate_limit_only ("rate") on the tracker's  *)
(* fast path, check_and_reserve_usage ("count") elsewhere.  INCRBY and, over*)
(* the limit, DECRBY are two calls; when one fails, the first lets the event*)
(* pass and the second counts it in Postgres.                               *)

Undoing(step) == IF step = "rate" THEN "unrate" ELSE "uncount"
Instead(step) == IF step = "rate" THEN "enqueue" ELSE "countDB"

\* Fault: over the limit the count stays raised.
IncrementOnly(s, step) ==
    /\ At(s, step)
    /\ usage' = [usage EXCEPT !.redis = @ + 1]
    /\ GoesTo(s, IF usage.redis + 1 > Limit THEN "undo" ELSE "enqueue")
    /\ UNCHANGED <<streamVars, dedup, past, spent>>

Increment(s, step) ==
    /\ At(s, step)
    /\ usage' = [usage EXCEPT !.redis = @ + 1]
    /\ GoesTo(s, IF usage.redis + 1 > Limit THEN Undoing(step) ELSE "enqueue")
    /\ UNCHANGED <<streamVars, dedup, past, spent>>

IncrementFails(s, step) ==
    /\ At(s, step)
    /\ Fails(s, 0)
    /\ usage' \in {usage, [usage EXCEPT !.redis = @ + 1]}
    /\ GoesTo(s, Instead(step))
    /\ UNCHANGED <<streamVars, dedup>>

Decrement(s, step) ==
    /\ At(s, Undoing(step))
    /\ usage' = [usage EXCEPT !.redis = @ - 1]
    /\ GoesTo(s, "undo")
    /\ UNCHANGED <<streamVars, dedup, past, spent>>

DecrementFails(s, step) ==
    /\ At(s, Undoing(step))
    /\ Fails(s, 0)
    /\ usage' \in {usage, [usage EXCEPT !.redis = @ - 1]}
    /\ GoesTo(s, Instead(step))
    /\ UNCHANGED <<streamVars, dedup>>

\* Fault: the count is read and written back, its row not locked.
CountDBUnlocked(s) ==
    /\ At(s, "countDB")
    /\ \/ usage.db + 1 > Limit /\ GoesTo(s, "undo")
       \/ usage.db + 1 <= Limit /\ req' = [req EXCEPT ![s].tx = @ \cup {"count"},
                                                      ![s].at = "enqueue"]
    /\ UNCHANGED <<streamVars, dedup, usage, past, spent>>

\* The row of usage_counters stays locked until the transaction ends.
CountDB(s) ==
    /\ At(s, "countDB")
    /\ ~Locked(s, "count", Ids)
    /\ \/ usage.db + 1 > Limit /\ GoesTo(s, "undo")
       \/ usage.db + 1 <= Limit /\ req' = [req EXCEPT ![s].tx = @ \cup {"count"},
                                                      ![s].at = "enqueue"]
    /\ UNCHANGED <<streamVars, dedup, usage, past, spent>>

-----------------------------------------------------------------------------
(* enqueue_events and the end of the request.                               *)

Enqueue(s) ==
    /\ At(s, "enqueue")
    /\ redis
    /\ Xadd(req[s].id)
    /\ past' = Queued(s, 1)
    /\ GoesTo(s, "commit")
    /\ BridgeUnchanged
    /\ UNCHANGED <<dedup, usage, spent>>

\* Fault: an XADD that fails is taken for one that did not.
EnqueueLost(s) ==
    /\ At(s, "enqueue")
    /\ \/ Fails(s, 0) /\ UNCHANGED stream
       \/ Fails(s, 1) /\ Xadd(req[s].id)
    /\ GoesTo(s, "commit")
    /\ BridgeUnchanged
    /\ UNCHANGED <<dedup, usage>>

\* XADD fails: an outbox row in the transaction.
EnqueueFails(s) ==
    /\ At(s, "enqueue")
    /\ redis
    /\ \/ Fails(s, 0) /\ UNCHANGED stream
       \/ Fails(s, 1) /\ Xadd(req[s].id)
    /\ req' = [req EXCEPT ![s].tx = @ \cup {"row"}, ![s].at = "commit"]
    /\ BridgeUnchanged
    /\ UNCHANGED <<dedup, usage>>

EnqueueRow(s) ==
    /\ At(s, "enqueue")
    /\ ~redis
    /\ req' = [req EXCEPT ![s].tx = @ \cup {"row"}, ![s].at = "commit"]
    /\ UNCHANGED <<streamVars, dedup, usage, past, spent>>

One(s, what) == IF what \in req[s].tx THEN 1 ELSE 0

\* The transaction takes effect.
Committed(s) ==
    /\ dedup' = [dedup EXCEPT !.db = @ \cup {e \in {req[s].id} : "key" \in req[s].tx}]
    /\ usage' = [usage EXCEPT !.db = @ + One(s, "count")]
    /\ rows' = [rows EXCEPT ![req[s].id] = @ + One(s, "row")]

\* The end of a request that is answered "queued".
Commit(s) ==
    /\ At(s, "commit")
    /\ Committed(s)
    /\ past' = [Queued(s, One(s, "row")) EXCEPT !.told = @ \cup {req[s].id}]
    /\ Ends(s)
    /\ UNCHANGED <<stream, group, bridge, deleted, bridgeSpent, spent>>

\* The tracker's fast path commits only when it has an outbox row.
Commits(s) == At(s, "commit") /\ (req[s].fast => "row" \in req[s].tx)

\* A database call, or the commit, before or after it took effect.
DatabaseFails(s) ==
    /\ At(s, "countDB") \/ Commits(s)
    /\ \/ Fails(s, 0) /\ UNCHANGED <<rows, dedup, usage>>
       \/ At(s, "commit") /\ Fails(s, One(s, "row")) /\ Committed(s)
    /\ req' = [req EXCEPT ![s].tx = {}, ![s].at = "undo"]
    /\ UNCHANGED <<stream, group, bridge, deleted, bridgeSpent>>

\* Fault: /events leaves its key, too.
UndoKeepsKey(s) ==
    /\ At(s, "undo")
    /\ req[s].route = "events"
    /\ Ends(s)
    /\ UNCHANGED <<streamVars, dedup, usage, past, spent>>

\* /events deletes the Redis key, wherever it reserved, and answers 429 or 500.
Undo(s) ==
    /\ At(s, "undo")
    /\ req[s].route = "events"
    /\ dedup' = [dedup EXCEPT !.redis = @ \ {req[s].id}]
    /\ Ends(s)
    /\ UNCHANGED <<streamVars, usage, past, spent>>

UndoFails(s) ==
    /\ At(s, "undo")
    /\ redis
    /\ req[s].route = "events"
    /\ Fails(s, 0)
    /\ Ends(s)
    /\ UNCHANGED <<streamVars, dedup, usage>>

\* The tracker answers the same and leaves a key it has in Redis.
Refuse(s) ==
    /\ At(s, "undo")
    /\ req[s].route = "collect"
    /\ past' = [past EXCEPT !.refused = @ \cup (dedup.redis \cap {req[s].id})]
    /\ Ends(s)
    /\ UNCHANGED <<streamVars, dedup, usage, spent>>

WebCrash(s) ==
    /\ ~At(s, "free")
    /\ spent.crashes < MaxWebCrashes
    /\ spent' = [spent EXCEPT !.crashes = @ + 1]
    /\ past' = [past EXCEPT !.failures[req[s].id] = @ + 1]
    /\ Ends(s)
    /\ UNCHANGED <<streamVars, dedup, usage>>

-----------------------------------------------------------------------------
Dedup(s) == Reserve(s) \/ ReserveFails(s) \/ ReserveDB(s) \/ ReserveDBFails(s)

Quota(s) ==
    \/ LuaAccepts(s) \/ LuaRejects(s) \/ LuaFails(s) \/ CountDB(s)
    \/ \E step \in {"rate", "count"} :
           \/ Increment(s, step) \/ IncrementFails(s, step)
           \/ Decrement(s, step) \/ DecrementFails(s, step)

Finish(s) ==
    \/ Enqueue(s) \/ EnqueueFails(s) \/ EnqueueRow(s) \/ Commit(s) \/ DatabaseFails(s)
    \/ Undo(s) \/ UndoFails(s) \/ Refuse(s)

Request(s) ==
    /\ Arrives(s) \/ Dedup(s) \/ Quota(s) \/ Finish(s) \/ WebCrash(s)
    /\ UNCHANGED redis

Bridge == (\E c \in Consumers : BridgeStep(c)) /\ UNCHANGED <<redis, req, dedup, usage, past, spent>>

Next == Bridge \/ \E s \in Slots : Request(s)

Spec == Init /\ [][Next]_vars

-----------------------------------------------------------------------------
(* What must hold.                                                          *)

Quiet == \A s \in Slots : At(s, "free")
Mishaps == spent.failures + spent.crashes

\* Whoever was answered "queued" has the event in the table, or in an entry
\* that is not acknowledged yet, whatever failed on the way.
ToldIsKept ==
    \A e \in past.told :
        rows[e] > 0 \/ \E i \in 1 .. Len(stream) : stream[i] = e /\ i \notin group.acked

\* An event is queued twice only when a call for it failed or its request died.
QueuedOnce == \A e \in Ids : past.queued[e] <= 1 + past.failures[e]

\* The two stores of the counter, and the two calls that raise and lower it,
\* let no event over the limit unless a call failed, one for each failure.
QuotaHolds == past.total <= Limit + Mishaps

\* Every event that was queued is counted and no other one, once nothing is
\* under way and if nothing failed.
QuotaExact == Quiet /\ Mishaps = 0 => usage.redis + usage.db = past.total

\* The key of an event that nothing failed for means that the event is queued
\* or being queued: repeating it is safe to ignore.  Except for an event that
\* the tracker refused over quota, whose key it leaves behind.
DedupMeansQueued ==
    \A e \in (dedup.redis \cup dedup.db) \ past.refused :
        \/ past.queued[e] > 0 \/ past.failures[e] > 0
        \/ \E s \in Slots : ~At(s, "free") /\ req[s].id = e /\ req[s].at \notin {"reserve", "reserveDB"}

=============================================================================
