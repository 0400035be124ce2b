# Buykori AdSync: a verification of the conversion-event gateway

Buykori AdSync takes conversion events (page views, carts, purchases) from
online shops and forwards them to Meta, TikTok, GA4 and webhooks. It is a
FastAPI application (`src/app`) with Postgres and an optional Redis, worker
processes that drain a queue, and a WordPress plugin on the shop's side
(`src/wordpress-plugin`). In production (`src/deploy/supervisor.conf`) two
web workers and two `event_worker` processes run side by side with
`EVENT_INGEST_MODE=redis_stream`, and every release restarts the workers
(`src/deploy.sh`). Shops pay by quota; a Purchase that is sent twice, or
never, is what the system must not do.

This directory holds TLA+ models of the parts where order, concurrency and
failure matter, TLC runs over small instances, and proofs checked by TLAPS.

## 1. Inventory

For each component: its state, its operations, how it meets the others, what is
hard about it and what makes it right. `PROJECT.json` lists the same components
with their status, and the hazards at their lines.

**Event outbox and delivery worker** (`services/event_worker.py`,
`models/event_outbox.py`; also `services/cleanup_service.py` and
`routers/client_api.py`). State: the `event_outbox` rows (status, attempts,
max_attempts, lock, schedule) and, per worker, the tasks of its current batch.
Operations: `enqueue_events`, `claim_due_events` (FOR UPDATE SKIP LOCKED, stale
locks taken over), `process_outbox_row` in two database sessions around the
delivery, `_mark_dead`, the portal's retry button, the nightly batch delete.
Hard: the second session does not look at status or lock again; workers are
restarted between sessions; deliveries may outlive the stale-lock limit.
Right when: nothing is stranded, sent means delivered, a platform is sent a
row twice only if an answer was lost, rows settle, quota is counted once.

**Stream bridge** (`event_worker.py` 106-275). State: a Redis stream with a
consumer group, the pending entries of each consumer. Operations: XADD, XREADGROUP
(the consumer's pending entries first, new ones when it has none), insert into
the outbox and commit, XACK. Hard: the commit and the XACK are two steps; the
default consumer id holds the pid; an entry that can never be inserted stays
pending, in front of every new one. Right when: every entry reaches the
outbox, once unless a step was lost.

**Deferred purchases** (`routers/deferred_events.py`,
`services/expiry_service.py`, `models/pending_event.py`). State: the
`pending_events` rows of an order. Operations: hold (by ingestion), confirm,
bulk confirm, cancel, bulk cancel, auto-confirm, expire. A confirm either queues
the Purchase or books a courier, under the row's lock, across the call of the
courier's API. Hard: that call is outside the transaction; the portal, the
shop's webhooks and the sweeps want the same row. Right when: one Purchase and
one consignment per order, and none for a cancelled one.

**Courier orders and status** (`routers/courier_api.py`,
`routers/courier_webhook.py`, `services/courier_status_worker.py`,
`services/courier_service.py`, `models/courier_order.py`). State: the
`courier_orders` row with its status and two sent flags. Operations: book and
cancel from the portal, status reports by webhook and by a poller. Delivered
queues the Purchase, returned or cancelled queues a Refund. Hard: reports
repeat, race and arrive out of order; flags are read before the row lock.
Right when: Purchase on delivery once, Refund after it once.

**Shop webhooks** (`routers/webhook.py`). State: none of their own; they confirm
a held order or, for Shopify, record one. Hard: a webhook is repeated when it is
not answered in time.

**Event ingestion** (`routers/events.py`, `routers/tracker.py`,
`services/fast_ingest_service.py`). State: through deduplication, quota and the
queue. Operations: receive, hold a Purchase, queue the rest. Hard: three stores,
each in Redis with a fallback in Postgres, no common transaction; a Redis call
that times out may have taken effect. Right when: an accepted event is queued
and counted once, a repeated one not at all.

**Deduplication** (`services/dedup_service.py`). State: keys in Redis or rows
in `event_dedup`. Hard: the store used depends on which one answers.

**Usage counters** (`services/usage_service.py`). State: the counts of the
current minute, day and month, in Redis and in Postgres. Hard: raising a count
and taking it back over the limit are two calls; fallback between the stores.

**Retry of failed secondary sends** (`services/retry_service.py`). State:
`failed_events`. Operations: claim, take over stale claims, reschedule, give up.

**Delivery routing** (`services/delivery_service.py` and the platform clients).
State: none; the primary platform decides the outcome, secondary platforms
leave failed events.

**Client authentication and cache** (`dependencies.py`, `security.py`,
`routers/client_auth.py`). State: clients cached for a minute in each process.

**Browser tracker** (`wordpress-plugin/buykori-adsync/assets/js/tracker.js`).
State: flags and timers of the page (`initiateCheckoutSent`, `removeFiredViaJQ`,
the observers), keys in sessionStorage (`eventOnce`), and the marker cookies
`_buykorigw_ic_sent` and `_buykorigw_ic_event_id`, which keep one event id for a
checkout. Operations: a handler per event, `sendEvent` by REST with AJAX as its
fallback. Hard: tabs share cookies and nothing else; a checkout may show at any
time, be reported by timers, an observer, fields, buttons or WooCommerce's own
events, and again by the server with the order; answers come late or never.
Right when: a checkout is one InitiateCheckout with an id of its own, none is
lost, and no handler's flag or timer swallows or repeats another's event.

**WordPress plugin** (the PHP of `wordpress-plugin/buykori-adsync`). State: order
meta (the attribution snapshot, what was sent), the same cookies, scheduled
retries of confirm and cancel. Operations: the REST and AJAX relays, the order
hooks with the InitiateCheckout fallback, the Purchase. Hard: an order outlives
its page and its cookies; hooks of one order run several times, in several
requests. Right when: an order's checkout reaches the gateway once at least, with
the id the page used.

**Generated tracker SDK** (`services/tracker_sdk.py`). A script for sites without
the plugin. It sends every event once, by beacon, with a new id; no state.

**Portals, admin, analytics, plugin distribution, enrichment, migrations.**
Reports, forms, pure functions and files; no protocol.

## 2. Plan

In the order of importance; 1 to 9 are built.

1. `Outbox` with `MCOutbox`: rows, workers and the other writers of a row.
2. `OutboxProofs`: type correctness, no stranded rows, exclusive tasks, sent is
   final, duplicates are paid for by lost answers, attempts grow, usage is counted.
3. `PurchaseFlow` with `MCPurchaseFlow`: one order through every handler.
4. `StreamBridge` with `MCStreamBridge`: stream, consumer group and inserts.
5. `EventIngest` with `MCEventIngest`, which extends `StreamBridge`:
   deduplication, quota and queueing of a request, with its failure paths and
   with the bridge running; `IngestProofs`, which extends `StreamProofs`: each of
   its invariants.
6. `DurableQueue`, the abstract specification of the outbox, and `QueueProofs`:
   `Outbox` implements it, and sent means delivered.
7. `TrackerSend`, `TrackerCheckout`, `TrackerShop`, put together by `Tracker`,
   with `MCTracker`: the browser script with the plugin's relays and order hooks.
8. `TrackerProofs`, `ShopProofs`, `IdProofs`: each of the
   tracker's invariants for every shop, tab and product.
9. `StreamProofs` and `PurchaseProofs`: no entry is acknowledged before its row
   or inserted twice without a failure; decisions under a row's lock hold,
   consignments are paid for by failures, and an order's events agree with its
   rows and its courier.
10. `FailedEvents`: the retry service's claims and schedule, fed by the routing
    of secondary sends.
11. `OrderHooks`: the plugin's confirm and cancel calls and their scheduled
    retries against `PurchaseFlow`'s handlers.

## 3. Outbox

`row` is the table. A row's `locked` is `locked_by`; `stale` says that
`locked_at` is older than `WORKER_STALE_LOCK_SECONDS`; `due` that
`next_attempt_at` has passed: clocks are these two flags, set by `LockExpires`
and `BackoffElapses`. `job[w][r]` is worker w's `process_outbox_row` task for r,
with the copies of `attempts` and `max_attempts` it carries from its first
session to its second. `ledger` is history: what the platform accepted, which
answers were lost, the net quota counted for the row, roll-backs in Redis whose
transaction failed (`stray`), and how often the row was given a status after it
had its outcome (`redone`). `doomed` holds the ids selected by the clean-up and
not yet deleted.

| action | code |
| --- | --- |
| `Enqueue` | `enqueue_events`, database branch |
| `Claim` | `claim_due_events` (an empty batch is a poll that finds nothing) |
| `BeginSkips`, `BeginInactive`, `BeginSend` | `process_outbox_row`, first session |
| `SendAccepted`, `SendRefused`, `SendUnanswered`, `SendFiltered` | `deliver_events_to_platforms` |
| `FinishGone`, `FinishSent`, `FinishFiltered` | second session |
| `CommitFails`, `CommitUnanswered` | its commit raises, without effect or after it took effect |
| `FinishRetry`, `FinishDead`, `FailureLost` | the except branch, `_mark_dead`, a session without a database |
| `Crash` | restart of a worker process |
| `PortalRetry` | `POST /outbox/{id}/retry` |
| `CleanupSelect`, `CleanupDelete` | `_batched_delete` |
| `SwitchOff`, `SwitchOn`, `DeleteClient` | `clients.is_active`; the admin's deletion of a client, which takes its rows along |

A commit that raises may have taken effect. In the second session that is seen:
the row is `sent`, its task is in phase `unheard`, and the except branch
(`event_worker.py:454`) writes `queued` or `dead` over it, because it looks at
neither status nor lock. In the claim it is the same as a claim whose worker stops
(`Claim`, `Crash`), in phase 1 and in the except branch the same as the step that
took effect; without effect both are `FailureLost`.

`SlowDelivery` says whether a delivery may outlive the stale-lock limit. The
code does not rule it out (webhook batches are sent one after the other, each
with retries), so both values are checked.

**Runs.**

- `OutboxQuick` (two rows, two workers, batches of two, two attempts, one crash,
  lost session or unanswered commit, one portal retry, one clean-up, the client
  deleted, no slow delivery; one row reserved in Redis, the other counted by the
  worker; 1,399,780 states): `OneTaskPerRow`, `DuplicatesNeedLoss`,
  `ShortfallExplained`, `SentIsFinal`, `AttemptsOnlyGrow` and the refinement
  `ImplementsQueue`. Workers are symmetric. A batch is any set of claimable rows
  within the limit that SKIP LOCKED leaves, so the workers take one row each, one
  takes both, and each takes over the other's.
- `OutboxSlow` (one row, slow deliveries, a crash, a portal retry, the client
  switched off and on or deleted; 527,994 states):
  `NeverStranded`, `SentWasDelivered` and `EventuallySettled`. Both workers can
  be in the row at any phase, which is the hardest case for one row; rows do not
  affect each other apart from the batch limit, which `OutboxQuick` has.
- `OutboxResurrected` (violation of `SentIsFinal`) and `OutboxRetryUsage`
  (violation of `NotUndercounted`): see Findings.

Two of the properties name what they excuse:

- `SentIsFinal` lets one task write to a row that is sent: the one whose own commit
  of it was not answered, once. Everybody else must leave it alone.
- `ShortfallExplained` says how far the quota can fall short: a row's usage is
  short by at most one unit for each time the row was given a status after its
  outcome (a retry from the portal, an unanswered commit, an overtaken task) and
  one for each roll-back in Redis whose transaction failed. With these added, it is
  never negative, and an event in a row recorded as sent is counted.

Two attempts suffice for the three cases of a failure (retry, last retry,
dead), and a portal retry makes the third. One crash leaves one row locked by a
dead worker; further crashes repeat it.

**Fairness** (`FairSpec`). A worker polls for ever and its process is restarted
by supervisor, so `Claim` is weakly fair; every HTTP call and every database
call has a timeout and `gather` runs each task to its end, so `Task` is; the
clock advances, so `LockExpires` and `BackoffElapses` are. Nothing is assumed
of the platforms: every answer may be a refusal. Crashes are bounded, since a
worker that always dies delivers nothing.

**Proofs** (`OutboxProofs`, for all rows, workers, attempts, batch sizes and
bounds):

- `TypeCorrect`: `Spec => []TypeOK`.
- `RowsNeverStranded`: `Spec => []NeverStranded`. `NeverStranded` alone is not
  inductive, since a task overwrites `attempts` with its own copy; the invariant
  `StrandInv` adds that every sending task's copy satisfies attempts <
  max_attempts and that max_attempts of a row only grows beyond the copy a task
  holds. It holds with slow deliveries and crashes too.
- `TasksExclusive`: with `~SlowDelivery`, `Spec => []OneTaskPerRow`. The
  invariant `LockInv` says that a row with a live task is processing, locked by
  that task's worker and not stale.
- `SentStaysSent`: with `~SlowDelivery`, `Spec => SentIsFinal`: a row recorded
  as sent has no task left that could write to it, but the one that has not heard
  of its commit (`OneTaskPerRow` says that it is alone).
- `DuplicatesArePaid`: with `~SlowDelivery`, `Spec => []DuplicatesNeedLoss`. The
  invariant `DuplicatesInv` adds to `LockInv` that a row has one live task
  (`OneLive`) and what is known of its sends (`SendsPaid`): while nobody has been
  told that the row was accepted and the row is not recorded as sent, every
  acceptance so far is a lost one, so that one more send is free.
- `AttemptsGrow`: with `~SlowDelivery`, `Spec => AttemptsOnlyGrow`. The second
  session writes a copy of `attempts`; `AttemptsInv` adds to `LockInv` that the copy
  of the task that holds the row's lock is the row's own (`CopiesCurrent`).
- `ShortfallIsExplained`: `Spec => []ShortfallExplained`, with slow deliveries and
  counters in either store. `UsageInv` adds that an open row with a reservation
  still has its unit (`RowCounted`), and that a task that found nothing to send is
  right about it (`FilteredRight`).

With slow deliveries TLC finds a counterexample to `OneTaskPerRow`,
`SentIsFinal`, `DuplicatesNeedLoss`, `AttemptsOnlyGrow` and to `ImplementsQueue`
below.

**The abstract queue** (`DurableQueue`). An event is absent, pending, sent, dead or
deleted; a platform has taken it or not. It is accepted, taken (also after it was
cleaned up: the sender may still be at it), settled as sent only when taken,
settled as dead at any time, opened again by the retry button, cleaned up when
settled, and deleted with its owner. A sender that was not told that its event is
recorded as sent may, once, open it again or declare it dead (`Mistake`). `Outbox`
maps to it with `QueueState` (queued and processing are pending), `QueueTaken` (the
ledger shows an acceptance, or that there was nothing to send), `QueueUnheard` (rows
with a task in that phase) and `QueueReopened`; claims, locks, attempts, schedules,
restarts and roll-backs are stutters. What the refinement adds to the invariants
is what it rules out between two states: a row that leaves `sent` otherwise, is
sent without a delivery, or is deleted while open. The clean-up may delete an
open row only if it was reopened: `_batched_delete` deletes by the ids it selected,
and the retry button, or a task that did not hear of its commit, may have queued
one of them again.

**Proofs of the refinement** (`QueueProofs`):

- `SentDelivered`: `Spec => []SentWasDelivered`. `DeliveryInv` adds that a task in
  its phase "accepted" or "filtered" is right about its row. It holds with slow
  deliveries too.
- `OutboxIsQueue`: with `~SlowDelivery`, `Spec => ImplementsQueue`. `QueueInv` joins
  `LockInv`, `DeliveryInv` and `DoomedInv`: what the clean-up has chosen is settled
  or was reopened. Under it each action is a step of the queue or a stutter: a row
  is only written by the task that holds its lock, so a finishing task moves a
  pending row, or one it recorded as sent without hearing of it.

`EventuallySettled` is liveness and stays with TLC.

## 4. PurchaseFlow

One order of one client. `status[r]` and `holder[r]` are the order's
`pending_events` rows and their FOR UPDATE locks; `courier` is its
`courier_orders` row; `slot[s]` is the handler (one database session) running
in slot s, with what it has read (`seen`) and decided (`mode`); `reported` is
what the courier has said so far and may say again at any time; `out` counts
what left the system (consignments per row, Purchases, Refunds).

A handler's locks last from the step that takes them to its commit or
rollback. Its steps are cut where another session can come in between: before
a lock, around a call of the courier's API, before the commit. A request that
finds nothing to do leaves no trace and is no step. A lost answer of the
courier, a failed commit and the abort by which Postgres ends a deadlock are
steps of the model; in stream mode the event such a handler has queued, a Purchase
or a Refund, stays queued. (A commit that took effect and raises is the
handler's success: none of them does anything with the row afterwards.) (A status handler writes `courier_orders` and then locks
`pending_events`; the portal's send locks them in the other order.)
`courier_auto_send` is a client setting that may be switched at any time, so
each confirm takes either branch allowed by `AutoSend`.

| actions | code |
| --- | --- |
| `HoldInsert`, `HoldConflict`, `HoldReads*`, `HoldRevive` | `receive_events` holding a Purchase |
| `ConfirmLock`, `PendingLock`, `ShopifyNew` | the selects of `confirm_event`, the bulk and webhook handlers, Shopify without a row |
| `Book*` | `_auto_book_courier_for_pending`, `send_order_to_courier` |
| `SaveBooked`, `SaveCollides`, `Queue`, `QueueRejected`, `SaveConfirmed`, `CommitFails` | the commit of a booking; `_queue_confirmed_event` and the commit of a confirm |
| `ShopifyQueue`, `ShopifyRejected`, `ShopifySave` | `shopify_webhook` for an order that was not held |
| `Cancel`, `AutoConfirm`, `AutoConfirmFails`, `Expire` | cancel handlers, `expire_old_pending_events` |
| `PortalSendLock`, `PortalCancel*` | the portal's courier buttons |
| `CourierReports`, `StatusRead`, `Status*` | the courier; `process_courier_status_change` |

**Runs.** Two slots: races of two handlers are what the locks are for.

- `PurchaseAll`: every handler in both slots, two rows, six requests of which
  two hold the order, one failed commit, stream mode, quota rejections.
  `BookedHasConsignment` (a row waiting for a courier has one to wait for),
  `DecidedOnPending` (what a confirming handler saw under its lock still holds
  when it saves), `OneConsignment` (no race books a row twice).
- `PurchaseOrder`: an order held once; confirms, cancels, sweeps in both slots,
  status reports in one, outbox in Postgres, no quota rejections, nine
  requests, two failures. `PurchaseOnce`, `RefundFollowsPurchase`,
  `DeliveredIsPurchased`, `CancelledIsRefunded`, `PurchaseIsRecorded`,
  `CancelledStaysCancelled`. The order ends after at most three decisions, so
  nine requests leave several reports for every order of delivery, return and
  cancellation.
- `PurchaseReportRace`, `PurchaseQuota`: see Findings.

The runs do not check deadlock: requests are bounded, so a behaviour ends.

**Proofs** (`PurchaseProofs`, for all slots, kinds of handlers, rows and bounds):

- `PurchaseTypes`: `Spec => []TypeOK`. The row that a refused hold reads is the
  order's latest, so the types need `MetRow`: a refused hold met a row, and
  rows are never deleted (the maximum exists by well-foundedness of the naturals).
- `DecisionsHold`: `Spec => []DecidedOnPending`. The invariant `LockInv` ties
  `holder` to `slot` (`HoldsRow`): a handler between its lock and its commit holds
  the lock of its row, and whoever confirms has found it pending. A step of
  another handler leaves locked rows alone (`LeavesOthers`), because every writer
  of a pending row waits for its lock.
- `ConsignmentsArePaid`: `Spec => []OneConsignment`. `BookInv` adds that as long as
  the courier may be called for a row (`MayBook`: the order is at no courier and
  no handler has a consignment to save for the row, or the portal is calling),
  the row's consignments are at most the failures so far. Without the second
  half a portal request that passed its test before another row of the order
  was booked would not be covered.

- `BookedIsReportable`: `Spec => []BookedHasConsignment`. `Consigned` adds that a
  handler which has found a booking (`already_booked`) still has one when it
  saves: `courier_orders` rows are never deleted.

The other properties are about one order as a whole, and hold under conditions
on what may touch it. Each theorem names the ones it needs; for each of them TLC
finds a counterexample to the theorem's property without it.

| theorem | states | conditions |
| --- | --- | --- |
| `DeliveriesPurchase` | `DeliveredIsPurchased` | `~QuotaMayReject` |
| `RefundsFollow` | `RefundFollowsPurchase` | `OneReporter`, `FailuresUndo` |
| `PurchasesRecorded` | `PurchaseIsRecorded` | `MaxHolds <= 1`, `~RedisStream` |
| `CancelledForGood` | `CancelledStaysCancelled` | `MaxHolds <= 1`, no `portal_send` |
| `OnePurchase` | `PurchaseOnce` | `OneOrder` |
| `CancellationsRefund` | `CancelledIsRefunded` | `OneOrder`, `Undisturbed` |

- `QuotaMayReject`: the quota's 429 loses a delivered order's Purchase (the run
  `PurchaseQuota`).
- `OneReporter`: one slot handles status reports. Two at a time test the flags
  before either sets them (the run `PurchaseReportRace`).
- `FailuresUndo`: the outbox is in Postgres, or nothing fails. A report that fails in
  stream mode leaves its Refund in the stream and no flag in the database, and the
  courier's repetition queues another (`courier_webhook.py:243`).
- `MaxHolds <= 1`: the order's Purchase is received once. A Purchase sent again
  revives a decided row or makes a second one (`events.py:374`).
- `~RedisStream`: the outbox is in Postgres. In the stream an event outlives the
  transaction that fails (`event_worker.py:290`).
- `OneOrder`: these three, and no Shopify webhook or portal booking for the order,
  which work on it whatever its rows say.
- `Undisturbed`: the portal does not cancel over what the courier reports
  (`courier_api.py:484`), and the quota does not reject the Refund.

The argument starts with what a step may do: a report or the portal reads
`courier_orders` (`StatusReads`, `PortalReads`), a handler comes to a point under a
lock from few places (`WhereItGoes`), only a booking, the reports and the
portal's cancel write `courier_orders` (`CourierWrites`), and a step queues one
event at most (`QueuedEvents`). On it rest these invariants, each with `LockInv`:

- `SoldFirst` (`DeliveriesPurchase`): the sent flag, the delivered status and a
  handler's copy of the flag are younger than a Purchase.
- `RefundsOwed` (`RefundsFollow`): there are no more Refunds than Purchases, and
  fewer while a flagged Purchase has no flagged Refund; a report's handler has
  read the flags as they still are.
- `SentOnceInv` (`PurchasesRecorded`, `CancelledForGood`): with `Consigned`, which
  handlers a slot may be in (`AtWork`), and that no hold meets a row (`HeldFirst`).
  Then, before the courier is booked, every step leaves the rows alone or decides
  a pending one (`OffCourier`), and a Purchase is queued only for a row that is
  confirmed with it.
- `OneOrderInv` (`OnePurchase`): `SentOnceInv`, `RefundsOwed`, one row that is the one
  the reports are about (`OneRow`), and where its Purchase stands (`SoldOnce`): before
  the courier it is the confirmed row, at the courier the sent flag.
- `Refunded` (`CancellationsRefund`), with `OneOrderInv`: a flagged Refund was
  queued.

## 5. StreamBridge

`stream` is the sequence of entries, each with one event; `group` is the
consumer group (how far it has read, what is acknowledged, what each consumer
has pending, what belongs to a consumer that is no more); `bridge[c]` is the batch
worker c has in memory; `rows[e]` counts the outbox rows inserted for e.

| action | code |
| --- | --- |
| `ReadPending`, `ReadNew` | the two XREADGROUP of `_read_stream_messages` |
| `BridgeEntry`, `BridgeRefused`, `BridgeFails` | one round of the loop in `bridge_redis_stream_once`: committed, refused by the foreign key, failed |
| `Ack`, `AckFails` | the XACK of what was committed |
| `WorkerCrash` | a restart; the consumer id survives for `StableConsumers` only |
| `DeleteClient` | `admin_api_delete_client` |
| `Produce` | an entry added by anyone, when the bridge is checked on its own |

- `Bridge`: two workers as in `deploy/supervisor.conf`, one whose id survives a
  restart and one whose does not, batches of two, three entries of two events,
  one failure, one restart, one client deleted. `AckedHasRow`, `RowPerEntry`,
  and under fairness `EventuallyBridged`. Three entries and batches of two make
  a worker read twice and the two share the stream; a batch of two can be cut
  in its middle by a failure, a restart or the deletion.
- `BridgeRestart` (violation of `AllBridged`): see Findings.

**Fairness** (`FairBridgeSpec`): `bridge_redis_stream_forever` catches every
exception and goes on, and supervisor restarts its process, so each worker's
`BridgeStep` is weakly fair. Failures and restarts are bounded.

**Proofs** (`StreamProofs`, for all workers, events, batch sizes and bounds):

- `StreamTypes`: `BridgeSpec => []StreamTypeOK`. What it needs is `NextOfInterval`:
  the batch of new entries is the next piece of the stream, so that moving the
  group's position by the size of the batch passes just these entries.
- `AckedEntriesHaveRows`: `BridgeSpec => []AckedHasRow`. `AckInv` adds that all
  that a worker has on its list to acknowledge has its row in the table, or
  lost it with its client, and that only deletable clients are deleted.

- `EntriesInsertedOnce`: `BridgeSpec => []RowPerEntry`. `RowInv` has the types,
  `HeldOnce` (an entry is pending for one consumer, and what a worker has in memory
  is on its own list, so no two workers insert one entry) and `RowsCounted`: the
  rows of an event and its entries still to be inserted are at most its entries,
  times one more than the failures and restarts so far.

`EventuallyBridged` is liveness and stays with TLC.

## 6. EventIngest

`req[s]` is a request in flight, /events or the tracker's /c, with one event: the
step it is `at`, whether it is on the tracker's `fast` path, and what its
transaction holds (`tx`). `dedup` and `usage` have a Redis part, which changes
at once, and a Postgres part, which changes when a transaction commits; rows
another transaction holds make it wait. `redis` says whether `REDIS_URL` is set;
without it everything is in the transaction. `past` is history: what was answered
"queued", what was queued (per event, and in total), what was refused, and the
failures of each event. Every Redis
and database call may fail before or after it took effect, and the web process
may die between any two.

| actions | code |
| --- | --- |
| `Reserve`, `ReserveFails`, `ReserveDB`, `ReserveDBFails` | `reserve_unique_event_ids`; the tracker's fast attempt |
| `LuaAccepts`, `LuaRejects`, `LuaFails` | `reserve_usage_and_enqueue_stream` |
| `Increment`, `Decrement`, `*Fails` | `check_rate_limit_only` ("rate"), `check_and_reserve_usage` ("count") |
| `CountDB` | `check_and_reserve_usage`, in Postgres |
| `Enqueue`, `EnqueueFails`, `EnqueueRow` | `enqueue_events` |
| `Commit`, `DatabaseFails` | the end of the transaction |
| `Undo`, `UndoFails` | `rollback_redis_dedup` of /events |
| `Refuse` | the tracker's answer 429 or 500, which undoes nothing in Redis |

`Ingest`: three events, four requests of which two run at once, a limit of two,
two failed calls, one crash, with and without Redis, one bridge worker that does
not fail (its failures are `Bridge`'s matter). `ToldIsKept` ties the answer to
the stream, the group and the table; `QueuedOnce`, `QuotaHolds` and `QuotaExact`
say what failures can and cannot cost; `DedupMeansQueued` that a duplicate is a
duplicate of something. Four requests pass the limit by two, so a count over it
is raised, seen by another request and taken back; three events are needed to
pass a limit of two without repeating one. Requests and events are symmetric.
Several usage windows, their expiry, the two-day TTL of keys, batches of events
and the ingest mode `db` with Redis configured are left out: a batch takes the
same steps with a set of ids.

**Proofs** (`IngestProofs`, for all slots, events and workers, every limit and
every bound on what fails, and without further conditions). `BaseInv` is common
to all: the bridge's `AckInv`, `StepInv` (types, and at each step of a request what
its transaction may hold) and the two ledgers below.

- `IngestTypes`: `Spec => []TypeOK`.
- `QuotaIsKept`: `Spec => []QuotaHolds`. Two sets of requests stand between the
  counter and what was queued: those let in and not yet queued (`AllLetIn`), and
  those that raised the counter beyond the limit and have not taken it back
  (`AllRaised`). `RedisLedger` says that queued, let in and raised together are at
  most the counter and the failures, and that the first two stay within the limit
  but for failures; `TableLedger` says so of the count in Postgres.
- `QuotaIsExact`: `Spec => []QuotaExact`. `ExactLedger`: while nothing has failed the
  ledger's inequality is an equality, and with Redis nobody counts in Postgres.
- `EventsQueuedOnce`: `Spec => []QueuedOnce`. `AdmittedOnce`: how often an event is
  queued, with the requests past its deduplication that still may queue it, is at
  most its failures, and one for its key if it is set in either store.
- `KeysMeanQueued`: `Spec => []DedupMeansQueued`. `KeysTraced`: a key in Postgres is
  committed with its event or after it; one in Redis belongs to a request at work
  or to an event that was queued, refused by the tracker, or failed for.
- `AnswersAreKept`: `Spec => []ToldIsKept`. `HasLanded`: what was answered "queued",
  and what waits for its commit only, is in the stream or in the table; the
  bridge's `AckInv` says that it is not lost between the two.

Each action is an instance of one of a few schemes (`Becomes`, `Leaves`, `Moves`,
`Balanced`, `Passes`) that say what it does to its request, its key and the counts;
the invariants are proved of the schemes.

## 7. Tracker

Four modules: `TrackerSend` (ids, cookies, calls and their answers),
`TrackerCheckout` (InitiateCheckout and the order), `TrackerShop` (the other
handlers), `Tracker` (pages, tabs and the next-state relation).

`shop` holds the settings, chosen once; `page[t]` what tab t shows; `jar` the
marker cookie, once per domain it may be set for; `once[t]` the keys in the tab's
sessionStorage; `requests` the calls under way; `arrived` the InitiateCheckout
events the gateway has; `ck[t]` the checkout part of the script (surface in the
DOM, `initiateCheckoutSent`, timers, observer); `order` the visitor's order with
its snapshot; `view[t]` what the IntersectionObservers see; `cart[t]` the flags
of the cart handlers. `attempt`, `late` and `lapsed` are history: an attempt ends
when the markers are cleared.

| actions | code |
| --- | --- |
| `SendInitiateCheckout`, `SendEvents` | `sendEvent`, asynchronous and synchronous |
| `RelayRest`, `RelayAjax`, `Answer`, `LoseAnswer` | `buykorigw_rest_track_event`, `buykorigw_ajax_track_event` and what becomes of their answers; `sendViaAjax` after a failure |
| `MarkerExpires`, `OnceExpires` | the cookie's 20 minutes; the time of an `eventOnce` key |
| `BindAgain`, `SurfaceCheck` | DOMContentLoaded and the 1.2 s timer; the timers of `scheduleCheckoutSurfaceChecks` |
| `DomChanges`, `DebounceEnds` | the MutationObserver and its 150 ms |
| `FieldInput`, `CheckoutButton`, `SubmitCheckout`, `WooEvent`, `IdentifyBlur` | the listeners of `bindCheckoutIntentTracking` |
| `DraftOrder`, `PlaceOrder`, `OrderAnswered` | the snapshot, the fallback and `buykorigw_track_purchase` in the request that stores an order |
| `EntersView`, `LeavesView`, `DwellElapses`, `ViewTimer`, `SelectVariation` | ViewContent: product section, cards, variations |
| `ClickAdd`, `AddedToCart`, `AddFails`, `LandingCta` | AddToCart: the click, WooCommerce's answer, a landing page's button |
| `ClickRemove`, `RemoveTimer`, `RemovedFromCart`, `RemoveFails` | RemoveFromCart: click, its `setTimeout(0)`, WooCommerce's answer |
| `PaymentChosen`, `FormSubmitted` | AddPaymentInfo, Lead |
| `LoadPage`, `ThankYou`, `CloseTab` | the script's own run (PageView, ViewContent, ViewCart, Search, set-up), the thank-you page, leaving |

JavaScript runs each handler to its end, so a handler is one action; a
synchronous call stops its tab (`Busy`) and no other.

**Properties.** Each says what it excuses, because the code does not give it:

- `OneIdPerAttempt`: all that pages, their retries and an order's snapshot report
  of one checkout carries one id. Not when the marker ran out or a late answer
  put an old id back, nor in the block checkout, which stores a draft (and its
  snapshot) before anything is reported. An order placed after its markers were
  cleared, by an AddToCart or another tab's order, is reported by the fallback
  under its own id or with the cookie its thank-you page comes with.
- `NoStaleId`: two checkouts have two ids, on a shop where tracker and plugin
  name one cookie domain. Late answers are excused, and an order without a
  snapshot that takes the cookie of a newer checkout on its thank-you page.
- `OnePageWaits`: in one-page mode nothing is reported before the customer
  touches the checkout.
- `FallbackCovers`: once the thank-you page shows, the gateway has the order's
  checkout or refused it, whatever became of the page's calls.
- `AddOnce`: while the click's report is remembered (two seconds, the same
  selection), WooCommerce's answer does not report the add again.
- `OneLossPerAnswer`: the flag that drops the second report of a removal
  (`removeFiredViaJQ`) does drop the only report of another: it stays up when
  WooCommerce's answer comes after the click's timer, and the timer of the next
  removal, one WooCommerce tells nothing of, then finds it up (`tracker.js:1296`).
  The model counts these removals (`missed`: no event for them, and the flag was up)
  apart from those WooCommerce told of (`told`). The property is how much is lost:
  on one page at most one removal for each of WooCommerce's answers, and none on
  a page without them. The mutant leaves the flag up after it did its work.
- `SurfaceHasCheck`, `ViewHasTimer`: what shows and is not reported has a timer to
  come. These are the safety side of "is reported in the end": the end itself
  would need that the DOM is quiet for 150 ms, or the customer still for a
  second, which nothing in the code assures.

**Run** `Tracker`. The ten shops of `MCTracker` (1,696,845 states) differ in what makes the script
take another branch: `Classic` (a checkout page), `TwoTabs` (one-page mode, two
tabs, two orders), `Landing` (one-page, AddToCart clears markers, no
sessionStorage), `Blocks` (draft orders, no fetch), `Untracked` (no
Purchase event: an order then leaves the markers to its thank-you page),
`Subdomain` (two cookies),
`Cards` and `Product` (views, adds, variations), `Private` (adds without
sessionStorage), `Removals` (the cart, with the synchronous call). Two pages are
loaded: a page, and what the next one finds left behind. `acts` bounds the events
after which the visitor stops acting, two to five, so that two clicks meet each
other's timers and answers; one order, or two where tabs compete. Handlers of
different shops share no state, so events that never meet need not be switched
on together. The run does not check deadlock: the visitor stops.

**Proofs**, for all tabs, products, variations, shops and numbers of pages:

- `TrackerProofs`: `TypeCorrect`, `OnePageShopWaits` and `SurfaceIsChecked`, from
  `CheckoutInv`, which adds that a page whose checkout is not reported is still
  observed, so that a surface that shows starts the debounce.
- `ShopProofs`: `ViewIsTimed` (inductive with the types); `LossesHaveAnswers`
  from `RemovalInv`: what was missed, and one more while the flag is up, is never
  more than what WooCommerce told; `AddReportedOnce` from `AddInv`: the key
  the click reported is the one the answer will take; `FallbackCoversOrder` from
  `FallbackInv`: an order marked as sent has its event at the gateway.
- `IdProofs`: `IdsAreFresh` from `IdInv`. What calls, reports of pages and
  snapshots, the marker and the order's snapshot carry was given out before, and
  the same id for one attempt only unless it came back late; ids made from an
  order's number are apart from these and of one order.
  `AttemptHasOneId` from `AttemptInv`: nothing is carried
  for a later attempt (`Past`), an attempt that carries an id has its marker until
  that runs out (`Marked`), and two ids carried for one attempt are equal, late, or
  of an attempt whose marker ran out (`OneId`).

## 8. Findings

- **A late failure puts a sent row back to work** (`OutboxResurrected`,
  `event_worker.py:480`). The except branch writes `queued` to the row as it
  finds it. When a delivery outlives the stale-lock limit, another worker has
  taken the row over and recorded it as sent; the portal's rule "Sent events
  cannot be retried." is broken by the worker, and the events are sent again.
- **A retried row is not counted** (`OutboxRetryUsage`, `event_worker.py:357`).
  `_mark_dead` gives the reservation back and leaves `usage_reserved`; retried
  from the portal and sent, the row is neither reserved nor counted.
- **Two reports of one delivery** (`PurchaseReportRace`,
  `courier_webhook.py:223`). The sent flag is read before the lock that is there
  "to avoid the double event", so both handlers queue the Purchase.
- **A rejected Purchase is lost** (`PurchaseQuota`, `courier_webhook.py:234`).
  The quota's 429 is logged, `delivered` is committed, and later reports of it
  return early: no Purchase, although the order's answer promised one.
- **A restart loses what was read** (`BridgeRestart`, `event_worker.py:42`). The
  consumer id is host:pid by default, in production too. The entries a worker
  had read when it was restarted stay pending under its old id; nothing claims
  them, and accepted events never come to `event_outbox`.

The models contain further behaviours that no run of its own pins down; each is
in the hazards of `PROJECT.json` with its line. They are why the passing runs
are bounded as they are:

- a commit that records a row as sent and is not answered puts the row back to
  work, or declares it dead, and gives a filtered row's reservation back again
  (`CommitUnanswered`; `SentIsFinal`, `DurableQueue` and `ShortfallExplained` name
  that exception);
- with `RedisCounters` a rollback that Redis has executed survives the failed
  commit around it and is executed again (`ShortfallExplained` counts it);
- the portal's retry between the clean-up's select and delete loses the row
  (`DurableQueue` lets `CleanUp` take it after a retry);
- in stream mode a Purchase leaves before the commit that records it
  (`PurchaseIsRecorded` needs the outbox in Postgres), and a Refund outlives the
  failure of the report that queued it (`RefundFollowsPurchase` needs the same);
- a removal WooCommerce tells nothing of is not reported when an earlier answer
  left the flag up (`OneLossPerAnswer` counts them);
- two Shopify deliveries of one order, a Purchase sent again after its order was
  decided, or a confirmed order sent to the courier from the portal queue a
  second Purchase (`PurchaseOnce` is checked without them);
- two rows of one order can be booked from both at once, because FOR UPDATE on
  `courier_orders` locks nothing before the row exists (`OneConsignment` is per
  row);
- entries of a deleted client are never acknowledged, and because pending
  entries are read before new ones, each worker that holds one reads it for
  ever (`EventuallyBridged` excuses a deletion);
- the tracker keeps the Redis keys of events it refuses over the limit, so their
  repetition is answered "deduplicated" (`DedupMeansQueued` excuses them); the
  same happens after a crash, and when its fast attempt timed out after it took
  effect;
- a request may be answered "already received" for a first one that the quota
  then refuses;
- the portal's cancel overwrites a delivery reported while it waited for the
  courier's API.

## 9. Faults

A definition introduced by a comment "Fault:" is a plausible slip in the code
beside the definition it varies: a lock not taken, a status not tested, a count
off by one. No specification uses it. `PROJECT.json` ("mutants") pairs each with
the property that notices it.

## 10. What is abstracted, and what is not modelled

Payloads, wording, timestamps and addresses are data no property tells apart.
What a platform or a courier answers is a choice of the model. Postgres is
taken to do what it documents: READ COMMITTED, row locks until the end of the
transaction, unique indexes, and ending one of two deadlocked sessions.

In the tracker: calls of events other than InitiateCheckout are sent and
forgotten, except a synchronous one, which stops its page; the two timers of a
surface check are one flag; `enable_variations` is on and content ids are ids, not
SKUs; the cart is never empty on a cart or checkout page, and an order has product
items (without them `buykorigw_send_order_initiate_checkout_fallback` returns
before it sends, `woo-order-hooks.php:255`); an order's Purchase hooks run once
before its thank-you page (a payment tried again finds the order tracked and
returns, `frontend-tracking.php:443`); the parallel browser
pixels are left out; `checkout_place_order` comes with the click that
`SubmitCheckout` stands for; the answer to the request that places an order
arrives; a page restored from the browser's back-forward cache is a page that was
not left.

In `PurchaseFlow`: the payload of a held Purchase parses. `_queue_refund_event`
answers a payload that does not by returning without an event, and the caller
marks the Refund as sent (`courier_webhook.py:154`); it parses the payload that
`_queue_confirmed_event` parsed before `purchase_event_sent` could be set, and what
overwrites it later was validated by the same schema. Redis answers every XADD
there: the fall-back to the outbox after a failed or unanswered XADD is in
`EventIngest`. A client and its settings other than `courier_auto_send` do not
change; its deletion is in `Outbox` and `StreamBridge`.

Every invariant and action property of a passing run is also a theorem. Only
model-checked are the two liveness properties, `EventuallySettled` and
`EventuallyBridged`: liveness under fairness is out of the prover's reach.

Not modelled yet: secondary sends with their retries, and the plugin's confirm
and cancel calls (plan, items 10 and 11). Not planned: the client cache, the
generated SDK, payload building and enrichment, portals, analytics,
authentication and migrations, which keep no protocol state.
