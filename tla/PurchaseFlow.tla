---------------------------- MODULE PurchaseFlow ----------------------------
(***************************************************************************)
(* The life of one order of one client: its pending_events rows, its       *)
(* courier_orders row, and every handler that moves them or queues a       *)
(* Purchase or Refund event:                                               *)
(*   - ingestion that holds a Purchase (routers/events.py)                 *)
(*   - confirm, bulk confirm, cancel (routers/deferred_events.py)          *)
(*   - the WooCommerce and Shopify webhooks (routers/webhook.py)           *)
(*   - the portal's courier buttons (routers/courier_api.py)               *)
(*   - courier status webhooks and the poller (routers/courier_webhook.py) *)
(*   - auto-confirm and expiry (services/expiry_service.py)                *)
(*                                                                         *)
(* A handler is one database session.  Its row locks (FOR UPDATE) are held *)
(* from the step that takes them to its commit or rollback, across calls   *)
(* of the courier's API; its writes are visible at the commit.  A handler  *)
(* that meets a locked row waits, and sees the row as committed.           *)
(*                                                                         *)
(* A definition introduced as "Fault:" is no part of the model: it is a    *)
(* plausible slip in the definition after it, put in its place to see that *)
(* a run would notice.                                                     *)
(***************************************************************************)
EXTENDS Integers, FiniteSets

CONSTANTS
    Slots,              \* concurrent handlers (connections of the pool)
    NoSlot,             \* the holder of a free row
    Kinds,              \* Kinds[s]: the handlers that may run in slot s
    MaxRows,            \* bound: pending_events rows of the order
    MaxRequests,        \* bound: handler calls in a behaviour
    MaxHolds,           \* bound: of these, Purchases sent to be held
    MaxCommitFailures,  \* bound: commits that fail
    AutoSend,           \* values of client.courier_auto_send while the order lives
    RedisStream,        \* EVENT_INGEST_MODE == "redis_stream"
    QuotaMayReject      \* may check_and_reserve_usage raise 429?

Rows == 1 .. MaxRows

KindNames == {"hold", "confirm", "bulk", "woo", "shopify", "cancel", "portal_send",
              "status", "portal_cancel", "auto_confirm", "expire"}

ASSUME PurchaseAssumption ==
    /\ NoSlot \notin Slots
    /\ Kinds \in [Slots -> SUBSET KindNames]
    /\ MaxRows \in Nat \ {0}
    /\ MaxRequests \in Nat
    /\ MaxHolds \in Nat
    /\ MaxCommitFailures \in Nat
    /\ AutoSend \in SUBSET BOOLEAN
    /\ {RedisStream, QuotaMayReject} \subseteq BOOLEAN

VARIABLES
    status,     \* pending_events.status of each row, "none" before it exists
    holder,     \* the slot that holds the row's FOR UPDATE lock
    courier,    \* the courier_orders row of the order
    slot,       \* the handler running in each slot
    reported,   \* statuses the courier has reported for the consignment
    out,        \* what left the system: bookings made, events queued (history)
    spent       \* how much of each bound a behaviour has used

vars == <<status, holder, courier, slot, reported, out, spent>>

RowStatuses == {"none", "pending", "courier_booked", "confirmed", "cancelled", "expired"}
\* What CourierService.map_status can return.
ParcelStatuses == {"pending", "in_transit", "delivered", "returned", "cancelled"}
Pcs == {"idle", "holding", "reviving", "booking", "saving", "queued",
        "shopify", "shopify_queued", "status", "portal_cancel"}
Modes == {"none", "direct", "booked", "already_booked"}

NoCourier == [exists |-> FALSE, row |-> 0, status |-> "pending",
              purchase_event_sent |-> FALSE, refund_event_sent |-> FALSE]

CourierType == [exists: BOOLEAN, row: Rows \cup {0}, status: ParcelStatuses,
                purchase_event_sent: BOOLEAN, refund_event_sent: BOOLEAN]

\* kind and row: what the handler is and works on; mode: the answer of the
\* booking; seen: the courier_orders row as the handler read it; new: the
\* status a courier report carries.
SlotType == [pc: Pcs, kind: KindNames, row: Rows \cup {0}, mode: Modes,
             seen: CourierType, new: ParcelStatuses]

Idle == [pc |-> "idle", kind |-> "hold", row |-> 0, mode |-> "none",
         seen |-> NoCourier, new |-> "pending"]

TypeOK ==
    /\ status \in [Rows -> RowStatuses]
    /\ holder \in [Rows -> Slots \cup {NoSlot}]
    /\ courier \in CourierType
    /\ slot \in [Slots -> SlotType]
    /\ reported \in SUBSET ParcelStatuses
    /\ out \in [booked: [Rows -> Nat], purchases: Nat, refunds: Nat]
    /\ spent \in [requests: Nat, holds: Nat, failures: Nat]

Init ==
    /\ status = [r \in Rows |-> "none"]
    /\ holder = [r \in Rows |-> NoSlot]
    /\ courier = NoCourier
    /\ slot = [s \in Slots |-> Idle]
    /\ reported = {}
    /\ out = [booked |-> [r \in Rows |-> 0], purchases |-> 0, refunds |-> 0]
    /\ spent = [requests |-> 0, holds |-> 0, failures |-> 0]

-----------------------------------------------------------------------------
(* Rows and locks.                                                          *)

Known == {r \in Rows : status[r] # "none"}
With(value) == {r \in Rows : status[r] = value}
Latest == CHOOSE r \in Known : \A q \in Known : q <= r
Free(rows) == \A r \in rows : holder[r] = NoSlot

Unlocked(s) == [r \in Rows |-> IF holder[r] = s THEN NoSlot ELSE holder[r]]

\* A request of this kind reaches slot s.
Arrives(s, kind) ==
    /\ slot[s].pc = "idle"
    /\ kind \in Kinds[s]
    /\ spent.requests < MaxRequests
    /\ kind = "hold" => spent.holds < MaxHolds
    /\ spent' = [spent EXCEPT !.requests = @ + 1,
                              !.holds = IF kind = "hold" THEN @ + 1 ELSE @]

\* The handler goes on from pc with a row, or answers the request.
Continue(s, kind, pc, r) ==
    slot' = [slot EXCEPT ![s] = [Idle EXCEPT !.pc = pc, !.kind = kind, !.row = r]]

Answer(s) == slot' = [slot EXCEPT ![s] = Idle]

Rollback(s) ==
    /\ holder' = Unlocked(s)
    /\ Answer(s)
    /\ UNCHANGED <<status, courier, reported>>

-----------------------------------------------------------------------------
(* POST /events with a Purchase to hold.                                    *)

\* No other row of the order is pending: the insert succeeds.
HoldInsert(s) ==
    /\ Arrives(s, "hold")
    /\ With("pending") = {}
    /\ With("none") # {}
    /\ LET new == CHOOSE r \in With("none") : \A q \in With("none") : r <= q
       IN status' = [status EXCEPT ![new] = "pending"]
    /\ UNCHANGED <<holder, courier, slot, reported, out>>

\* uq_client_order_active rejects the insert; the savepoint is rolled back ...
HoldConflict(s) ==
    /\ Arrives(s, "hold")
    /\ With("pending") # {}
    /\ Continue(s, "hold", "holding", 0)
    /\ UNCHANGED <<status, holder, courier, reported, out>>

\* ... and the latest row is read, without a lock: a pending one is refreshed
\* (its data only), any other will be revived.
HoldReadsPending(s) ==
    /\ slot[s].pc = "holding"
    /\ status[Latest] = "pending"
    /\ Answer(s)
    /\ UNCHANGED <<status, holder, courier, reported, out, spent>>

HoldReadsOther(s) ==
    /\ slot[s].pc = "holding"
    /\ status[Latest] # "pending"
    /\ Continue(s, "hold", "reviving", Latest)
    /\ UNCHANGED <<status, holder, courier, reported, out, spent>>

\* The UPDATE waits for the row's lock; the unique index may reject it.
HoldRevive(s) ==
    LET r == slot[s].row
    IN /\ slot[s].pc = "reviving"
       /\ Free({r})
       /\ status' = IF With("pending") \subseteq {r}
                    THEN [status EXCEPT ![r] = "pending"] ELSE status
       /\ Answer(s)
       /\ UNCHANGED <<holder, courier, reported, out, spent>>

-----------------------------------------------------------------------------
(* Confirming: /events/confirm, /events/confirm/bulk, the shop webhooks.    *)

Lock(s, kind, r) ==
    /\ holder' = [holder EXCEPT ![r] = s]
    /\ Continue(s, kind, "booking", r)
    /\ UNCHANGED <<status, courier, reported, out>>

\* Fault: the select is not FOR UPDATE.
ConfirmUnlocked(s) ==
    /\ Arrives(s, "confirm")
    /\ Cardinality(Known) = 1
    /\ status[Latest] = "pending"
    /\ Lock(s, "confirm", Latest)

\* All rows of the order are locked; more than one is MultipleResultsFound.
\* A request that finds nothing to confirm answers without a trace, here and
\* in every handler below: such an early return is no step.
ConfirmLock(s) ==
    /\ Arrives(s, "confirm")
    /\ Free(Known)
    /\ Cardinality(Known) = 1
    /\ status[Latest] = "pending"
    /\ Lock(s, "confirm", Latest)

\* Fault: rows of any status are selected.
AnyLock(s, kind) ==
    /\ Arrives(s, kind)
    /\ \E r \in Known : Free({r}) /\ Lock(s, kind, r)

\* Bulk confirm and the webhooks select the pending row only (the index
\* allows one), after waiting for its lock.
PendingLock(s, kind) ==
    /\ Arrives(s, kind)
    /\ Free(With("pending"))
    /\ \E r \in With("pending") : Lock(s, kind, r)

\* Shopify goes on when no row of the order is confirmed or booked either.
ShopifyNew(s) ==
    /\ Arrives(s, "shopify")
    /\ With("pending") \cup With("confirmed") \cup With("courier_booked") = {}
    /\ Continue(s, "shopify", "shopify", 0)
    /\ UNCHANGED <<status, holder, courier, reported, out>>

\* The booking decides how the order is confirmed.
Booked(s, mode) ==
    /\ slot' = [slot EXCEPT ![s].pc = "saving", ![s].mode = mode]
    /\ UNCHANGED <<status, holder, courier, reported, spent>>

BookDirect(s) ==
    /\ slot[s].pc = "booking" /\ slot[s].kind # "portal_send"
    /\ FALSE \in AutoSend
    /\ Booked(s, "direct")
    /\ UNCHANGED out

\* Fault: the order is taken for booked without a look.
BookAssumed(s) ==
    /\ slot[s].pc = "booking" /\ slot[s].kind # "portal_send"
    /\ TRUE \in AutoSend
    /\ Booked(s, "already_booked")
    /\ UNCHANGED out

BookExisting(s) ==
    /\ slot[s].pc = "booking" /\ slot[s].kind # "portal_send"
    /\ TRUE \in AutoSend
    /\ courier.exists
    /\ Booked(s, "already_booked")
    /\ UNCHANGED out

\* The portal has looked for a booking when it took the lock.
CallsCourier(s) ==
    /\ slot[s].pc = "booking"
    /\ slot[s].kind = "portal_send" \/ (TRUE \in AutoSend /\ ~courier.exists)

\* The courier's API makes the consignment.
BookSucceeds(s) ==
    /\ CallsCourier(s)
    /\ Booked(s, "booked")
    /\ out' = [out EXCEPT !.booked[slot[s].row] = @ + 1]

\* The API refuses, or data or credentials are missing.
BookRefused(s) ==
    /\ slot[s].pc = "booking"
    /\ slot[s].kind = "portal_send" \/ TRUE \in AutoSend
    /\ Rollback(s)
    /\ UNCHANGED <<out, spent>>

\* The consignment is made and the answer lost: the handler sees a failure.
BookUnanswered(s) ==
    /\ CallsCourier(s)
    /\ spent.failures < MaxCommitFailures
    /\ out' = [out EXCEPT !.booked[slot[s].row] = @ + 1]
    /\ spent' = [spent EXCEPT !.failures = @ + 1]
    /\ Rollback(s)

\* The order was booked by another handler since the test: the insert of a
\* second courier_orders row breaks uq_courier_orders_client_order.
SaveCollides(s) ==
    /\ slot[s].pc = "saving"
    /\ slot[s].mode = "booked"
    /\ courier.exists
    /\ Rollback(s)
    /\ UNCHANGED <<out, spent>>

SaveBooked(s) ==
    LET r == slot[s].row
    IN /\ slot[s].pc = "saving"
       /\ \/ slot[s].mode = "already_booked" /\ UNCHANGED <<courier, reported>>
          \/ /\ slot[s].mode = "booked" /\ ~courier.exists
             /\ courier' = [NoCourier EXCEPT !.exists = TRUE, !.row = r]
             /\ reported' = {"pending"}
       /\ status' = [status EXCEPT ![r] = "courier_booked"]
       /\ holder' = Unlocked(s)
       /\ Answer(s)
       /\ UNCHANGED <<out, spent>>

\* _queue_confirmed_event: the quota rejects ...
QueueRejected(s) ==
    /\ slot[s].pc = "saving" /\ slot[s].mode = "direct"
    /\ QuotaMayReject
    /\ Rollback(s)
    /\ UNCHANGED <<out, spent>>

\* Fault: the outbox row is committed on its own.
QueueAtOnce(s) ==
    /\ slot[s].pc = "saving" /\ slot[s].mode = "direct"
    /\ slot' = [slot EXCEPT ![s].pc = "queued"]
    /\ out' = [out EXCEPT !.purchases = @ + 1]
    /\ UNCHANGED <<status, holder, courier, reported, spent>>

\* ... or the event is queued: at once in the stream, else with the commit.
Queue(s) ==
    /\ slot[s].pc = "saving" /\ slot[s].mode = "direct"
    /\ slot' = [slot EXCEPT ![s].pc = "queued"]
    /\ out' = [out EXCEPT !.purchases = IF RedisStream THEN @ + 1 ELSE @]
    /\ UNCHANGED <<status, holder, courier, reported, spent>>

SaveConfirmed(s) ==
    /\ slot[s].pc = "queued"
    /\ status' = [status EXCEPT ![slot[s].row] = "confirmed"]
    /\ out' = [out EXCEPT !.purchases = IF RedisStream THEN @ ELSE @ + 1]
    /\ holder' = Unlocked(s)
    /\ Answer(s)
    /\ UNCHANGED <<courier, reported, spent>>

\* The commit fails: what the handler did outside the database stays done.
CommitFails(s) ==
    /\ \/ slot[s].pc = "saving" /\ slot[s].mode \in {"booked", "already_booked"}
       \/ slot[s].pc \in {"queued", "shopify_queued"}
    /\ spent.failures < MaxCommitFailures
    /\ spent' = [spent EXCEPT !.failures = @ + 1]
    /\ Rollback(s)
    /\ UNCHANGED out

\* Shopify without a pending row: queue a Purchase and record a confirmed row.
ShopifyQueue(s) ==
    /\ slot[s].pc = "shopify"
    /\ slot' = [slot EXCEPT ![s].pc = "shopify_queued"]
    /\ out' = [out EXCEPT !.purchases = IF RedisStream THEN @ + 1 ELSE @]
    /\ UNCHANGED <<status, holder, courier, reported, spent>>

ShopifyRejected(s) ==
    /\ slot[s].pc = "shopify"
    /\ QuotaMayReject
    /\ Rollback(s)
    /\ UNCHANGED <<out, spent>>

ShopifySave(s) ==
    /\ slot[s].pc = "shopify_queued"
    /\ With("none") # {}
    /\ LET new == CHOOSE r \in With("none") : \A q \in With("none") : r <= q
       IN status' = [status EXCEPT ![new] = "confirmed"]
    /\ out' = [out EXCEPT !.purchases = IF RedisStream THEN @ ELSE @ + 1]
    /\ Answer(s)
    /\ UNCHANGED <<holder, courier, reported, spent>>

-----------------------------------------------------------------------------
(* Cancelling, auto-confirm and expiry: one transaction each.               *)

\* Fault: the row is cancelled under the feet of a confirm.
CancelUnlocked(s) ==
    /\ Arrives(s, "cancel")
    /\ \E r \in With("pending") : status' = [status EXCEPT ![r] = "cancelled"]
    /\ UNCHANGED <<holder, courier, slot, reported, out>>

\* /events/cancel takes the order's only row, /events/cancel/bulk the pending one.
Cancel(s) ==
    /\ Arrives(s, "cancel")
    /\ Free(With("pending"))
    /\ \E r \in With("pending") : status' = [status EXCEPT ![r] = "cancelled"]
    /\ UNCHANGED <<holder, courier, slot, reported, out>>

\* SKIP LOCKED; the courier is not asked, whatever courier_auto_send says.
AutoConfirm(s) ==
    /\ Arrives(s, "auto_confirm")
    /\ \E r \in With("pending") :
         /\ Free({r})
         /\ status' = [status EXCEPT ![r] = "confirmed"]
    /\ out' = [out EXCEPT !.purchases = @ + 1]
    /\ UNCHANGED <<holder, courier, slot, reported>>

\* In stream mode a savepoint or commit that fails leaves the event queued.
AutoConfirmFails(s) ==
    /\ Arrives(s, "auto_confirm")
    /\ RedisStream /\ MaxCommitFailures > 0
    /\ \E r \in With("pending") : Free({r})
    /\ out' = [out EXCEPT !.purchases = @ + 1]
    /\ UNCHANGED <<status, holder, courier, slot, reported>>

\* Fault: the row expires under the feet of a confirm.
ExpireUnlocked(s) ==
    /\ Arrives(s, "expire")
    /\ \E r \in With("pending") : status' = [status EXCEPT ![r] = "expired"]
    /\ UNCHANGED <<holder, courier, slot, reported, out>>

Expire(s) ==
    /\ Arrives(s, "expire")
    /\ \E r \in With("pending") :
         /\ Free({r})
         /\ status' = [status EXCEPT ![r] = "expired"]
    /\ UNCHANGED <<holder, courier, slot, reported, out>>

-----------------------------------------------------------------------------
(* The courier: portal buttons, status reports.                             *)

\* POST /courier/send locks the row and tests for a courier_orders row; the
\* status of the row is not looked at.
PortalSendLock(s, r) ==
    /\ Arrives(s, "portal_send")
    /\ r \in Known /\ Free({r})
    /\ ~courier.exists
    /\ Lock(s, "portal_send", r)

\* The parcel moves and the courier reports it, perhaps late, twice or out of
\* order: a report may be delivered at any later time.
CourierReports ==
    /\ courier.exists
    /\ \/ "delivered" \notin reported /\ "cancelled" \notin reported
          /\ \E new \in {"in_transit", "delivered", "cancelled", "returned"} :
               reported' = reported \cup {new}
       \/ "delivered" \in reported /\ reported' = reported \cup {"returned"}
    /\ reported' # reported
    /\ UNCHANGED <<status, holder, courier, slot, out, spent>>

\* A webhook or the poller reads the courier_orders row, without a lock.
StatusRead(s) ==
    /\ Arrives(s, "status")
    /\ courier.exists
    /\ \E new \in reported \ {courier.status} :
         slot' = [slot EXCEPT ![s] = [Idle EXCEPT !.pc = "status", !.kind = "status",
                                        !.row = courier.row, !.seen = courier, !.new = new]]
    /\ UNCHANGED <<status, holder, courier, reported, out>>

\* process_courier_status_change from the row lock to the commit: the flags
\* are tested as they were read before the lock.
Reports(s, new) ==
    /\ slot[s].pc = "status"
    /\ slot[s].new \in new
    /\ Free({slot[s].row})
    /\ Answer(s)
    /\ UNCHANGED <<holder, reported, spent>>

\* Fault: a delivery is a move like any other.
StatusMovesOnly(s) ==
    /\ Reports(s, {"pending", "in_transit", "delivered"})
    /\ courier' = [courier EXCEPT !.status = slot[s].new]
    /\ UNCHANGED <<status, out>>

StatusMoves(s) ==
    /\ Reports(s, {"pending", "in_transit"})
    /\ courier' = [courier EXCEPT !.status = slot[s].new]
    /\ UNCHANGED <<status, out>>

\* Fault: the flag is not set.
StatusDeliveredUnmarked(s) ==
    /\ Reports(s, {"delivered"})
    /\ ~slot[s].seen.purchase_event_sent
    /\ courier' = [courier EXCEPT !.status = "delivered"]
    /\ status' = [status EXCEPT ![slot[s].row] = "confirmed"]
    /\ out' = [out EXCEPT !.purchases = @ + 1]

\* Fault: the courier's word is written to the pending row.
StatusDeliveredRow(s) ==
    /\ Reports(s, {"delivered"})
    /\ ~slot[s].seen.purchase_event_sent
    /\ courier' = [courier EXCEPT !.status = "delivered", !.purchase_event_sent = TRUE]
    /\ status' = [status EXCEPT ![slot[s].row] = "delivered"]
    /\ out' = [out EXCEPT !.purchases = @ + 1]

StatusDelivered(s) ==
    /\ Reports(s, {"delivered"})
    /\ ~slot[s].seen.purchase_event_sent
    /\ courier' = [courier EXCEPT !.status = "delivered", !.purchase_event_sent = TRUE]
    /\ status' = [status EXCEPT ![slot[s].row] = "confirmed"]
    /\ out' = [out EXCEPT !.purchases = @ + 1]

\* The quota rejects the Purchase: logged, and the new status is committed.
StatusDeliveredRejected(s) ==
    /\ QuotaMayReject
    /\ Reports(s, {"delivered"})
    /\ ~slot[s].seen.purchase_event_sent
    /\ courier' = [courier EXCEPT !.status = "delivered"]
    /\ UNCHANGED <<status, out>>

StatusDeliveredAgain(s) ==
    /\ Reports(s, {"delivered"})
    /\ slot[s].seen.purchase_event_sent
    /\ courier' = [courier EXCEPT !.status = "delivered"]
    /\ UNCHANGED <<status, out>>

\* Fault: a Refund whether or not the Purchase went out.
StatusUndoneAlways(s) ==
    /\ Reports(s, {"returned", "cancelled"})
    /\ status' = [status EXCEPT ![slot[s].row] = "cancelled"]
    /\ IF ~slot[s].seen.refund_event_sent
       THEN /\ courier' = [courier EXCEPT !.status = slot[s].new, !.refund_event_sent = TRUE]
            /\ out' = [out EXCEPT !.refunds = @ + 1]
       ELSE /\ courier' = [courier EXCEPT !.status = slot[s].new]
            /\ UNCHANGED out

\* Fault: a returned parcel is not refunded.
StatusUndoneCancelled(s) ==
    /\ Reports(s, {"returned", "cancelled"})
    /\ status' = [status EXCEPT ![slot[s].row] = "cancelled"]
    /\ IF slot[s].seen.purchase_event_sent /\ slot[s].new = "cancelled"
       THEN /\ courier' = [courier EXCEPT !.status = slot[s].new, !.refund_event_sent = TRUE]
            /\ out' = [out EXCEPT !.refunds = @ + 1]
       ELSE /\ courier' = [courier EXCEPT !.status = slot[s].new]
            /\ UNCHANGED out

\* Returned or cancelled: a Refund if the Purchase went out, unless rejected.
StatusUndone(s) ==
    LET refund == slot[s].seen.purchase_event_sent /\ ~slot[s].seen.refund_event_sent
    IN /\ Reports(s, {"returned", "cancelled"})
       /\ status' = [status EXCEPT ![slot[s].row] = "cancelled"]
       /\ \/ /\ refund
             /\ courier' = [courier EXCEPT !.status = slot[s].new, !.refund_event_sent = TRUE]
             /\ out' = [out EXCEPT !.refunds = @ + 1]
          \/ /\ refund => QuotaMayReject
             /\ courier' = [courier EXCEPT !.status = slot[s].new]
             /\ UNCHANGED out

\* The deadlock of a status handler with the portal (each locks the row the
\* other holds) or a failed commit ends it: the stream keeps an event it has
\* been given, a Purchase or a Refund.
StatusFails(s) ==
    /\ Reports(s, ParcelStatuses)
    /\ MaxCommitFailures > 0
    /\ \/ UNCHANGED out
       \/ /\ RedisStream /\ slot[s].new = "delivered"
          /\ ~slot[s].seen.purchase_event_sent
          /\ out' = [out EXCEPT !.purchases = @ + 1]
       \/ /\ RedisStream /\ slot[s].new \in {"returned", "cancelled"}
          /\ slot[s].seen.purchase_event_sent /\ ~slot[s].seen.refund_event_sent
          /\ out' = [out EXCEPT !.refunds = @ + 1]
    /\ UNCHANGED <<status, courier>>

\* POST /courier/cancel reads the status, calls the courier ...
PortalCancelRead(s) ==
    /\ Arrives(s, "portal_cancel")
    /\ courier.exists
    /\ courier.status \notin {"cancelled", "delivered", "returned"}
    /\ slot' = [slot EXCEPT ![s] = [Idle EXCEPT !.pc = "portal_cancel", !.kind = "portal_cancel",
                                      !.row = courier.row, !.seen = courier]]
    /\ UNCHANGED <<status, holder, courier, reported, out>>

PortalCancelRefused(s) ==
    /\ slot[s].pc = "portal_cancel"
    /\ Rollback(s)
    /\ UNCHANGED <<out, spent>>

\* ... and overwrites both rows with what it decided before the call.
PortalCancelSave(s) ==
    LET r == slot[s].row
    IN /\ slot[s].pc = "portal_cancel"
       /\ Free({r})
       /\ courier' = [courier EXCEPT !.status = "cancelled"]
       /\ status' = [status EXCEPT ![r] = "cancelled"]
       /\ Answer(s)
       /\ UNCHANGED <<holder, reported, out, spent>>

-----------------------------------------------------------------------------

HoldStep(s) ==
    \/ HoldInsert(s) \/ HoldConflict(s) \/ HoldReadsPending(s) \/ HoldReadsOther(s)
    \/ HoldRevive(s)

ConfirmStep(s) ==
    \/ ConfirmLock(s)
    \/ \E kind \in {"bulk", "woo", "shopify"} : PendingLock(s, kind)
    \/ ShopifyNew(s) \/ ShopifyQueue(s) \/ ShopifyRejected(s) \/ ShopifySave(s)
    \/ Queue(s) \/ QueueRejected(s) \/ SaveConfirmed(s)

BookingStep(s) ==
    \/ \E r \in Rows : PortalSendLock(s, r)
    \/ BookDirect(s) \/ BookExisting(s) \/ BookSucceeds(s) \/ BookRefused(s) \/ BookUnanswered(s)
    \/ SaveBooked(s) \/ SaveCollides(s) \/ CommitFails(s)

CourierStep(s) ==
    \/ StatusRead(s) \/ StatusMoves(s) \/ StatusDelivered(s) \/ StatusDeliveredRejected(s)
    \/ StatusDeliveredAgain(s) \/ StatusUndone(s) \/ StatusFails(s)
    \/ PortalCancelRead(s) \/ PortalCancelRefused(s) \/ PortalCancelSave(s)

SweepStep(s) ==
    Cancel(s) \/ AutoConfirm(s) \/ AutoConfirmFails(s) \/ Expire(s)

Next ==
    \/ CourierReports
    \/ \E s \in Slots : \/ HoldStep(s) \/ ConfirmStep(s) \/ BookingStep(s)
                       \/ CourierStep(s) \/ SweepStep(s)

Spec == Init /\ [][Next]_vars

-----------------------------------------------------------------------------
(* What must hold.                                                          *)

\* "Lock before external booking so concurrent confirms cannot create
\* duplicate consignments": a second consignment for a row is only ever made
\* after a lost answer or a failed commit, never by a race of two handlers.
OneConsignment == \A r \in Rows : out.booked[r] <= 1 + spent.failures

\* The Purchase of the order is queued at most once.
PurchaseOnce == out.purchases <= 1

\* "Lock before external booking ... Now hold the row lock and verify the
\* status is still 'pending'": what a confirming handler saw under the lock is
\* still so when it saves, whatever ran while it waited for the courier.
DecidedOnPending ==
    \A s \in Slots :
        slot[s].pc \in {"booking", "saving", "queued"} /\ slot[s].kind # "portal_send"
            => status[slot[s].row] = "pending"

\* Queueing a Purchase and recording it are one transaction: when no handler
\* is between the two, every Purchase of an order that was never at a courier
\* has its confirmed row.
PurchaseIsRecorded ==
    ~courier.exists /\ (\A s \in Slots : slot[s].pc \notin {"queued", "shopify_queued"})
        => out.purchases <= Cardinality(With("confirmed"))

\* A Refund follows a Purchase, one for one.
RefundFollowsPurchase == out.refunds <= out.purchases

\* "Purchase event will fire after delivery": an order recorded as delivered
\* has its Purchase queued.
DeliveredIsPurchased == courier.status = "delivered" => out.purchases >= 1

\* A row waiting for the courier has a courier_orders row to be reported on.
BookedHasConsignment == With("courier_booked") # {} => courier.exists

\* An order cancelled before it was at a courier stays cancelled, whatever
\* confirm, sweep or hold was under way when it was.
CancelledStaysCancelled ==
    [][\A r \in Rows : ~courier.exists /\ status[r] = "cancelled"
                          => status'[r] = "cancelled"]_vars

\* An order cancelled after its Purchase went out has its Refund queued.
CancelledIsRefunded ==
    With("cancelled") # {} /\ out.purchases > 0 => out.refunds > 0

=============================================================================
