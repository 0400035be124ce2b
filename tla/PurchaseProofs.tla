--------------------------- MODULE PurchaseProofs ---------------------------
(***************************************************************************)
(* Theorems about PurchaseFlow, for every number of handlers and rows,     *)
(* every assignment of handlers to slots and every bound: its types, that  *)
(* a handler's decision still holds when it saves, that a row has one      *)
(* consignment for each failure and one more, and that a row waiting for   *)
(* a courier has a courier_orders row.  Under conditions that each theorem *)
(* names: an order's Purchases and Refunds agree with its rows and with    *)
(* what its courier reported.                                              *)
(***************************************************************************)
EXTENDS PurchaseFlow, FiniteSetTheorems, WellFoundedInduction, TLAPS

-----------------------------------------------------------------------------
(* The CHOOSEs: the latest row, and the first free one.                     *)

LEMMA HasLeast == ASSUME NEW T \in SUBSET Nat, T # {} PROVE \E x \in T : \A y \in T : x <= y
<1>1. \E x \in T : \A y \in T : <<y, x>> \notin OpToRel(<, Nat)
  BY NatLessThanWellFounded, WFMin
<1>2. PICK x \in T : \A y \in T : <<y, x>> \notin OpToRel(<, Nat)
  BY <1>1
<1>3. ASSUME NEW y \in T PROVE x <= y
  <2>1. <<y, x>> \in Nat \X Nat /\ ~(<<y, x>>[1] < <<y, x>>[2])
    BY <1>2 DEF OpToRel
  <2> QED BY <2>1
<1> QED BY <1>3

LEMMA HasGreatest == ASSUME NEW T \in SUBSET Rows, T # {} PROVE \E x \in T : \A y \in T : y <= x
<1> USE PurchaseAssumption DEF Rows
<1> DEFINE D == {MaxRows - y : y \in T}
<1>1. D \in SUBSET Nat /\ D # {}
  <2>1. \A y \in T : MaxRows - y \in Nat
    OBVIOUS
  <2>2. PICK y \in T : TRUE
    OBVIOUS
  <2>3. MaxRows - y \in D
    OBVIOUS
  <2> QED BY <2>1, <2>3
<1>2. PICK d \in D : \A e \in D : d <= e
  BY <1>1, HasLeast
<1>3. PICK x \in T : d = MaxRows - x
  BY <1>2
<1>4. ASSUME NEW y \in T PROVE y <= x
  <2>1. MaxRows - y \in D
    OBVIOUS
  <2>2. d <= MaxRows - y
    BY <1>2, <2>1
  <2> HIDE DEF D
  <2>3. MaxRows \in Int /\ x \in Int /\ y \in Int
    OBVIOUS
  <2> QED BY <1>3, <2>2, <2>3
<1> QED BY <1>4

LEMMA LatestIsKnown == Known # {} => Latest \in Known
<1>1. Known \in SUBSET Rows
  BY DEF Known
<1> QED BY <1>1, HasGreatest DEF Latest

\* The row a new one takes
FirstNone == CHOOSE r \in With("none") : \A q \in With("none") : r <= q

LEMMA FirstNoneIsNone == With("none") # {} => FirstNone \in With("none")
<1>1. With("none") \in SUBSET Nat
  BY PurchaseAssumption DEF With, Rows
<1> QED BY <1>1, HasLeast DEF FirstNone

\* An order with one row has it as its latest.
LEMMA OnlyRow == Cardinality(Known) = 1 => Latest \in Known
<1>1. Cardinality({}) = 0
  BY FS_EmptySet
<1> QED BY <1>1, LatestIsKnown


-----------------------------------------------------------------------------
(* Types.                                                                   *)

\* A handler that goes on or answers leaves its slot well typed.
LEMMA SlotTypes ==
    ASSUME slot \in [Slots -> SlotType], NEW s \in Slots
    PROVE  /\ Idle \in SlotType
           /\ Answer(s) => slot' \in [Slots -> SlotType]
           /\ \A kind \in KindNames, pc \in Pcs, r \in Rows \cup {0} :
                 Continue(s, kind, pc, r) => slot' \in [Slots -> SlotType]
           /\ \A e \in SlotType :
                 slot' = [slot EXCEPT ![s] = e] => slot' \in [Slots -> SlotType]
           /\ \A pc \in Pcs, mode \in Modes :
                 slot' = [slot EXCEPT ![s].pc = pc, ![s].mode = mode]
                    => slot' \in [Slots -> SlotType]
           /\ \A pc \in Pcs :
                 slot' = [slot EXCEPT ![s].pc = pc] => slot' \in [Slots -> SlotType]
<1>1. NoCourier \in CourierType
  BY DEF NoCourier, CourierType, ParcelStatuses
<1>2. Idle \in SlotType
  BY <1>1 DEF Idle, SlotType, Pcs, KindNames, Modes, ParcelStatuses
<1>3. slot[s] \in SlotType
  OBVIOUS
<1>4. \A kind \in KindNames, pc \in Pcs, r \in Rows \cup {0} :
        [Idle EXCEPT !.pc = pc, !.kind = kind, !.row = r] \in SlotType
  BY <1>2 DEF SlotType
<1>5. \A pc \in Pcs, mode \in Modes : [slot[s] EXCEPT !.pc = pc, !.mode = mode] \in SlotType
  BY <1>3 DEF SlotType
<1>6. \A pc \in Pcs : [slot[s] EXCEPT !.pc = pc] \in SlotType
  BY <1>3 DEF SlotType
<1>7. \A e \in SlotType : slot' = [slot EXCEPT ![s] = e] => slot' \in [Slots -> SlotType]
  OBVIOUS
<1>8. Answer(s) => slot' \in [Slots -> SlotType]
  BY <1>2, <1>7 DEF Answer
<1>9. ASSUME NEW kind \in KindNames, NEW pc \in Pcs, NEW r \in Rows \cup {0},
             Continue(s, kind, pc, r)
      PROVE  slot' \in [Slots -> SlotType]
  BY <1>4, <1>7, <1>9 DEF Continue
<1>10. ASSUME NEW pc \in Pcs, NEW mode \in Modes,
              slot' = [slot EXCEPT ![s].pc = pc, ![s].mode = mode]
       PROVE  slot' \in [Slots -> SlotType]
  <2>1. slot' = [slot EXCEPT ![s] = [slot[s] EXCEPT !.pc = pc, !.mode = mode]]
    BY <1>10
  <2> QED BY <1>5, <1>7, <2>1
<1>11. ASSUME NEW pc \in Pcs, slot' = [slot EXCEPT ![s].pc = pc]
       PROVE  slot' \in [Slots -> SlotType]
  BY <1>6, <1>7, <1>11
<1> QED BY <1>2, <1>7, <1>8, <1>9, <1>10, <1>11

\* A request counts against the bounds.
LEMMA ArrivesTypes ==
    ASSUME spent \in [requests: Nat, holds: Nat, failures: Nat], NEW s, NEW kind, Arrives(s, kind)
    PROVE  spent' \in [requests: Nat, holds: Nat, failures: Nat] /\ spent'.failures = spent.failures
<1> DEFINE n == IF kind = "hold" THEN spent.holds + 1 ELSE spent.holds
<1>1. n \in Nat
  OBVIOUS
<1>2. spent' = [spent EXCEPT !.requests = @ + 1, !.holds = n]
  BY DEF Arrives
<1> HIDE DEF n
<1>3. [spent EXCEPT !.requests = @ + 1] \in [requests: Nat, holds: Nat, failures: Nat]
  OBVIOUS
<1>4. [spent EXCEPT !.requests = @ + 1, !.holds = n] \in [requests: Nat, holds: Nat, failures: Nat]
  BY <1>1, <1>3
<1>5. [spent EXCEPT !.requests = @ + 1, !.holds = n].failures = spent.failures
  BY <1>3
<1> QED BY <1>2, <1>4, <1>5

\* A report or a cancellation sets the status, and perhaps one of the flags.
CourierMoves(new) ==
    \/ courier' = [courier EXCEPT !.status = new]
    \/ courier' = [courier EXCEPT !.status = new, !.purchase_event_sent = TRUE]
    \/ courier' = [courier EXCEPT !.status = new, !.refund_event_sent = TRUE]

LEMMA CourierTypes ==
    /\ NoCourier \in CourierType
    /\ \A new \in ParcelStatuses :
          courier \in CourierType /\ CourierMoves(new) => courier' \in CourierType
<1>1. NoCourier \in CourierType
  BY DEF NoCourier, CourierType, ParcelStatuses
<1>2. ASSUME NEW new \in ParcelStatuses, courier \in CourierType, CourierMoves(new)
      PROVE  courier' \in CourierType
  <2>1. [courier EXCEPT !.status = new] \in CourierType
    BY <1>2 DEF CourierType
  <2>2. [courier EXCEPT !.status = new, !.purchase_event_sent = TRUE] \in CourierType
    BY <1>2, <2>1 DEF CourierType
  <2>3. [courier EXCEPT !.status = new, !.refund_event_sent = TRUE] \in CourierType
    BY <1>2, <2>1 DEF CourierType
  <2> QED BY <1>2, <2>1, <2>2, <2>3 DEF CourierMoves
<1> QED BY <1>1, <1>2

LEMMA TypeInit == Init => TypeOK
<1> SUFFICES ASSUME Init PROVE TypeOK
  OBVIOUS
<1>1. courier \in CourierType
  BY CourierTypes DEF Init
<1>2. Idle \in SlotType
  BY CourierTypes DEF Idle, SlotType, Pcs, KindNames, Modes, ParcelStatuses
<1>3. slot \in [Slots -> SlotType]
  BY <1>2 DEF Init
<1>4. status \in [Rows -> RowStatuses] /\ holder \in [Rows -> Slots \cup {NoSlot}]
  BY DEF Init, RowStatuses
<1>5. out \in [booked: [Rows -> Nat], purchases: Nat, refunds: Nat]
  BY DEF Init
<1>6. spent \in [requests: Nat, holds: Nat, failures: Nat] /\ reported \in SUBSET ParcelStatuses
  BY DEF Init
<1> QED BY <1>1, <1>3, <1>4, <1>5, <1>6 DEF TypeOK

\* Handlers that only hold, cancel or sweep rows
LEMMA HoldTypes == ASSUME TypeOK, NEW s \in Slots, HoldStep(s), slot[s].pc = "holding" => Known # {}
                   PROVE  TypeOK'
<1> USE DEF TypeOK
<1>1. slot' \in [Slots -> SlotType]
  <2>1. CASE slot' = slot
    BY <2>1
  <2>2. CASE Answer(s)
    BY <2>2, SlotTypes
  <2>3. CASE HoldConflict(s)
    <3>1. Continue(s, "hold", "holding", 0)
      BY <2>3 DEF HoldConflict
    <3>2. "hold" \in KindNames /\ "holding" \in Pcs /\ 0 \in Rows \cup {0}
      BY DEF KindNames, Pcs
    <3> QED BY <3>1, <3>2, SlotTypes
  <2>4. CASE HoldReadsOther(s)
    <3>1. Latest \in Rows \cup {0}
      BY <2>4, LatestIsKnown DEF HoldReadsOther, Known
    <3>2. Continue(s, "hold", "reviving", Latest)
      BY <2>4 DEF HoldReadsOther
    <3>3. "hold" \in KindNames /\ "reviving" \in Pcs
      BY DEF KindNames, Pcs
    <3> QED BY <3>1, <3>2, <3>3, SlotTypes
  <2> QED BY <2>1, <2>2, <2>3, <2>4 DEF HoldStep, HoldInsert, HoldReadsPending, HoldRevive
<1>2. status' \in [Rows -> RowStatuses]
  BY DEF HoldStep, HoldInsert, HoldConflict, HoldReadsPending, HoldReadsOther, HoldRevive,
         RowStatuses
<1>3. spent' \in [requests: Nat, holds: Nat, failures: Nat]
  BY ArrivesTypes
  DEF HoldStep, HoldInsert, HoldConflict, HoldReadsPending, HoldReadsOther, HoldRevive
<1>4. UNCHANGED <<holder, courier, reported, out>>
  BY DEF HoldStep, HoldInsert, HoldConflict, HoldReadsPending, HoldReadsOther, HoldRevive
<1> QED BY <1>1, <1>2, <1>3, <1>4

LEMMA SweepTypes == ASSUME TypeOK, NEW s \in Slots, SweepStep(s) PROVE TypeOK'
<1> USE DEF TypeOK, SweepStep, Cancel, AutoConfirm, AutoConfirmFails, Expire
<1>1. status' \in [Rows -> RowStatuses]
  BY DEF RowStatuses
<1>2. spent' \in [requests: Nat, holds: Nat, failures: Nat]
  BY ArrivesTypes
<1>3. out' \in [booked: [Rows -> Nat], purchases: Nat, refunds: Nat]
  OBVIOUS
<1>4. UNCHANGED <<holder, courier, slot, reported>>
  OBVIOUS
<1> QED BY <1>1, <1>2, <1>3, <1>4


\* Taking and giving back a row's lock
LEMMA LockTypes ==
    ASSUME TypeOK, NEW s \in Slots, NEW kind \in KindNames, NEW r \in Rows, Lock(s, kind, r)
    PROVE  /\ holder' \in [Rows -> Slots \cup {NoSlot}] /\ slot' \in [Slots -> SlotType]
           /\ UNCHANGED <<status, courier, reported, out>>
<1>1. Continue(s, kind, "booking", r) /\ UNCHANGED <<status, courier, reported, out>>
  BY DEF Lock
<1>2. "booking" \in Pcs
  BY DEF Pcs
<1>3. slot' \in [Slots -> SlotType]
  BY <1>1, <1>2, SlotTypes DEF TypeOK
<1>4. holder' \in [Rows -> Slots \cup {NoSlot}]
  BY DEF Lock, TypeOK
<1> QED BY <1>1, <1>3, <1>4

LEMMA UnlockTypes ==
    ASSUME TypeOK, NEW s \in Slots
    PROVE  Unlocked(s) \in [Rows -> Slots \cup {NoSlot}]
BY DEF Unlocked, TypeOK

LEMMA RollbackTypes ==
    ASSUME TypeOK, NEW s \in Slots, Rollback(s)
    PROVE  /\ holder' \in [Rows -> Slots \cup {NoSlot}] /\ slot' \in [Slots -> SlotType]
           /\ UNCHANGED <<status, courier, reported>>
<1>1. Answer(s) /\ holder' = Unlocked(s) /\ UNCHANGED <<status, courier, reported>>
  BY DEF Rollback
<1>2. slot \in [Slots -> SlotType]
  BY DEF TypeOK
<1> QED BY <1>1, <1>2, SlotTypes, UnlockTypes

\* Handlers that confirm
LEMMA ConfirmTypes == ASSUME TypeOK, NEW s \in Slots, ConfirmStep(s) PROVE TypeOK'
<1>1. ASSUME NEW kind \in {"confirm", "bulk", "woo", "shopify"}, NEW r \in Known,
             Arrives(s, kind), Lock(s, kind, r)
      PROVE  TypeOK'
  <2>1. kind \in KindNames /\ r \in Rows
    BY DEF KindNames, Known
  <2>2. spent' \in [requests: Nat, holds: Nat, failures: Nat]
    BY <1>1, ArrivesTypes DEF TypeOK
  <2> QED BY <1>1, <2>1, <2>2, LockTypes DEF TypeOK
<1>2. CASE ConfirmLock(s)
  BY <1>1, <1>2, OnlyRow DEF ConfirmLock
<1>3. ASSUME NEW kind \in {"bulk", "woo", "shopify"}, PendingLock(s, kind) PROVE TypeOK'
  BY <1>1, <1>3 DEF PendingLock, With, Known
<1>4. CASE ShopifyNew(s)
  <2>1. slot' \in [Slots -> SlotType]
    BY <1>4, SlotTypes DEF ShopifyNew, TypeOK, KindNames, Pcs
  <2>2. spent' \in [requests: Nat, holds: Nat, failures: Nat]
    BY <1>4, ArrivesTypes DEF ShopifyNew, TypeOK
  <2> QED BY <1>4, <2>1, <2>2 DEF ShopifyNew, TypeOK
<1>5. CASE ShopifyQueue(s) \/ Queue(s)
  <2>1. slot' = [slot EXCEPT ![s].pc = "queued"] \/ slot' = [slot EXCEPT ![s].pc = "shopify_queued"]
    BY <1>5 DEF ShopifyQueue, Queue
  <2>2. slot' \in [Slots -> SlotType]
    BY <2>1, SlotTypes DEF TypeOK, Pcs
  <2>3. out' \in [booked: [Rows -> Nat], purchases: Nat, refunds: Nat]
    BY <1>5 DEF ShopifyQueue, Queue, TypeOK
  <2> QED BY <1>5, <2>2, <2>3 DEF ShopifyQueue, Queue, TypeOK
<1>6. CASE ShopifyRejected(s) \/ QueueRejected(s)
  BY <1>6, RollbackTypes DEF ShopifyRejected, QueueRejected, TypeOK
<1>7. CASE ShopifySave(s) \/ SaveConfirmed(s)
  <2>1. Answer(s) /\ UNCHANGED <<courier, reported, spent>>
    BY <1>7 DEF ShopifySave, SaveConfirmed
  <2>2. slot' \in [Slots -> SlotType]
    BY <2>1, SlotTypes DEF TypeOK
  <2>3. out' \in [booked: [Rows -> Nat], purchases: Nat, refunds: Nat]
    BY <1>7 DEF ShopifySave, SaveConfirmed, TypeOK
  <2>4. status' \in [Rows -> RowStatuses]
    BY <1>7 DEF ShopifySave, SaveConfirmed, TypeOK, RowStatuses
  <2>5. holder' \in [Rows -> Slots \cup {NoSlot}]
    BY <1>7, UnlockTypes DEF ShopifySave, SaveConfirmed, TypeOK
  <2> QED BY <2>1, <2>2, <2>3, <2>4, <2>5 DEF TypeOK
<1> QED BY <1>2, <1>3, <1>4, <1>5, <1>6, <1>7 DEF ConfirmStep

\* Handlers that book at the courier
LEMMA BookingTypes == ASSUME TypeOK, NEW s \in Slots, BookingStep(s) PROVE TypeOK'
<1>0. /\ out \in [booked: [Rows -> Nat], purchases: Nat, refunds: Nat]
      /\ spent \in [requests: Nat, holds: Nat, failures: Nat]
      /\ slot \in [Slots -> SlotType]
  BY DEF TypeOK
<1>1. ASSUME NEW r \in Rows, PortalSendLock(s, r) PROVE TypeOK'
  <2>1. "portal_send" \in KindNames
    BY DEF KindNames
  <2>2. spent' \in [requests: Nat, holds: Nat, failures: Nat]
    BY <1>0, <1>1, ArrivesTypes DEF PortalSendLock
  <2> QED BY <1>1, <2>1, <2>2, LockTypes DEF PortalSendLock, TypeOK
<1>2. [out EXCEPT !.booked[slot[s].row] = @ + 1]
        \in [booked: [Rows -> Nat], purchases: Nat, refunds: Nat]
  BY <1>0
<1>3. [spent EXCEPT !.failures = @ + 1] \in [requests: Nat, holds: Nat, failures: Nat]
  BY <1>0
<1>4. ASSUME NEW mode \in Modes, Booked(s, mode),
             out' \in [booked: [Rows -> Nat], purchases: Nat, refunds: Nat]
      PROVE  TypeOK'
  <2>1. slot' \in [Slots -> SlotType]
    BY <1>0, <1>4, SlotTypes DEF Booked, Pcs
  <2> QED BY <1>4, <2>1 DEF Booked, TypeOK
<1>5. CASE BookDirect(s) \/ BookExisting(s) \/ BookSucceeds(s)
  <2>1. "direct" \in Modes /\ "already_booked" \in Modes /\ "booked" \in Modes
    BY DEF Modes
  <2> QED BY <1>0, <1>2, <1>4, <1>5, <2>1 DEF BookDirect, BookExisting, BookSucceeds
<1>6. CASE BookRefused(s) \/ BookUnanswered(s) \/ SaveCollides(s) \/ CommitFails(s)
  <2>1. Rollback(s)
    BY <1>6 DEF BookRefused, BookUnanswered, SaveCollides, CommitFails
  <2>2. /\ out' \in [booked: [Rows -> Nat], purchases: Nat, refunds: Nat]
        /\ spent' \in [requests: Nat, holds: Nat, failures: Nat]
    BY <1>0, <1>2, <1>3, <1>6 DEF BookRefused, BookUnanswered, SaveCollides, CommitFails
  <2> QED BY <2>1, <2>2, RollbackTypes DEF TypeOK
<1>7. CASE SaveBooked(s)
  <2>1. status' \in [Rows -> RowStatuses]
    BY <1>7 DEF SaveBooked, TypeOK, RowStatuses
  <2>2. slot' \in [Slots -> SlotType]
    BY <1>0, <1>7, SlotTypes DEF SaveBooked
  <2>3. holder' \in [Rows -> Slots \cup {NoSlot}]
    BY <1>7, UnlockTypes DEF SaveBooked
  <2>4. slot[s].row \in Rows \cup {0}
    BY <1>0 DEF SlotType
  <2>5. [NoCourier EXCEPT !.exists = TRUE, !.row = slot[s].row] \in CourierType
    BY <2>4 DEF NoCourier, CourierType, ParcelStatuses
  <2>6. courier' \in CourierType /\ reported' \in SUBSET ParcelStatuses
    BY <1>7, <2>5 DEF SaveBooked, TypeOK, ParcelStatuses
  <2> QED BY <1>7, <2>1, <2>2, <2>3, <2>6 DEF SaveBooked, TypeOK
<1> QED BY <1>1, <1>5, <1>6, <1>7 DEF BookingStep


\* Status reports and the portal's cancel button
LEMMA CourierStepTypes == ASSUME TypeOK, NEW s \in Slots, CourierStep(s) PROVE TypeOK'
<1>0. /\ out \in [booked: [Rows -> Nat], purchases: Nat, refunds: Nat]
      /\ spent \in [requests: Nat, holds: Nat, failures: Nat]
      /\ slot \in [Slots -> SlotType] /\ courier \in CourierType /\ status \in [Rows -> RowStatuses]
      /\ reported \in SUBSET ParcelStatuses
  BY DEF TypeOK
<1>1. slot[s].new \in ParcelStatuses
  BY <1>0 DEF SlotType
<1>2. /\ Idle \in SlotType /\ courier.row \in Rows \cup {0}
      /\ {"status", "portal_cancel"} \subseteq Pcs \cap KindNames
  BY <1>0, SlotTypes DEF CourierType, Pcs, KindNames
<1>3. CASE StatusRead(s)
  <2>1. PICK new \in ParcelStatuses :
          slot' = [slot EXCEPT ![s] = [Idle EXCEPT !.pc = "status", !.kind = "status",
                                         !.row = courier.row, !.seen = courier, !.new = new]]
    BY <1>0, <1>3 DEF StatusRead
  <2>2. [Idle EXCEPT !.pc = "status", !.kind = "status", !.row = courier.row, !.seen = courier,
                     !.new = new] \in SlotType
    BY <1>0, <1>2 DEF SlotType
  <2>3. slot' \in [Slots -> SlotType]
    BY <1>0, <2>1, <2>2
  <2>4. spent' \in [requests: Nat, holds: Nat, failures: Nat]
    BY <1>0, <1>3, ArrivesTypes DEF StatusRead
  <2> QED BY <1>3, <2>3, <2>4 DEF StatusRead, TypeOK
<1>4. CASE PortalCancelRead(s)
  <2> DEFINE e == [Idle EXCEPT !.pc = "portal_cancel", !.kind = "portal_cancel",
                               !.row = courier.row, !.seen = courier]
  <2>1. e \in SlotType
    BY <1>0, <1>2 DEF SlotType
  <2>3. slot' = [slot EXCEPT ![s] = e]
    BY <1>4 DEF PortalCancelRead
  <2>4. slot' \in [Slots -> SlotType]
    BY <1>0, <2>1, <2>3
  <2>5. spent' \in [requests: Nat, holds: Nat, failures: Nat]
    BY <1>0, <1>4, ArrivesTypes DEF PortalCancelRead
  <2> QED BY <1>4, <2>4, <2>5 DEF PortalCancelRead, TypeOK
<1>5. CASE PortalCancelRefused(s)
  BY <1>5, RollbackTypes DEF PortalCancelRefused, TypeOK
<1>6. ASSUME \/ StatusMoves(s) \/ StatusDelivered(s) \/ StatusDeliveredRejected(s)
             \/ StatusDeliveredAgain(s) \/ StatusUndone(s) \/ StatusFails(s) \/ PortalCancelSave(s)
      PROVE  TypeOK'
  <2>1. slot' \in [Slots -> SlotType] /\ UNCHANGED <<holder, reported, spent>>
    <3>1. Answer(s) /\ UNCHANGED <<holder, reported, spent>>
      BY <1>6 DEF StatusMoves, StatusDelivered, StatusDeliveredRejected, StatusDeliveredAgain,
                  StatusUndone, StatusFails, PortalCancelSave, Reports
    <3> QED BY <1>0, <3>1, SlotTypes
  <2>2. courier' \in CourierType
    <3>1. "delivered" \in ParcelStatuses /\ "cancelled" \in ParcelStatuses
      BY DEF ParcelStatuses
    <3>2. \/ courier' = courier
          \/ \E new \in ParcelStatuses : CourierMoves(new)
      BY <1>1, <1>6, <3>1 DEF StatusMoves, StatusDelivered, StatusDeliveredRejected,
                  StatusDeliveredAgain, StatusUndone, StatusFails, PortalCancelSave, CourierMoves
    <3> QED BY <1>0, <3>2, CourierTypes
  <2>3. status' \in [Rows -> RowStatuses]
    BY <1>0, <1>6 DEF StatusMoves, StatusDelivered, StatusDeliveredRejected, StatusDeliveredAgain,
                StatusUndone, StatusFails, PortalCancelSave, RowStatuses
  <2>4. out' \in [booked: [Rows -> Nat], purchases: Nat, refunds: Nat]
    BY <1>0, <1>6 DEF StatusMoves, StatusDelivered, StatusDeliveredRejected, StatusDeliveredAgain,
                StatusUndone, StatusFails, PortalCancelSave
  <2> QED BY <2>1, <2>2, <2>3, <2>4 DEF TypeOK
<1> QED BY <1>3, <1>4, <1>5, <1>6 DEF CourierStep

-----------------------------------------------------------------------------
(* Row locks: what a handler saw under the lock is still so when it saves.  *)

\* These steps of a handler are taken under its row's lock.
Locking == {"booking", "saving", "queued"}

\* The handler holds the lock of its row, and whoever confirms has found it pending.
HoldsRow(s) ==
    slot[s].pc \in Locking =>
        /\ slot[s].row \in Rows
        /\ holder[slot[s].row] = s
        /\ slot[s].kind # "portal_send" => status[slot[s].row] = "pending"

\* A hold that was refused met a row, and rows are never deleted.
MetRow(s) == slot[s].pc = "holding" => Known # {}

LockInv == TypeOK /\ \A s \in Slots : HoldsRow(s) /\ MetRow(s)

\* A step of s leaves the other handlers, their locks and their rows alone.
LeavesOthers(s) ==
    /\ \A t \in Slots \ {s} : slot'[t] = slot[t]
    /\ \A r \in Rows : holder[r] \in Slots \ {s} =>
          holder'[r] = holder[r] /\ (status[r] = "pending" => status'[r] = "pending")
    /\ \A r \in Rows : status[r] # "none" => status'[r] # "none"

LEMMA OthersHold ==
    ASSUME LockInv, NEW s \in Slots, LeavesOthers(s), NEW t \in Slots \ {s}
    PROVE  HoldsRow(t)' /\ MetRow(t)'
<1>1. slot'[t] = slot[t] /\ HoldsRow(t) /\ MetRow(t)
  BY DEF LockInv, LeavesOthers
<1>2. HoldsRow(t)'
  BY <1>1 DEF HoldsRow, LeavesOthers
<1>3. Known # {} => Known' # {}
  BY DEF LeavesOthers, Known
<1> QED BY <1>1, <1>2, <1>3 DEF MetRow

\* A step that writes one row, of no lock but its own, and keeps the locks
LEMMA Writes ==
    ASSUME LockInv, NEW s \in Slots, NEW r, NEW v \in RowStatuses \ {"none"},
           \/ status' = status
           \/ status' = [status EXCEPT ![r] = v]
              /\ (r \in Rows => v = "pending" \/ holder[r] \in {NoSlot, s} \/ status[r] # "pending"),
           \/ holder' = holder
           \/ holder' = Unlocked(s)
           \/ \E q \in Rows : holder[q] = NoSlot /\ holder' = [holder EXCEPT ![q] = s],
           \A t \in Slots \ {s} : slot'[t] = slot[t]
    PROVE  LeavesOthers(s)
<1> USE PurchaseAssumption
<1>0. status \in [Rows -> RowStatuses] /\ holder \in [Rows -> Slots \cup {NoSlot}]
  BY DEF LockInv, TypeOK
<1>1. ASSUME NEW q \in Rows, holder[q] \in Slots \ {s} PROVE holder'[q] = holder[q]
  BY <1>0, <1>1 DEF Unlocked
<1>2. ASSUME NEW q \in Rows, holder[q] \in Slots \ {s}, status[q] = "pending"
      PROVE  status'[q] = "pending"
  BY <1>0, <1>2
<1>3. ASSUME NEW q \in Rows, status[q] # "none" PROVE status'[q] # "none"
  BY <1>0, <1>3
<1> QED BY <1>1, <1>2, <1>3 DEF LeavesOthers


LEMMA LockInit == Init => LockInv
<1> SUFFICES ASSUME Init PROVE LockInv
  OBVIOUS
<1>1. \A s \in Slots : slot[s].pc = "idle"
  BY DEF Init, Idle
<1> QED BY <1>1, TypeInit DEF LockInv, HoldsRow, MetRow, Locking

\* A step of slot s, whichever handler runs there
StepOf(s) == HoldStep(s) \/ ConfirmStep(s) \/ BookingStep(s) \/ CourierStep(s) \/ SweepStep(s)

LEMMA StepTypes == ASSUME LockInv, NEW s \in Slots, StepOf(s) PROVE TypeOK'
BY HoldTypes, ConfirmTypes, BookingTypes, CourierStepTypes, SweepTypes DEF LockInv, MetRow, StepOf

LEMMA ReportTypes == TypeOK /\ CourierReports => TypeOK'
BY DEF CourierReports, TypeOK, ParcelStatuses

\* A step that ends at a point without lock
LEMMA NoLockLeft ==
    ASSUME LockInv, NEW s \in Slots, LeavesOthers(s),
           slot'[s].pc \notin Locking, slot'[s].pc = "holding" => Known' # {}
    PROVE  \A t \in Slots : HoldsRow(t)' /\ MetRow(t)'
<1>1. HoldsRow(s)' /\ MetRow(s)'
  BY DEF HoldsRow, MetRow
<1> QED BY <1>1, OthersHold

\* The points a step may end at, by the way it gets there
LEMMA SlotAfter ==
    ASSUME slot \in [Slots -> SlotType], NEW s \in Slots
    PROVE  /\ Answer(s) => slot'[s].pc = "idle"
           /\ \A mode : slot' = [slot EXCEPT ![s].pc = "saving", ![s].mode = mode] =>
                 /\ slot'[s].pc = "saving" /\ slot'[s].mode = mode
                 /\ slot'[s].kind = slot[s].kind /\ slot'[s].row = slot[s].row
           /\ \A pc : slot' = [slot EXCEPT ![s].pc = pc] =>
                 /\ slot'[s].pc = pc
                 /\ slot'[s].kind = slot[s].kind /\ slot'[s].row = slot[s].row
           /\ \/ Answer(s)
              \/ \E mode : slot' = [slot EXCEPT ![s].pc = "saving", ![s].mode = mode]
              \/ \E e : slot' = [slot EXCEPT ![s] = e]
              \/ \E pc : slot' = [slot EXCEPT ![s].pc = pc]
              => \A t \in Slots \ {s} : slot'[t] = slot[t]
<1>1. slot[s] \in SlotType /\ DOMAIN slot = Slots
  OBVIOUS
<1>2. DOMAIN Idle = {"pc", "kind", "row", "mode", "seen", "new"} /\ Idle.pc = "idle"
  BY DEF Idle
<1>3. DOMAIN slot[s] = {"pc", "kind", "row", "mode", "seen", "new"}
  BY <1>1 DEF SlotType
<1>4. Answer(s) => slot'[s].pc = "idle"
  BY <1>1, <1>2 DEF Answer
<1>6. ASSUME NEW mode, slot' = [slot EXCEPT ![s].pc = "saving", ![s].mode = mode]
      PROVE  /\ slot'[s].pc = "saving" /\ slot'[s].mode = mode
             /\ slot'[s].kind = slot[s].kind /\ slot'[s].row = slot[s].row
  BY <1>1, <1>3, <1>6
<1>7. ASSUME NEW pc, slot' = [slot EXCEPT ![s].pc = pc]
      PROVE  slot'[s].pc = pc /\ slot'[s].kind = slot[s].kind /\ slot'[s].row = slot[s].row
  BY <1>1, <1>3, <1>7
<1>8. ASSUME \/ Answer(s)
             \/ \E mode : slot' = [slot EXCEPT ![s].pc = "saving", ![s].mode = mode]
             \/ \E e : slot' = [slot EXCEPT ![s] = e]
             \/ \E pc : slot' = [slot EXCEPT ![s].pc = pc],
             NEW t \in Slots \ {s}
      PROVE  slot'[t] = slot[t]
  BY <1>1, <1>8 DEF Answer
<1> QED BY <1>4, <1>6, <1>7, <1>8

\* The same for one point, or one mode
LEMMA PcSet ==
    ASSUME slot \in [Slots -> SlotType], NEW s \in Slots, NEW pc,
           slot' = [slot EXCEPT ![s].pc = pc]
    PROVE  slot'[s].pc = pc /\ slot'[s].kind = slot[s].kind
<1>1. DOMAIN slot[s] = {"pc", "kind", "row", "mode", "seen", "new"}
  BY DEF SlotType
<1> QED BY <1>1

LEMMA ModeSet ==
    ASSUME slot \in [Slots -> SlotType], NEW s \in Slots, NEW mode,
           slot' = [slot EXCEPT ![s].pc = "saving", ![s].mode = mode]
    PROVE  slot'[s].pc = "saving" /\ slot'[s].mode = mode /\ slot'[s].kind = slot[s].kind
<1>1. DOMAIN slot[s] = {"pc", "kind", "row", "mode", "seen", "new"}
  BY DEF SlotType
<1> QED BY <1>1

LEMMA ContinuesTo ==
    ASSUME slot \in [Slots -> SlotType], NEW s \in Slots, NEW kind, NEW pc, NEW r,
           Continue(s, kind, pc, r)
    PROVE  /\ slot'[s].pc = pc /\ slot'[s].kind = kind /\ slot'[s].row = r
           /\ \A t \in Slots \ {s} : slot'[t] = slot[t]
<1>1. DOMAIN Idle = {"pc", "kind", "row", "mode", "seen", "new"}
  BY DEF Idle
<1> QED BY <1>1 DEF Continue

\* A report or the portal's button reads the courier_orders row.
LEMMA ReadsCourier ==
    ASSUME slot \in [Slots -> SlotType], NEW s \in Slots, StatusRead(s) \/ PortalCancelRead(s)
    PROVE  /\ slot'[s].pc \in {"status", "portal_cancel"}
           /\ \A t \in Slots \ {s} : slot'[t] = slot[t]
<1>1. CASE StatusRead(s)
  <2>1. PICK new : slot' = [slot EXCEPT ![s] = [Idle EXCEPT !.pc = "status", !.kind = "status",
                                                  !.row = courier.row, !.seen = courier, !.new = new]]
    BY <1>1 DEF StatusRead
  <2>2. [Idle EXCEPT !.pc = "status", !.kind = "status", !.row = courier.row,
                     !.seen = courier, !.new = new].pc = "status"
    BY DEF Idle
  <2> QED BY <2>1, <2>2
<1>2. CASE PortalCancelRead(s)
  <2>1. slot' = [slot EXCEPT ![s] = [Idle EXCEPT !.pc = "portal_cancel", !.kind = "portal_cancel",
                                       !.row = courier.row, !.seen = courier]]
    BY <1>2 DEF PortalCancelRead
  <2>2. [Idle EXCEPT !.pc = "portal_cancel", !.kind = "portal_cancel",
                     !.row = courier.row, !.seen = courier].pc = "portal_cancel"
    BY DEF Idle
  <2> QED BY <2>1, <2>2
<1> QED BY <1>1, <1>2

\* The lock is taken on a row that is free, and pending for whoever confirms.
LEMMA Locks ==
    ASSUME LockInv, NEW s \in Slots, NEW kind, NEW r \in Rows, Lock(s, kind, r), holder[r] = NoSlot,
           kind # "portal_send" => status[r] = "pending"
    PROVE  \A t \in Slots : HoldsRow(t)' /\ MetRow(t)'
<1>1. slot \in [Slots -> SlotType] /\ holder \in [Rows -> Slots \cup {NoSlot}]
  BY DEF LockInv, TypeOK
<1>2. /\ Continue(s, kind, "booking", r) /\ holder' = [holder EXCEPT ![r] = s]
      /\ status' = status
  BY DEF Lock
<1>3. slot'[s].pc = "booking" /\ slot'[s].kind = kind /\ slot'[s].row = r
  BY <1>1, <1>2, ContinuesTo
<1>4. \A t \in Slots \ {s} : slot'[t] = slot[t]
  BY <1>1, <1>2, ContinuesTo
<1>5. "pending" \in RowStatuses \ {"none"}
  BY DEF RowStatuses
<1>6. LeavesOthers(s)
  BY <1>2, <1>4, <1>5, Writes
<1>7. HoldsRow(s)' /\ MetRow(s)'
  BY <1>1, <1>2, <1>3 DEF HoldsRow, MetRow
<1> QED BY <1>6, <1>7, OthersHold

\* A handler goes on under its lock.
LEMMA GoesOn ==
    ASSUME LockInv, NEW s \in Slots, slot[s].pc \in {"booking", "saving"},
           \/ \E mode : slot' = [slot EXCEPT ![s].pc = "saving", ![s].mode = mode]
           \/ slot' = [slot EXCEPT ![s].pc = "queued"],
           UNCHANGED <<status, holder>>
    PROVE  \A t \in Slots : HoldsRow(t)' /\ MetRow(t)'
<1>1. slot \in [Slots -> SlotType]
  BY DEF LockInv, TypeOK
<1>2. /\ slot'[s].pc \in {"saving", "queued"}
      /\ slot'[s].kind = slot[s].kind /\ slot'[s].row = slot[s].row
  BY <1>1, SlotAfter
<1>3. \A t \in Slots \ {s} : slot'[t] = slot[t]
  BY <1>1, SlotAfter
<1>4. "pending" \in RowStatuses \ {"none"}
  BY DEF RowStatuses
<1>5. LeavesOthers(s)
  BY <1>3, <1>4, Writes
<1>6. HoldsRow(s)
  BY DEF LockInv
<1>7. HoldsRow(s)' /\ MetRow(s)'
  BY <1>2, <1>6 DEF HoldsRow, MetRow, Locking
<1> QED BY <1>5, <1>7, OthersHold

\* A handler answers, having written at most one row that no other has locked.
LEMMA Ends ==
    ASSUME LockInv, NEW s \in Slots, NEW r, NEW v \in RowStatuses \ {"none"},
           \/ status' = status
           \/ status' = [status EXCEPT ![r] = v]
              /\ (r \in Rows => v = "pending" \/ holder[r] \in {NoSlot, s} \/ status[r] # "pending"),
           holder' = holder \/ holder' = Unlocked(s),
           Answer(s) \/ (slot' = slot /\ slot[s].pc = "idle")
    PROVE  \A t \in Slots : HoldsRow(t)' /\ MetRow(t)'
<1>1. slot \in [Slots -> SlotType]
  BY DEF LockInv, TypeOK
<1>2. slot'[s].pc = "idle" /\ \A t \in Slots \ {s} : slot'[t] = slot[t]
  BY <1>1, SlotAfter
<1>3. LeavesOthers(s)
  BY <1>2, Writes
<1> QED BY <1>2, <1>3, NoLockLeft DEF Locking


\* The invariant of the locks, one lemma for each group of actions
LEMMA HoldLocks ==
    ASSUME LockInv, NEW s \in Slots, HoldStep(s)
    PROVE  \A t \in Slots : HoldsRow(t)' /\ MetRow(t)'
<1>0. /\ slot \in [Slots -> SlotType] /\ "pending" \in RowStatuses \ {"none"}
      /\ HoldsRow(s) /\ MetRow(s)
  BY DEF LockInv, TypeOK, RowStatuses
<1>1. CASE HoldInsert(s)
  BY <1>0, <1>1, Ends DEF HoldInsert, Arrives
<1>2. CASE HoldReadsPending(s)
  BY <1>0, <1>2, Ends DEF HoldReadsPending
<1>3. CASE HoldRevive(s)
  BY <1>0, <1>3, Ends DEF HoldRevive
<1>4. CASE HoldConflict(s)
  <2>1. Continue(s, "hold", "holding", 0) /\ UNCHANGED <<status, holder>> /\ With("pending") # {}
    BY <1>4 DEF HoldConflict
  <2>2. slot'[s].pc = "holding" /\ \A t \in Slots \ {s} : slot'[t] = slot[t]
    BY <1>0, <2>1, ContinuesTo
  <2>3. LeavesOthers(s)
    BY <1>0, <2>1, <2>2, Writes
  <2>4. Known' # {}
    BY <2>1 DEF With, Known
  <2> QED BY <2>2, <2>3, <2>4, NoLockLeft DEF Locking
<1>5. CASE HoldReadsOther(s)
  <2>1. Continue(s, "hold", "reviving", Latest) /\ UNCHANGED <<status, holder>>
    BY <1>5 DEF HoldReadsOther
  <2>2. slot'[s].pc = "reviving" /\ \A t \in Slots \ {s} : slot'[t] = slot[t]
    BY <1>0, <2>1, ContinuesTo
  <2>3. LeavesOthers(s)
    BY <1>0, <2>1, <2>2, Writes
  <2> QED BY <2>2, <2>3, NoLockLeft DEF Locking
<1> QED BY <1>1, <1>2, <1>3, <1>4, <1>5 DEF HoldStep

LEMMA ConfirmLocks ==
    ASSUME LockInv, NEW s \in Slots, ConfirmStep(s)
    PROVE  \A t \in Slots : HoldsRow(t)' /\ MetRow(t)'
<1>0. /\ slot \in [Slots -> SlotType] /\ HoldsRow(s)
      /\ "confirmed" \in RowStatuses \ {"none"}
  BY DEF LockInv, TypeOK, RowStatuses
<1>1. CASE ConfirmLock(s)
  <2>1. Latest \in Rows /\ holder[Latest] = NoSlot
    BY <1>1, OnlyRow DEF ConfirmLock, Free, Known
  <2> QED BY <1>1, <2>1, Locks DEF ConfirmLock
<1>2. ASSUME NEW kind, PendingLock(s, kind) PROVE \A t \in Slots : HoldsRow(t)' /\ MetRow(t)'
  <2>1. PICK r \in With("pending") : Lock(s, kind, r)
    BY <1>2 DEF PendingLock
  <2>2. r \in Rows /\ status[r] = "pending" /\ holder[r] = NoSlot
    BY <1>2, <2>1 DEF PendingLock, With, Free
  <2> QED BY <2>1, <2>2, Locks
<1>3. CASE Queue(s)
  BY <1>3, GoesOn DEF Queue
<1>4. CASE ShopifyRejected(s) \/ QueueRejected(s)
  BY <1>0, <1>4, Ends DEF ShopifyRejected, QueueRejected, Rollback
<1>5. CASE SaveConfirmed(s)
  BY <1>0, <1>5, Ends DEF SaveConfirmed, HoldsRow, Locking
<1>6. CASE ShopifySave(s)
  <2>1. FirstNone \in With("none")
    BY <1>6, FirstNoneIsNone DEF ShopifySave
  <2>2. status' = [status EXCEPT ![FirstNone] = "confirmed"] /\ holder' = holder /\ Answer(s)
    BY <1>6 DEF ShopifySave, FirstNone
  <2>3. status[FirstNone] # "pending"
    BY <2>1 DEF With
  <2> QED BY <1>0, <2>2, <2>3, Ends
<1>7. CASE ShopifyNew(s) \/ ShopifyQueue(s)
  <2>1. \/ Continue(s, "shopify", "shopify", 0)
        \/ slot' = [slot EXCEPT ![s].pc = "shopify_queued"]
    BY <1>7 DEF ShopifyNew, ShopifyQueue
  <2>2. slot'[s].pc \in {"shopify", "shopify_queued"}
    BY <1>0, <2>1, SlotAfter, ContinuesTo
  <2>3. \A t \in Slots \ {s} : slot'[t] = slot[t]
    BY <1>0, <2>1, SlotAfter, ContinuesTo
  <2>4. LeavesOthers(s)
    BY <1>0, <1>7, <2>3, Writes DEF ShopifyNew, ShopifyQueue
  <2> QED BY <2>2, <2>4, NoLockLeft DEF Locking
<1> QED BY <1>1, <1>2, <1>3, <1>4, <1>5, <1>6, <1>7 DEF ConfirmStep

LEMMA BookingLocks ==
    ASSUME LockInv, NEW s \in Slots, BookingStep(s)
    PROVE  \A t \in Slots : HoldsRow(t)' /\ MetRow(t)'
<1>0. HoldsRow(s) /\ "courier_booked" \in RowStatuses \ {"none"}
  BY DEF LockInv, RowStatuses
<1>1. ASSUME NEW r \in Rows, PortalSendLock(s, r)
      PROVE  \A t \in Slots : HoldsRow(t)' /\ MetRow(t)'
  BY <1>1, Locks DEF PortalSendLock, Free
<1>2. CASE BookDirect(s) \/ BookExisting(s) \/ BookSucceeds(s)
  <2>1. /\ slot[s].pc = "booking" /\ UNCHANGED <<status, holder>>
        /\ \E mode : slot' = [slot EXCEPT ![s].pc = "saving", ![s].mode = mode]
    BY <1>2 DEF BookDirect, BookExisting, BookSucceeds, CallsCourier, Booked
  <2> QED BY <2>1, GoesOn
<1>3. CASE BookRefused(s) \/ BookUnanswered(s) \/ SaveCollides(s) \/ CommitFails(s)
  BY <1>0, <1>3, Ends DEF BookRefused, BookUnanswered, SaveCollides, CommitFails, Rollback
<1>4. CASE SaveBooked(s)
  BY <1>0, <1>4, Ends DEF SaveBooked, HoldsRow, Locking
<1> QED BY <1>1, <1>2, <1>3, <1>4 DEF BookingStep

LEMMA CourierLocks ==
    ASSUME LockInv, NEW s \in Slots, CourierStep(s)
    PROVE  \A t \in Slots : HoldsRow(t)' /\ MetRow(t)'
<1>0. /\ slot \in [Slots -> SlotType]
      /\ {"confirmed", "cancelled"} \subseteq RowStatuses \ {"none"}
  BY DEF LockInv, TypeOK, RowStatuses
<1>1. CASE StatusRead(s) \/ PortalCancelRead(s)
  <2>2. slot'[s].pc \in {"status", "portal_cancel"}
    BY <1>0, <1>1, ReadsCourier
  <2>3. \A t \in Slots \ {s} : slot'[t] = slot[t]
    BY <1>0, <1>1, ReadsCourier
  <2>4. LeavesOthers(s)
    BY <1>0, <1>1, <2>3, Writes DEF StatusRead, PortalCancelRead
  <2> QED BY <2>2, <2>4, NoLockLeft DEF Locking
<1>2. CASE PortalCancelRefused(s)
  BY <1>0, <1>2, Ends DEF PortalCancelRefused, Rollback
<1>3. ASSUME \/ StatusMoves(s) \/ StatusDelivered(s) \/ StatusDeliveredRejected(s)
             \/ StatusDeliveredAgain(s) \/ StatusUndone(s) \/ StatusFails(s) \/ PortalCancelSave(s)
      PROVE  \A t \in Slots : HoldsRow(t)' /\ MetRow(t)'
  <2>1. Answer(s) /\ holder' = holder /\ holder[slot[s].row] = NoSlot
    BY <1>3 DEF StatusMoves, StatusDelivered, StatusDeliveredRejected, StatusDeliveredAgain,
                StatusUndone, StatusFails, PortalCancelSave, Reports, Free
  <2>2. \/ status' = status
        \/ status' = [status EXCEPT ![slot[s].row] = "confirmed"]
        \/ status' = [status EXCEPT ![slot[s].row] = "cancelled"]
    BY <1>3 DEF StatusMoves, StatusDelivered, StatusDeliveredRejected, StatusDeliveredAgain,
                StatusUndone, StatusFails, PortalCancelSave
  <2> QED BY <1>0, <2>1, <2>2, Ends
<1> QED BY <1>1, <1>2, <1>3 DEF CourierStep

LEMMA SweepLocks ==
    ASSUME LockInv, NEW s \in Slots, SweepStep(s)
    PROVE  \A t \in Slots : HoldsRow(t)' /\ MetRow(t)'
<1>0. {"confirmed", "cancelled", "expired"} \subseteq RowStatuses \ {"none"}
  BY DEF RowStatuses
<1>1. slot[s].pc = "idle" /\ UNCHANGED <<slot, holder>>
  BY DEF SweepStep, Cancel, AutoConfirm, AutoConfirmFails, Expire, Arrives
<1>2. CASE status' = status
  BY <1>0, <1>1, <1>2, Ends
<1>3. ASSUME NEW r \in With("pending"), NEW v \in {"confirmed", "cancelled", "expired"},
             holder[r] = NoSlot, status' = [status EXCEPT ![r] = v]
      PROVE  \A t \in Slots : HoldsRow(t)' /\ MetRow(t)'
  BY <1>0, <1>1, <1>3, Ends
<1> QED BY <1>2, <1>3 DEF SweepStep, Cancel, AutoConfirm, AutoConfirmFails, Expire, Free

\* Every step keeps the invariant.
LEMMA LockNext == LockInv /\ [Next]_vars => LockInv'
<1> SUFFICES ASSUME LockInv, [Next]_vars PROVE LockInv'
  OBVIOUS
<1>1. ASSUME NEW s \in Slots, StepOf(s) PROVE LockInv'
  <2>1. TypeOK'
    BY <1>1, StepTypes
  <2>2. \A t \in Slots : HoldsRow(t)' /\ MetRow(t)'
    BY <1>1, HoldLocks, ConfirmLocks, BookingLocks, CourierLocks, SweepLocks DEF StepOf
  <2> QED BY <2>1, <2>2 DEF LockInv
<1>2. CASE CourierReports
  BY <1>2, ReportTypes DEF CourierReports, LockInv, HoldsRow, MetRow, Known
<1>3. CASE UNCHANGED vars
  BY <1>3 DEF vars, LockInv, TypeOK, HoldsRow, MetRow, Known
<1> QED BY <1>1, <1>2, <1>3 DEF Next, StepOf

\* The types of PurchaseFlow.
THEOREM PurchaseTypes == Spec => []TypeOK
<1>1. LockInv => TypeOK
  BY DEF LockInv
<1> QED BY <1>1, LockInit, LockNext, PTL DEF Spec

\* For every number of handlers: whatever runs while a confirming handler waits
\* for the courier, the row it locked is still pending when it saves.
THEOREM DecisionsHold == Spec => []DecidedOnPending
<1>1. LockInv => DecidedOnPending
  BY DEF LockInv, HoldsRow, DecidedOnPending, Locking
<1> QED BY <1>1, LockInit, LockNext, PTL DEF Spec


-----------------------------------------------------------------------------
(* One consignment for a row, and one more for every failure.               *)

\* The courier has made a consignment that s has not recorded yet.
Unsaved(s, r) == slot[s].pc = "saving" /\ slot[s].mode = "booked" /\ slot[s].row = r

\* The portal will call the courier for r whatever else was booked.
Calling(s, r) == slot[s].pc = "booking" /\ slot[s].kind = "portal_send" /\ slot[s].row = r

\* As long as the courier may be called for r, its bookings are paid for by failures.
MayBook(r) ==
    \/ ~courier.exists /\ \A s \in Slots : ~Unsaved(s, r)
    \/ \E s \in Slots : Calling(s, r)

BookInv ==
    /\ LockInv
    /\ OneConsignment
    /\ \A r \in Rows : MayBook(r) => out.booked[r] <= spent.failures

\* Two handlers do not hold one row.
LEMMA RowIsHeldOnce ==
    ASSUME LockInv, NEW s \in Slots, NEW t \in Slots,
           slot[s].pc \in Locking, slot[t].pc \in Locking, slot[s].row = slot[t].row
    PROVE  s = t
BY DEF LockInv, HoldsRow

\* A call that is answered, or is not
LEMMA BookInvCalls ==
    ASSUME BookInv, NEW s \in Slots, BookSucceeds(s) \/ BookUnanswered(s)
    PROVE  /\ OneConsignment'
           /\ \A r \in Rows : MayBook(r)' => (out.booked[r] <= spent.failures)'
<1>0. /\ out.booked \in [Rows -> Nat] /\ spent.failures \in Nat /\ slot \in [Slots -> SlotType]
      /\ out \in [booked: [Rows -> Nat], purchases: Nat, refunds: Nat]
      /\ spent \in [requests: Nat, holds: Nat, failures: Nat]
  BY DEF BookInv, LockInv, TypeOK
<1>1. PICK b \in Rows :
        slot[s].row = b /\ slot[s].pc = "booking" /\ holder[b] = s /\ courier' = courier
  <2>1. slot[s].pc = "booking" /\ courier' = courier
    BY DEF BookSucceeds, BookUnanswered, CallsCourier, Booked, Rollback
  <2>2. HoldsRow(s)
    BY DEF BookInv, LockInv
  <2> QED BY <2>1, <2>2 DEF HoldsRow, Locking
<1>2. ASSUME NEW t \in Slots PROVE ~Unsaved(t, b)
  BY <1>1, RowIsHeldOnce DEF Unsaved, Locking, BookInv
<1>3. MayBook(b)
  <2>1. slot[s].kind = "portal_send" \/ ~courier.exists
    BY DEF BookSucceeds, BookUnanswered, CallsCourier
  <2> QED BY <1>1, <1>2, <2>1 DEF MayBook, Calling
<1>4. out.booked[b] <= spent.failures
  BY <1>1, <1>3 DEF BookInv
<1>5. /\ out'.booked[b] = out.booked[b] + 1
      /\ \A r \in Rows \ {b} : out'.booked[r] = out.booked[r]
  BY <1>0, <1>1 DEF BookSucceeds, BookUnanswered
<1>6. \A t \in Slots \ {s} : slot'[t] = slot[t]
  BY <1>0, SlotAfter DEF BookSucceeds, BookUnanswered, Booked, Rollback
<1>7. CASE BookSucceeds(s)
  <2>1. spent' = spent /\ slot'[s].pc = "saving" /\ slot'[s].mode = "booked" /\ slot'[s].row = b
    BY <1>0, <1>1, <1>7, SlotAfter DEF BookSucceeds, Booked
  <2>2. Unsaved(s, b)'
    BY <2>1 DEF Unsaved
  <2>3. ASSUME NEW t \in Slots PROVE ~Calling(t, b)'
    <3>1. CASE t = s
      BY <2>1, <3>1 DEF Calling
    <3>2. CASE t # s
      <4>1. slot'[t] = slot[t] /\ LockInv
        BY <1>6, <3>2 DEF BookInv
      <4>2. ~(slot[t].pc = "booking" /\ slot[t].row = b)
        BY <1>1, <3>2, <4>1, RowIsHeldOnce DEF Locking
      <4> QED BY <4>1, <4>2 DEF Calling
    <3> QED BY <3>1, <3>2
  <2>4. ~MayBook(b)'
    BY <2>2, <2>3 DEF MayBook
  <2>5. ASSUME NEW r \in Rows \ {b}, MayBook(r)' PROVE MayBook(r)
    <3>1. CASE \E t \in Slots : Calling(t, r)'
      BY <1>6, <2>1, <3>1 DEF MayBook, Calling
    <3>2. CASE ~courier'.exists /\ \A t \in Slots : ~Unsaved(t, r)'
      <4>1. \A t \in Slots : ~Unsaved(t, r)
        BY <1>1, <1>6, <3>2 DEF Unsaved
      <4> QED BY <1>1, <3>2, <4>1 DEF MayBook
    <3> QED BY <2>5, <3>1, <3>2 DEF MayBook
  <2>6. \A r \in Rows : MayBook(r)' => out'.booked[r] <= spent'.failures
    BY <1>5, <2>1, <2>4, <2>5 DEF BookInv
  <2>7. OneConsignment'
    BY <1>0, <1>1, <1>4, <1>5, <2>1 DEF BookInv, OneConsignment
  <2> QED BY <2>6, <2>7
<1>8. CASE BookUnanswered(s)
  <2>1. spent'.failures = spent.failures + 1 /\ slot'[s].pc = "idle"
    BY <1>0, <1>8, SlotAfter DEF BookUnanswered, Rollback
  <2>2. ASSUME NEW r \in Rows PROVE out'.booked[r] <= spent'.failures
    <3>1. CASE r = b
      BY <1>0, <1>1, <1>4, <1>5, <2>1, <3>1
    <3>2. CASE r # b
      BY <1>0, <1>5, <2>1, <3>2 DEF BookInv, OneConsignment
    <3> QED BY <3>1, <3>2
  <2>3. \A r \in Rows : out'.booked[r] \in Nat
    BY <1>0, <1>1, <1>5
  <2>4. OneConsignment'
    BY <1>0, <2>1, <2>2, <2>3 DEF OneConsignment
  <2> QED BY <2>2, <2>4
<1> QED BY <1>7, <1>8


\* A step without a call: the courier may be called only where it might be
\* before, or a failure pays for it.
LEMMA BookInvKept ==
    ASSUME BookInv, out'.booked = out.booked, spent'.failures \in Nat,
           spent'.failures >= spent.failures,
           \A r \in Rows : MayBook(r)' => MayBook(r) \/ spent'.failures >= spent.failures + 1
    PROVE  /\ OneConsignment'
           /\ \A r \in Rows : MayBook(r)' => (out.booked[r] <= spent.failures)'
<1>1. out.booked \in [Rows -> Nat] /\ spent.failures \in Nat
  BY DEF BookInv, LockInv, TypeOK
<1>2. \A r \in Rows : out'.booked[r] = out.booked[r] /\ out.booked[r] <= 1 + spent.failures
  BY DEF BookInv, OneConsignment
<1>3. OneConsignment'
  BY <1>1, <1>2 DEF OneConsignment
<1>4. ASSUME NEW r \in Rows, MayBook(r)' PROVE out'.booked[r] <= spent'.failures
  <2>1. CASE MayBook(r)
    <3>1. out.booked[r] <= spent.failures
      BY <2>1 DEF BookInv
    <3> QED BY <1>1, <1>2, <3>1
  <2>2. CASE spent'.failures >= spent.failures + 1
    BY <1>1, <1>2, <2>2
  <2> QED BY <1>4, <2>1, <2>2
<1> QED BY <1>3, <1>4

LEMMA BookInvStep ==
    ASSUME BookInv, NEW s \in Slots, out'.booked = out.booked, spent'.failures \in Nat,
           spent'.failures >= spent.failures, courier.exists => courier'.exists,
           \A t \in Slots \ {s} : slot'[t] = slot[t],
           \A r \in Rows : Calling(s, r)' => MayBook(r),
           \A r \in Rows : Unsaved(s, r) =>
                courier'.exists \/ Unsaved(s, r)' \/ spent'.failures >= spent.failures + 1
    PROVE  /\ OneConsignment'
           /\ \A r \in Rows : MayBook(r)' => (out.booked[r] <= spent.failures)'
<1>1. ASSUME NEW r \in Rows, MayBook(r)'
      PROVE  MayBook(r) \/ spent'.failures >= spent.failures + 1
  <2>1. CASE \E t \in Slots : Calling(t, r)'
    BY <2>1 DEF MayBook, Calling
  <2>2. CASE ~courier'.exists /\ \A t \in Slots : ~Unsaved(t, r)'
    <3>1. \A t \in Slots \ {s} : ~Unsaved(t, r)
      BY <2>2 DEF Unsaved
    <3>2. CASE Unsaved(s, r)
      BY <2>2, <3>2
    <3>3. CASE ~Unsaved(s, r)
      BY <2>2, <3>1, <3>3 DEF MayBook
    <3> QED BY <3>2, <3>3
  <2> QED BY <1>1, <2>1, <2>2 DEF MayBook
<1> QED BY <1>1, BookInvKept

\* A step that neither takes a lock nor ends at the courier's answer
LEMMA BookInvAway ==
    ASSUME BookInv, NEW s \in Slots, out'.booked = out.booked, spent'.failures \in Nat,
           spent'.failures >= spent.failures, courier.exists => courier'.exists,
           \A t \in Slots \ {s} : slot'[t] = slot[t],
           slot'[s].pc # "booking", slot[s].pc = "saving" => slot[s].mode # "booked"
    PROVE  /\ OneConsignment'
           /\ \A r \in Rows : MayBook(r)' => (out.booked[r] <= spent.failures)'
<1>1. \A r \in Rows : ~Calling(s, r)' /\ ~Unsaved(s, r)
  BY DEF Calling, Unsaved
<1> QED BY <1>1, BookInvStep

\* The invariant of the bookings, one lemma for each group of actions
LEMMA HoldBooks ==
    ASSUME BookInv, NEW s \in Slots, HoldStep(s) \/ SweepStep(s)
    PROVE  /\ OneConsignment'
           /\ \A r \in Rows : MayBook(r)' => (out.booked[r] <= spent.failures)'
<1>0. /\ slot \in [Slots -> SlotType] /\ spent \in [requests: Nat, holds: Nat, failures: Nat]
      /\ out \in [booked: [Rows -> Nat], purchases: Nat, refunds: Nat]
  BY DEF BookInv, LockInv, TypeOK
<1>1. spent'.failures = spent.failures /\ courier' = courier
  BY <1>0, ArrivesTypes
  DEF HoldStep, HoldInsert, HoldConflict, HoldReadsPending, HoldReadsOther, HoldRevive,
      SweepStep, Cancel, AutoConfirm, AutoConfirmFails, Expire
<1>2. out'.booked = out.booked
  BY <1>0
  DEF HoldStep, HoldInsert, HoldConflict, HoldReadsPending, HoldReadsOther, HoldRevive,
      SweepStep, Cancel, AutoConfirm, AutoConfirmFails, Expire
<1>3. slot[s].pc \in {"idle", "holding", "reviving"}
  BY DEF HoldStep, HoldInsert, HoldConflict, HoldReadsPending, HoldReadsOther, HoldRevive,
         SweepStep, Cancel, AutoConfirm, AutoConfirmFails, Expire, Arrives
<1>4. \/ slot' = slot \/ Answer(s) \/ Continue(s, "hold", "holding", 0)
      \/ Continue(s, "hold", "reviving", Latest)
  BY DEF HoldStep, HoldInsert, HoldConflict, HoldReadsPending, HoldReadsOther, HoldRevive,
         SweepStep, Cancel, AutoConfirm, AutoConfirmFails, Expire
<1>5. slot'[s].pc # "booking" /\ \A t \in Slots \ {s} : slot'[t] = slot[t]
  <2>1. CASE slot' = slot
    BY <1>3, <2>1
  <2>2. CASE Answer(s)
    BY <1>0, <2>2, SlotAfter
  <2>3. CASE Continue(s, "hold", "holding", 0)
    BY <1>0, <2>3, ContinuesTo
  <2>4. CASE Continue(s, "hold", "reviving", Latest)
    BY <1>0, <2>4, ContinuesTo
  <2> QED BY <1>4, <2>1, <2>2, <2>3, <2>4
<1> QED BY <1>0, <1>1, <1>2, <1>3, <1>5, BookInvAway

LEMMA ConfirmBooks ==
    ASSUME BookInv, NEW s \in Slots, ConfirmStep(s)
    PROVE  /\ OneConsignment'
           /\ \A r \in Rows : MayBook(r)' => (out.booked[r] <= spent.failures)'
<1>0. /\ slot \in [Slots -> SlotType] /\ spent \in [requests: Nat, holds: Nat, failures: Nat]
      /\ out \in [booked: [Rows -> Nat], purchases: Nat, refunds: Nat]
  BY DEF BookInv, LockInv, TypeOK
<1>1. ASSUME NEW kind, kind # "portal_send", NEW r, Arrives(s, kind), Lock(s, kind, r)
      PROVE  /\ OneConsignment'
             /\ \A q \in Rows : MayBook(q)' => (out.booked[q] <= spent.failures)'
  <2>1. spent'.failures = spent.failures /\ courier' = courier /\ out' = out
    BY <1>0, <1>1, ArrivesTypes DEF Lock
  <2>2. slot'[s].kind = kind /\ \A t \in Slots \ {s} : slot'[t] = slot[t]
    BY <1>0, <1>1, ContinuesTo DEF Lock
  <2>3. slot[s].pc = "idle"
    BY <1>1 DEF Arrives
  <2>4. \A q \in Rows : ~Calling(s, q)' /\ ~Unsaved(s, q)
    BY <1>1, <2>2, <2>3 DEF Calling, Unsaved
  <2> QED BY <1>0, <2>1, <2>2, <2>4, BookInvStep
<1>2. CASE ConfirmLock(s) \/ \E kind \in {"bulk", "woo", "shopify"} : PendingLock(s, kind)
  BY <1>1, <1>2 DEF ConfirmLock, PendingLock
<1>3. CASE \/ ShopifyNew(s) \/ ShopifyQueue(s) \/ ShopifyRejected(s) \/ ShopifySave(s)
           \/ Queue(s) \/ QueueRejected(s) \/ SaveConfirmed(s)
  <2>1. spent'.failures = spent.failures /\ courier' = courier
    BY <1>0, <1>3, ArrivesTypes
    DEF ShopifyNew, ShopifyQueue, ShopifyRejected, ShopifySave, Queue, QueueRejected,
        SaveConfirmed, Rollback
  <2>2. out'.booked = out.booked
    BY <1>0, <1>3
    DEF ShopifyNew, ShopifyQueue, ShopifyRejected, ShopifySave, Queue, QueueRejected,
        SaveConfirmed
  <2>3. slot[s].pc = "saving" => slot[s].mode = "direct"
    BY <1>3 DEF ShopifyNew, ShopifyQueue, ShopifyRejected, ShopifySave, Queue, QueueRejected,
                SaveConfirmed, Arrives
  <2>4. \/ Answer(s) \/ Continue(s, "shopify", "shopify", 0)
        \/ slot' = [slot EXCEPT ![s].pc = "queued"] \/ slot' = [slot EXCEPT ![s].pc = "shopify_queued"]
    BY <1>3 DEF ShopifyNew, ShopifyQueue, ShopifyRejected, ShopifySave, Queue, QueueRejected,
                SaveConfirmed, Rollback
  <2>5. slot'[s].pc # "booking" /\ \A t \in Slots \ {s} : slot'[t] = slot[t]
    <3>1. CASE Answer(s)
      BY <1>0, <3>1, SlotAfter
    <3>2. CASE Continue(s, "shopify", "shopify", 0)
      BY <1>0, <3>2, ContinuesTo
    <3>3. CASE \E pc \in {"queued", "shopify_queued"} : slot' = [slot EXCEPT ![s].pc = pc]
      BY <1>0, <3>3, SlotAfter
    <3> QED BY <2>4, <3>1, <3>2, <3>3
  <2> QED BY <1>0, <2>1, <2>2, <2>3, <2>5, BookInvAway
<1> QED BY <1>2, <1>3 DEF ConfirmStep


LEMMA CourierBooks ==
    ASSUME BookInv, NEW s \in Slots, CourierStep(s)
    PROVE  /\ OneConsignment'
           /\ \A r \in Rows : MayBook(r)' => (out.booked[r] <= spent.failures)'
<1>0. /\ slot \in [Slots -> SlotType] /\ spent \in [requests: Nat, holds: Nat, failures: Nat]
      /\ out \in [booked: [Rows -> Nat], purchases: Nat, refunds: Nat] /\ courier \in CourierType
  BY DEF BookInv, LockInv, TypeOK
<1>1. CASE StatusRead(s) \/ PortalCancelRead(s)
  <2>1. slot[s].pc = "idle" /\ courier' = courier /\ out' = out
    BY <1>1 DEF StatusRead, PortalCancelRead, Arrives
  <2>2. spent'.failures = spent.failures
    BY <1>0, <1>1, ArrivesTypes DEF StatusRead, PortalCancelRead
  <2>3. slot'[s].pc # "booking"
    BY <1>0, <1>1, ReadsCourier
  <2>4. \A t \in Slots \ {s} : slot'[t] = slot[t]
    BY <1>0, <1>1, ReadsCourier
  <2> QED BY <1>0, <2>1, <2>2, <2>3, <2>4, BookInvAway
<1>2. ASSUME \/ StatusMoves(s) \/ StatusDelivered(s) \/ StatusDeliveredRejected(s)
             \/ StatusDeliveredAgain(s) \/ StatusUndone(s) \/ StatusFails(s)
             \/ PortalCancelSave(s) \/ PortalCancelRefused(s)
      PROVE  /\ OneConsignment'
             /\ \A r \in Rows : MayBook(r)' => (out.booked[r] <= spent.failures)'
  <2>1. slot[s].pc # "saving" /\ Answer(s) /\ spent' = spent
    BY <1>2 DEF StatusMoves, StatusDelivered, StatusDeliveredRejected, StatusDeliveredAgain,
                StatusUndone, StatusFails, PortalCancelSave, PortalCancelRefused, Rollback, Reports
  <2>2. out'.booked = out.booked
    BY <1>0, <1>2 DEF StatusMoves, StatusDelivered, StatusDeliveredRejected, StatusDeliveredAgain,
                StatusUndone, StatusFails, PortalCancelSave, PortalCancelRefused
  <2>3. courier'.exists = courier.exists
    BY <1>0, <1>2 DEF StatusMoves, StatusDelivered, StatusDeliveredRejected, StatusDeliveredAgain,
                StatusUndone, StatusFails, PortalCancelSave, PortalCancelRefused, Rollback, CourierType
  <2>4. slot'[s].pc # "booking" /\ \A t \in Slots \ {s} : slot'[t] = slot[t]
    BY <1>0, <2>1, SlotAfter
  <2> QED BY <1>0, <2>1, <2>2, <2>3, <2>4, BookInvAway
<1> QED BY <1>1, <1>2 DEF CourierStep

LEMMA BookingBooks ==
    ASSUME BookInv, NEW s \in Slots, BookingStep(s)
    PROVE  /\ OneConsignment'
           /\ \A r \in Rows : MayBook(r)' => (out.booked[r] <= spent.failures)'
<1>0. /\ slot \in [Slots -> SlotType] /\ spent \in [requests: Nat, holds: Nat, failures: Nat]
      /\ out \in [booked: [Rows -> Nat], purchases: Nat, refunds: Nat]
      /\ holder \in [Rows -> Slots \cup {NoSlot}] /\ LockInv
  BY DEF BookInv, LockInv, TypeOK
<1>1. ASSUME NEW r \in Rows, PortalSendLock(s, r)
      PROVE  /\ OneConsignment'
             /\ \A q \in Rows : MayBook(q)' => (out.booked[q] <= spent.failures)'
  <2>1. spent'.failures = spent.failures /\ courier' = courier /\ out' = out
    BY <1>0, <1>1, ArrivesTypes DEF PortalSendLock, Lock
  <2>2. slot'[s].row = r /\ \A t \in Slots \ {s} : slot'[t] = slot[t]
    BY <1>0, <1>1, ContinuesTo DEF PortalSendLock, Lock
  <2>3. slot[s].pc = "idle" /\ ~courier.exists /\ holder[r] = NoSlot
    BY <1>1 DEF PortalSendLock, Arrives, Free
  <2>4. \A t \in Slots : ~Unsaved(t, r)
    BY <1>0, <2>3, PurchaseAssumption DEF Unsaved, LockInv, HoldsRow, Locking
  <2>5. MayBook(r)
    BY <2>3, <2>4 DEF MayBook
  <2>6. \A q \in Rows : (Calling(s, q)' => MayBook(q)) /\ ~Unsaved(s, q)
    BY <2>2, <2>3, <2>5 DEF Calling, Unsaved
  <2> QED BY <1>0, <2>1, <2>2, <2>6, BookInvStep
<1>2. CASE BookDirect(s) \/ BookExisting(s)
  <2>1. /\ slot[s].pc = "booking" /\ courier' = courier /\ out' = out /\ spent' = spent
        /\ \E mode : slot' = [slot EXCEPT ![s].pc = "saving", ![s].mode = mode]
    BY <1>2 DEF BookDirect, BookExisting, Booked
  <2>2. slot'[s].pc # "booking"
    BY <1>0, <2>1, SlotAfter
  <2>3. \A t \in Slots \ {s} : slot'[t] = slot[t]
    BY <1>0, <2>1, SlotAfter
  <2> QED BY <1>0, <2>1, <2>2, <2>3, BookInvAway
<1>3. CASE BookSucceeds(s) \/ BookUnanswered(s)
  BY <1>3, BookInvCalls
<1>4. CASE BookRefused(s) \/ SaveCollides(s) \/ CommitFails(s) \/ SaveBooked(s)
  <2>1. Answer(s) /\ out' = out
    BY <1>4 DEF BookRefused, SaveCollides, CommitFails, SaveBooked, Rollback
  <2>2. slot'[s].pc = "idle" /\ \A t \in Slots \ {s} : slot'[t] = slot[t]
    BY <1>0, <2>1, SlotAfter
  <2>3. spent'.failures \in Nat /\ spent'.failures >= spent.failures
    <3>1. spent' = spent \/ spent' = [spent EXCEPT !.failures = @ + 1]
      BY <1>4 DEF BookRefused, SaveCollides, CommitFails, SaveBooked
    <3> QED BY <1>0, <3>1
  <2>4. courier.exists => courier'.exists
    BY <1>4 DEF BookRefused, SaveCollides, CommitFails, SaveBooked, Rollback
  <2>5. slot[s].pc = "saving" /\ slot[s].mode = "booked" =>
          courier'.exists \/ spent'.failures >= spent.failures + 1
    <3>1. CASE BookRefused(s)
      BY <3>1 DEF BookRefused
    <3>2. CASE SaveCollides(s)
      BY <3>2 DEF SaveCollides, Rollback
    <3>3. CASE CommitFails(s)
      BY <1>0, <3>3 DEF CommitFails
    <3>4. CASE SaveBooked(s)
      BY <3>4 DEF SaveBooked, NoCourier
    <3> QED BY <1>4, <3>1, <3>2, <3>3, <3>4
  <2>6. \A r \in Rows : ~Calling(s, r)'
    BY <2>2 DEF Calling
  <2> QED BY <2>1, <2>2, <2>3, <2>4, <2>5, <2>6, BookInvStep DEF Unsaved
<1> QED BY <1>1, <1>2, <1>3, <1>4 DEF BookingStep

LEMMA BookInvNext == BookInv /\ [Next]_vars => BookInv'
<1> SUFFICES ASSUME BookInv, [Next]_vars PROVE BookInv'
  OBVIOUS
<1>1. LockInv'
  BY LockNext DEF BookInv
<1>2. ASSUME NEW s \in Slots, StepOf(s)
      PROVE  /\ OneConsignment'
             /\ \A r \in Rows : MayBook(r)' => (out.booked[r] <= spent.failures)'
  BY <1>2, HoldBooks, ConfirmBooks, BookingBooks, CourierBooks DEF StepOf
<1>3. CASE CourierReports \/ UNCHANGED vars
  <2>1. UNCHANGED <<slot, courier, out, spent>>
    BY <1>3 DEF CourierReports, vars
  <2> QED BY <1>1, <2>1 DEF BookInv, OneConsignment, MayBook, Unsaved, Calling
<1> QED BY <1>1, <1>2, <1>3 DEF Next, StepOf, BookInv

LEMMA BookInvInit == Init => BookInv
<1> SUFFICES ASSUME Init PROVE BookInv
  OBVIOUS
<1>1. \A r \in Rows : out.booked[r] = 0
  BY DEF Init
<1>2. spent.failures = 0
  BY DEF Init
<1> QED BY <1>1, <1>2, LockInit DEF BookInv, OneConsignment

\* For every number of handlers and rows: a second consignment for a row is only
\* made after a lost answer or a failed commit, never by a race of handlers.
THEOREM ConsignmentsArePaid == Spec => []OneConsignment
<1>1. BookInv => OneConsignment
  BY DEF BookInv
<1> QED BY <1>1, BookInvInit, BookInvNext, PTL DEF Spec

-----------------------------------------------------------------------------
(* A row that waits for the courier has a courier_orders row.               *)

\* The test for a booking that is there is not overtaken: none is deleted.
Consigned ==
    /\ BookedHasConsignment
    /\ \A s \in Slots : slot[s].pc = "saving" /\ slot[s].mode = "already_booked" => courier.exists

\* courier_orders rows are made and changed, never deleted.
LEMMA CourierStays ==
    ASSUME TypeOK, NEW s \in Slots, StepOf(s)
    PROVE  courier.exists => courier'.exists
<1> USE DEF TypeOK, CourierType
<1>1. CASE UNCHANGED courier
  BY <1>1
<1>2. CASE \E new : CourierMoves(new)
  BY <1>2 DEF CourierMoves
<1>3. CASE PortalCancelSave(s)
  BY <1>3 DEF PortalCancelSave
<1>4. CASE CourierStep(s)
  BY <1>1, <1>2, <1>3, <1>4
  DEF CourierStep, StatusRead, StatusMoves, StatusDelivered, StatusDeliveredRejected,
      StatusDeliveredAgain, StatusUndone, StatusFails, PortalCancelRead, PortalCancelRefused,
      Rollback, CourierMoves
<1>5. CASE HoldStep(s) \/ ConfirmStep(s) \/ SweepStep(s)
  BY <1>1, <1>5
  DEF HoldStep, HoldInsert, HoldConflict, HoldReadsPending, HoldReadsOther, HoldRevive,
      ConfirmStep, ConfirmLock, PendingLock, ShopifyNew, ShopifyQueue, ShopifyRejected,
      ShopifySave, Queue, QueueRejected, SaveConfirmed, Lock, Rollback,
      SweepStep, Cancel, AutoConfirm, AutoConfirmFails, Expire
<1>6. CASE SaveBooked(s)
  BY <1>6 DEF SaveBooked
<1>7. CASE BookingStep(s) /\ ~SaveBooked(s)
  BY <1>1, <1>7
  DEF BookingStep, PortalSendLock, Lock, BookDirect, BookExisting, BookSucceeds, BookRefused,
      BookUnanswered, SaveCollides, CommitFails, Booked, Rollback
<1> QED BY <1>4, <1>5, <1>6, <1>7 DEF StepOf

\* Only a saved booking makes a row wait for the courier.
LEMMA BookedBySave ==
    ASSUME TypeOK, NEW s \in Slots, StepOf(s), NEW r \in Rows, status'[r] = "courier_booked"
    PROVE  status[r] = "courier_booked" \/ SaveBooked(s)
<1> USE DEF TypeOK
<1>1. CASE status' = status
  BY <1>1
<1>2. CASE \E q, v : v # "courier_booked" /\ status' = [status EXCEPT ![q] = v]
  BY <1>2
<1>3. CASE HoldStep(s) \/ SweepStep(s)
  BY <1>1, <1>2, <1>3
  DEF HoldStep, HoldInsert, HoldConflict, HoldReadsPending, HoldReadsOther, HoldRevive,
      SweepStep, Cancel, AutoConfirm, AutoConfirmFails, Expire
<1>4. CASE ConfirmStep(s)
  BY <1>1, <1>2, <1>4
  DEF ConfirmStep, ConfirmLock, PendingLock, ShopifyNew, ShopifyQueue, ShopifyRejected,
      ShopifySave, Queue, QueueRejected, SaveConfirmed, Lock, Rollback
<1>5. CASE CourierStep(s)
  BY <1>1, <1>2, <1>5
  DEF CourierStep, StatusRead, StatusMoves, StatusDelivered, StatusDeliveredRejected,
      StatusDeliveredAgain, StatusUndone, StatusFails, PortalCancelRead, PortalCancelRefused,
      PortalCancelSave, Rollback
<1>6. CASE BookingStep(s) /\ ~SaveBooked(s)
  BY <1>1, <1>6
  DEF BookingStep, PortalSendLock, Lock, BookDirect, BookExisting, BookSucceeds, BookRefused,
      BookUnanswered, SaveCollides, CommitFails, Booked, Rollback
<1> QED BY <1>3, <1>4, <1>5, <1>6 DEF StepOf

\* Only a handler that has found the booking goes on with it.
LEMMA AlreadyByTest ==
    ASSUME TypeOK, NEW s \in Slots, StepOf(s), NEW t \in Slots,
           slot'[t].pc = "saving", slot'[t].mode = "already_booked"
    PROVE  courier.exists \/ (slot[t].pc = "saving" /\ slot[t].mode = "already_booked")
<1>0. slot \in [Slots -> SlotType]
  BY DEF TypeOK
<1>1. CASE slot'[t] = slot[t]
  BY <1>1
<1>2. ASSUME t = s, slot'[s].pc # "saving" PROVE FALSE
  BY <1>2
<1>3. CASE HoldStep(s)
  <2>1. \/ slot' = slot \/ Answer(s)
        \/ Continue(s, "hold", "holding", 0) \/ Continue(s, "hold", "reviving", Latest)
    BY <1>3 DEF HoldStep, HoldInsert, HoldConflict, HoldReadsPending, HoldReadsOther, HoldRevive
  <2>2. slot' = slot \/ slot'[s].pc \in {"idle", "holding", "reviving"}
    <3>1. Answer(s) => slot'[s].pc = "idle"
      BY <1>0, SlotAfter
    <3>2. /\ Continue(s, "hold", "holding", 0) => slot'[s].pc = "holding"
          /\ Continue(s, "hold", "reviving", Latest) => slot'[s].pc = "reviving"
      BY <1>0, ContinuesTo
    <3> QED BY <2>1, <3>1, <3>2
  <2>3. slot' = slot \/ \A q \in Slots \ {s} : slot'[q] = slot[q]
    <3>1. Answer(s) => \A q \in Slots \ {s} : slot'[q] = slot[q]
      BY <1>0, SlotAfter
    <3>2. Continue(s, "hold", "holding", 0) \/ Continue(s, "hold", "reviving", Latest)
              => \A q \in Slots \ {s} : slot'[q] = slot[q]
      BY <1>0, ContinuesTo
    <3> QED BY <2>1, <3>1, <3>2
  <2> QED BY <1>1, <1>2, <2>2, <2>3
<1>4. CASE ConfirmStep(s)
  <2>1. ASSUME NEW kind, NEW pc, NEW r, pc # "saving", Continue(s, kind, pc, r) PROVE courier.exists
            \/ (slot[t].pc = "saving" /\ slot[t].mode = "already_booked")
    <3>1. slot'[s].pc = pc /\ \A q \in Slots \ {s} : slot'[q] = slot[q]
      BY <1>0, <2>1, ContinuesTo
    <3> QED BY <1>1, <1>2, <2>1, <3>1
  <2>2. CASE ConfirmLock(s) \/ ShopifyNew(s) \/ \E kind \in {"bulk", "woo", "shopify"} : PendingLock(s, kind)
    BY <2>1, <2>2 DEF ConfirmLock, ShopifyNew, PendingLock, Lock
  <2>3. ASSUME Answer(s) \/ slot' = [slot EXCEPT ![s].pc = "queued"]
                         \/ slot' = [slot EXCEPT ![s].pc = "shopify_queued"]
        PROVE  courier.exists \/ (slot[t].pc = "saving" /\ slot[t].mode = "already_booked")
    <3>1. slot'[s].pc \in {"idle", "queued", "shopify_queued"}
      BY <1>0, <2>3, SlotAfter
    <3>2. \A q \in Slots \ {s} : slot'[q] = slot[q]
      BY <1>0, <2>3, SlotAfter
    <3> QED BY <1>1, <1>2, <3>1, <3>2
  <2>4. CASE \/ ShopifyQueue(s) \/ ShopifyRejected(s) \/ ShopifySave(s)
             \/ Queue(s) \/ QueueRejected(s) \/ SaveConfirmed(s)
    BY <2>3, <2>4 DEF ShopifyQueue, ShopifyRejected, ShopifySave, Queue, QueueRejected,
                      SaveConfirmed, Rollback
  <2> QED BY <1>4, <2>2, <2>4 DEF ConfirmStep
<1>5. CASE CourierStep(s)
  <2>1. Answer(s) \/ StatusRead(s) \/ PortalCancelRead(s)
    BY <1>5
    DEF CourierStep, StatusMoves, StatusDelivered, StatusDeliveredRejected,
        StatusDeliveredAgain, StatusUndone, StatusFails, PortalCancelRefused,
        PortalCancelSave, Rollback, Reports
  <2>2. CASE Answer(s)
    BY <1>0, <1>1, <1>2, <2>2, SlotAfter
  <2>3. CASE StatusRead(s) \/ PortalCancelRead(s)
    <3>1. slot'[s].pc \in {"status", "portal_cancel"} /\ \A q \in Slots \ {s} : slot'[q] = slot[q]
      BY <1>0, <2>3, ReadsCourier
    <3> QED BY <1>1, <1>2, <3>1
  <2> QED BY <2>1, <2>2, <2>3
<1>6. CASE SweepStep(s)
  <2>1. slot' = slot
    BY <1>6 DEF SweepStep, Cancel, AutoConfirm, AutoConfirmFails, Expire
  <2> QED BY <1>1, <2>1
<1>7. CASE BookExisting(s)
  BY <1>7 DEF BookExisting
<1>8. CASE BookingStep(s) /\ ~BookExisting(s)
  <2>1. \/ Answer(s)
        \/ \E kind, r : Continue(s, kind, "booking", r)
        \/ \E mode \in {"direct", "booked"} :
              slot' = [slot EXCEPT ![s].pc = "saving", ![s].mode = mode]
    BY <1>8
    DEF BookingStep, PortalSendLock, Lock, BookDirect, BookSucceeds, BookRefused,
        BookUnanswered, SaveBooked, SaveCollides, CommitFails, Booked, Rollback
  <2> QED BY <1>0, <1>1, <1>2, <2>1, SlotAfter, ContinuesTo
<1> QED BY <1>3, <1>4, <1>5, <1>6, <1>7, <1>8 DEF StepOf

LEMMA ConsignedInit == Init => Consigned
<1> SUFFICES ASSUME Init PROVE Consigned
  OBVIOUS
<1>1. With("courier_booked") = {}
  BY DEF Init, With
<1>2. \A s \in Slots : slot[s].pc = "idle"
  BY DEF Init, Idle
<1> QED BY <1>1, <1>2 DEF Consigned, BookedHasConsignment

LEMMA ConsignedNext == TypeOK /\ TypeOK' /\ Consigned /\ [Next]_vars => Consigned'
<1> SUFFICES ASSUME TypeOK, TypeOK', Consigned, [Next]_vars PROVE Consigned'
  OBVIOUS
<1>1. ASSUME NEW s \in Slots, StepOf(s) PROVE Consigned'
  <2>1. courier.exists => courier'.exists
    BY <1>1, CourierStays
  <2>2. ASSUME NEW r \in Rows, status'[r] = "courier_booked" PROVE courier'.exists
    <3>1. CASE status[r] = "courier_booked"
      BY <2>1, <3>1 DEF Consigned, BookedHasConsignment, With
    <3>2. CASE SaveBooked(s)
      <4>1. CASE slot[s].mode = "already_booked" /\ UNCHANGED courier
        BY <3>2, <4>1 DEF SaveBooked, Consigned
      <4>2. CASE courier' = [NoCourier EXCEPT !.exists = TRUE, !.row = slot[s].row]
        BY <4>2 DEF NoCourier
      <4> QED BY <3>2, <4>1, <4>2 DEF SaveBooked
    <3> QED BY <1>1, <2>2, <3>1, <3>2, BookedBySave
  <2>3. BookedHasConsignment'
    BY <2>2 DEF BookedHasConsignment, With
  <2>4. ASSUME NEW t \in Slots, slot'[t].pc = "saving", slot'[t].mode = "already_booked"
        PROVE  courier'.exists
    BY <1>1, <2>1, <2>4, AlreadyByTest DEF Consigned
  <2> QED BY <2>3, <2>4 DEF Consigned
<1>2. CASE CourierReports \/ UNCHANGED vars
  BY <1>2 DEF CourierReports, vars, Consigned, BookedHasConsignment, With
<1> QED BY <1>1, <1>2 DEF Next, StepOf

\* For every number of handlers, rows and failures: a row that waits for the
\* courier has a courier_orders row, by which its status can be reported.
THEOREM BookedIsReportable == Spec => []BookedHasConsignment
<1>1. Consigned => BookedHasConsignment
  BY DEF Consigned
<1>2. LockInv /\ Consigned /\ [Next]_vars => LockInv' /\ Consigned'
  BY LockNext, ConsignedNext DEF LockInv
<1> QED BY <1>1, <1>2, LockInit, ConsignedInit, PTL DEF Spec

-----------------------------------------------------------------------------
(* What a step may do: where its handler goes on, who writes the            *)
(* courier_orders row, who queues an event.                                 *)

LEMMA StatusReads ==
    ASSUME slot \in [Slots -> SlotType], NEW s \in Slots, StatusRead(s)
    PROVE  /\ slot'[s].pc = "status" /\ slot'[s].seen = courier /\ slot'[s].row = courier.row
           /\ courier.exists /\ "status" \in Kinds[s]
           /\ courier' = courier /\ out' = out /\ status' = status
<1>1. PICK new : slot' = [slot EXCEPT ![s] = [Idle EXCEPT !.pc = "status", !.kind = "status",
                                                !.row = courier.row, !.seen = courier, !.new = new]]
  BY DEF StatusRead
<1>2. DOMAIN Idle = {"pc", "kind", "row", "mode", "seen", "new"}
  BY DEF Idle
<1>3. slot'[s] = [Idle EXCEPT !.pc = "status", !.kind = "status",
                              !.row = courier.row, !.seen = courier, !.new = new]
  BY <1>1
<1>4. slot'[s].pc = "status" /\ slot'[s].seen = courier /\ slot'[s].row = courier.row
  BY <1>2, <1>3
<1> QED BY <1>4 DEF StatusRead, Arrives

LEMMA PortalReads ==
    ASSUME slot \in [Slots -> SlotType], NEW s \in Slots, PortalCancelRead(s)
    PROVE  /\ slot'[s].pc = "portal_cancel" /\ slot'[s].row = courier.row
           /\ courier.exists /\ "portal_cancel" \in Kinds[s]
           /\ courier' = courier /\ out' = out /\ status' = status
<1>1. slot' = [slot EXCEPT ![s] = [Idle EXCEPT !.pc = "portal_cancel", !.kind = "portal_cancel",
                                     !.row = courier.row, !.seen = courier]]
  BY DEF PortalCancelRead
<1>2. DOMAIN Idle = {"pc", "kind", "row", "mode", "seen", "new"}
  BY DEF Idle
<1>3. slot'[s] = [Idle EXCEPT !.pc = "portal_cancel", !.kind = "portal_cancel",
                              !.row = courier.row, !.seen = courier]
  BY <1>1
<1>4. slot'[s].pc = "portal_cancel" /\ slot'[s].row = courier.row
  BY <1>2, <1>3
<1> QED BY <1>4 DEF PortalCancelRead, Arrives

\* The points a handler may get to in a step, the waiting ones by their actions
GoesTo(s) ==
    \/ slot'[s] = slot[s]
    \/ slot'[s].pc = "idle"
    \/ slot'[s].pc = "holding" /\ HoldConflict(s)
    \/ slot'[s].pc = "reviving" /\ slot[s].pc = "holding"
    \/ slot'[s].pc \in Locking
    \/ slot'[s].pc \in {"shopify", "shopify_queued"} /\ (ShopifyNew(s) \/ ShopifyQueue(s))
    \/ StatusRead(s)
    \/ PortalCancelRead(s)

LEMMA WhereItGoes ==
    ASSUME TypeOK, NEW s \in Slots, StepOf(s)
    PROVE  GoesTo(s) /\ \A t \in Slots \ {s} : slot'[t] = slot[t]
<1>0. slot \in [Slots -> SlotType]
  BY DEF TypeOK
<1>1. CASE slot' = slot
  BY <1>1 DEF GoesTo
<1>2. CASE Answer(s)
  BY <1>0, <1>2, SlotAfter DEF GoesTo
<1>3. ASSUME NEW kind, NEW r, Continue(s, kind, "booking", r)
      PROVE  GoesTo(s) /\ \A t \in Slots \ {s} : slot'[t] = slot[t]
  BY <1>0, <1>3, ContinuesTo DEF GoesTo, Locking
<1>4. CASE HoldStep(s)
  <2>1. CASE HoldConflict(s)
    BY <1>0, <2>1, ContinuesTo DEF GoesTo, HoldConflict
  <2>2. CASE HoldReadsOther(s)
    BY <1>0, <2>2, ContinuesTo DEF GoesTo, HoldReadsOther
  <2> QED BY <1>1, <1>2, <1>4, <2>1, <2>2 DEF HoldStep, HoldInsert, HoldReadsPending, HoldRevive
<1>5. CASE ConfirmStep(s)
  <2>1. CASE ShopifyNew(s)
    BY <1>0, <2>1, ContinuesTo DEF GoesTo, ShopifyNew
  <2>2. CASE ShopifyQueue(s)
    <3>1. slot' = [slot EXCEPT ![s].pc = "shopify_queued"]
      BY <2>2 DEF ShopifyQueue
    <3>2. slot'[s].pc = "shopify_queued" /\ \A t \in Slots \ {s} : slot'[t] = slot[t]
      BY <1>0, <3>1, SlotAfter
    <3> QED BY <2>2, <3>2 DEF GoesTo
  <2>3. CASE Queue(s)
    <3>1. slot' = [slot EXCEPT ![s].pc = "queued"]
      BY <2>3 DEF Queue
    <3>2. slot'[s].pc = "queued" /\ \A t \in Slots \ {s} : slot'[t] = slot[t]
      BY <1>0, <3>1, SlotAfter
    <3> QED BY <3>2 DEF GoesTo, Locking
  <2>4. CASE ConfirmLock(s) \/ \E kind \in {"bulk", "woo", "shopify"} : PendingLock(s, kind)
    BY <1>3, <2>4 DEF ConfirmLock, PendingLock, Lock
  <2>5. CASE ShopifyRejected(s) \/ ShopifySave(s) \/ QueueRejected(s) \/ SaveConfirmed(s)
    BY <1>2, <2>5 DEF ShopifyRejected, ShopifySave, QueueRejected, SaveConfirmed, Rollback
  <2> QED BY <1>5, <2>1, <2>2, <2>3, <2>4, <2>5 DEF ConfirmStep
<1>6. CASE BookingStep(s)
  <2>1. CASE BookDirect(s) \/ BookExisting(s) \/ BookSucceeds(s)
    <3>1. PICK mode : slot' = [slot EXCEPT ![s].pc = "saving", ![s].mode = mode]
      BY <2>1 DEF BookDirect, BookExisting, BookSucceeds, Booked
    <3>2. slot'[s].pc = "saving"
      BY <1>0, <3>1, SlotAfter
    <3>3. \A t \in Slots \ {s} : slot'[t] = slot[t]
      BY <1>0, <3>1, SlotAfter
    <3> QED BY <3>2, <3>3 DEF GoesTo, Locking
  <2>2. CASE \E r \in Rows : PortalSendLock(s, r)
    BY <1>3, <2>2 DEF PortalSendLock, Lock
  <2>3. CASE BookRefused(s) \/ BookUnanswered(s) \/ SaveBooked(s) \/ SaveCollides(s) \/ CommitFails(s)
    BY <1>2, <2>3 DEF BookRefused, BookUnanswered, SaveBooked, SaveCollides, CommitFails, Rollback
  <2> QED BY <1>6, <2>1, <2>2, <2>3 DEF BookingStep
<1>7. CASE CourierStep(s)
  <2>1. CASE StatusRead(s) \/ PortalCancelRead(s)
    BY <1>0, <2>1, ReadsCourier DEF GoesTo
  <2> QED BY <1>2, <1>7, <2>1
      DEF CourierStep, StatusMoves, StatusDelivered, StatusDeliveredRejected,
          StatusDeliveredAgain, StatusUndone, StatusFails, PortalCancelRefused,
          PortalCancelSave, Rollback, Reports
<1>8. CASE SweepStep(s)
  BY <1>1, <1>8 DEF SweepStep, Cancel, AutoConfirm, AutoConfirmFails, Expire
<1> QED BY <1>4, <1>5, <1>6, <1>7, <1>8 DEF StepOf

\* A courier_orders row is inserted once, and written by reports and the portal.
LEMMA CourierWrites ==
    ASSUME NEW s \in Slots, StepOf(s)
    PROVE  \/ courier' = courier
           \/ /\ SaveBooked(s) /\ ~courier.exists /\ out' = out /\ Answer(s)
              /\ courier' = [NoCourier EXCEPT !.exists = TRUE, !.row = slot[s].row]
           \/ \/ StatusMoves(s) \/ StatusDelivered(s) \/ StatusDeliveredRejected(s)
              \/ StatusDeliveredAgain(s) \/ StatusUndone(s)
           \/ PortalCancelSave(s)
<1>1. CASE HoldStep(s) \/ SweepStep(s)
  BY <1>1
  DEF HoldStep, HoldInsert, HoldConflict, HoldReadsPending, HoldReadsOther, HoldRevive,
      SweepStep, Cancel, AutoConfirm, AutoConfirmFails, Expire
<1>2. CASE ConfirmStep(s)
  BY <1>2
  DEF ConfirmStep, ConfirmLock, PendingLock, ShopifyNew, ShopifyQueue, ShopifyRejected,
      ShopifySave, Queue, QueueRejected, SaveConfirmed, Lock, Rollback
<1>3. CASE BookingStep(s) /\ ~SaveBooked(s)
  BY <1>3
  DEF BookingStep, PortalSendLock, Lock, BookDirect, BookExisting, BookSucceeds, BookRefused,
      BookUnanswered, SaveCollides, CommitFails, Booked, Rollback
<1>4. CASE SaveBooked(s)
  BY <1>4 DEF SaveBooked
<1>5. CASE CourierStep(s)
  BY <1>5 DEF CourierStep, StatusRead, StatusFails, PortalCancelRead, PortalCancelRefused, Rollback
<1> QED BY <1>1, <1>2, <1>3, <1>4, <1>5 DEF StepOf

\* A step queues one Purchase, or one Refund, or none of them.
LEMMA QueuedEvents ==
    ASSUME TypeOK, NEW s \in Slots, StepOf(s)
    PROVE  /\ out.purchases \in Nat /\ out.refunds \in Nat
           /\ \/ out'.purchases = out.purchases
              \/ out'.purchases = out.purchases + 1 /\ out'.refunds = out.refunds
           /\ \/ out'.refunds = out.refunds
              \/ StatusUndone(s)
              \/ RedisStream /\ StatusFails(s)
<1>0. out \in [booked: [Rows -> Nat], purchases: Nat, refunds: Nat]
  BY DEF TypeOK
<1>1. CASE out' = out
  BY <1>0, <1>1
<1>2. CASE \E n : out' = [out EXCEPT !.booked[n] = @ + 1]
  BY <1>0, <1>2
<1>3. CASE out' = [out EXCEPT !.purchases = @ + 1] \/ out' = [out EXCEPT !.purchases = @]
  BY <1>0, <1>3
<1>4. CASE /\ StatusUndone(s) \/ (RedisStream /\ StatusFails(s))
           /\ out' = [out EXCEPT !.refunds = @ + 1]
  BY <1>0, <1>4
<1>5. CASE HoldStep(s) \/ SweepStep(s)
  BY <1>1, <1>3, <1>5
  DEF HoldStep, HoldInsert, HoldConflict, HoldReadsPending, HoldReadsOther, HoldRevive,
      SweepStep, Cancel, AutoConfirm, AutoConfirmFails, Expire
<1>6. CASE ConfirmStep(s)
  BY <1>1, <1>3, <1>6
  DEF ConfirmStep, ConfirmLock, PendingLock, ShopifyNew, ShopifyQueue, ShopifyRejected,
      ShopifySave, Queue, QueueRejected, SaveConfirmed, Lock, Rollback
<1>7. CASE BookingStep(s)
  BY <1>1, <1>2, <1>7
  DEF BookingStep, PortalSendLock, Lock, BookDirect, BookExisting, BookSucceeds, BookRefused,
      BookUnanswered, SaveBooked, SaveCollides, CommitFails, Booked, Rollback
<1>8. CASE CourierStep(s)
  BY <1>1, <1>3, <1>4, <1>8
  DEF CourierStep, StatusRead, StatusMoves, StatusDelivered, StatusDeliveredRejected,
      StatusDeliveredAgain, StatusUndone, StatusFails, PortalCancelRead, PortalCancelRefused,
      PortalCancelSave, Rollback
<1> QED BY <1>5, <1>6, <1>7, <1>8 DEF StepOf

-----------------------------------------------------------------------------
(* Delivered orders, if the quota lets their Purchases through.             *)

\* A Purchase is queued before its flag is set and before a delivery is saved,
\* and the flag a report's handler has read is not older than its Purchase.
SoldFirst ==
    /\ courier.purchase_event_sent \/ courier.status = "delivered" => out.purchases >= 1
    /\ \A s \in Slots : slot[s].pc = "status" /\ slot[s].seen.purchase_event_sent
                           => out.purchases >= 1

LEMMA SoldFirstStep ==
    ASSUME ~QuotaMayReject, TypeOK, SoldFirst, NEW s \in Slots, StepOf(s)
    PROVE  SoldFirst'
<1>0. /\ slot \in [Slots -> SlotType] /\ courier \in CourierType
      /\ out \in [booked: [Rows -> Nat], purchases: Nat, refunds: Nat]
  BY DEF TypeOK
<1>1. out.purchases >= 1 => out'.purchases >= 1
  BY QueuedEvents
<1>2. courier'.purchase_event_sent \/ courier'.status = "delivered" => out'.purchases >= 1
  <2>1. CASE courier' = courier
    BY <1>1, <2>1 DEF SoldFirst
  <2>2. CASE courier' = [NoCourier EXCEPT !.exists = TRUE, !.row = slot[s].row]
    BY <2>2 DEF NoCourier
  <2>3. CASE StatusMoves(s)
    BY <1>0, <1>1, <2>3 DEF StatusMoves, Reports, SoldFirst, CourierType
  <2>4. CASE StatusDelivered(s)
    BY <1>0, <2>4 DEF StatusDelivered
  <2>5. CASE StatusDeliveredAgain(s)
    BY <1>1, <2>5 DEF StatusDeliveredAgain, Reports, SoldFirst
  <2>6. CASE StatusUndone(s)
    <3>1. slot[s].new # "delivered"
      BY <2>6 DEF StatusUndone, Reports
    <3>2. \/ courier' = [courier EXCEPT !.status = slot[s].new]
          \/ courier' = [courier EXCEPT !.status = slot[s].new, !.refund_event_sent = TRUE]
      BY <2>6 DEF StatusUndone
    <3>3. courier'.status # "delivered" /\ courier'.purchase_event_sent = courier.purchase_event_sent
      BY <1>0, <3>1, <3>2 DEF CourierType
    <3> QED BY <1>1, <3>3 DEF SoldFirst
  <2>7. CASE PortalCancelSave(s)
    BY <1>0, <1>1, <2>7 DEF PortalCancelSave, SoldFirst, CourierType
  <2> QED BY <2>1, <2>2, <2>3, <2>4, <2>5, <2>6, <2>7, CourierWrites DEF StatusDeliveredRejected
<1>3. ASSUME NEW t \in Slots, slot'[t].pc = "status", slot'[t].seen.purchase_event_sent
      PROVE  out'.purchases >= 1
  <2>1. CASE slot'[t] = slot[t]
    BY <1>1, <1>3, <2>1 DEF SoldFirst
  <2>2. CASE t = s /\ StatusRead(s)
    BY <1>0, <1>1, <1>3, <2>2, StatusReads DEF SoldFirst
  <2>3. CASE t = s /\ PortalCancelRead(s)
    BY <1>0, <1>3, <2>3, PortalReads
  <2> QED BY <1>3, <2>1, <2>2, <2>3, WhereItGoes DEF GoesTo, Locking
<1> QED BY <1>2, <1>3 DEF SoldFirst

LEMMA SoldFirstNext ==
    ASSUME ~QuotaMayReject
    PROVE  LockInv /\ SoldFirst /\ [Next]_vars => LockInv' /\ SoldFirst'
<1> SUFFICES ASSUME LockInv, SoldFirst, [Next]_vars PROVE SoldFirst'
  BY LockNext
<1>1. CASE \E s \in Slots : StepOf(s)
  BY <1>1, SoldFirstStep DEF LockInv
<1>2. CASE UNCHANGED <<courier, slot, out>>
  BY <1>2 DEF SoldFirst
<1> QED BY <1>1, <1>2 DEF Next, StepOf, CourierReports, vars

\* Unless the quota rejects it: a delivered order's Purchase is queued, whatever
\* handlers race for it, in both queue modes.
THEOREM DeliveriesPurchase == ASSUME ~QuotaMayReject PROVE Spec => []DeliveredIsPurchased
<1>1. Init => LockInv /\ SoldFirst
  <2>1. Init => SoldFirst
    BY DEF Init, SoldFirst, NoCourier, Idle
  <2> QED BY <2>1, LockInit
<1>2. SoldFirst => DeliveredIsPurchased
  BY DEF SoldFirst, DeliveredIsPurchased
<1> QED BY <1>1, <1>2, SoldFirstNext, PTL DEF Spec

-----------------------------------------------------------------------------
(* Refunds, if the reports of the order are handled one at a time.          *)

\* One slot handles status reports: two at a time test the flags before either
\* sets them.
OneReporter == \A s, t \in Slots : "status" \in Kinds[s] /\ "status" \in Kinds[t] => s = t

\* A report that fails takes its event back: the stream would keep a Refund that
\* no flag records, and the courier's repetition of the report queues another.
FailuresUndo == RedisStream => MaxCommitFailures = 0

\* A Purchase whose Refund is still to come is not yet matched by one, and a
\* report's handler has read the flags as they still are.
RefundsOwed ==
    /\ out.refunds <= out.purchases
    /\ courier.purchase_event_sent /\ ~courier.refund_event_sent => out.refunds < out.purchases
    /\ \A s \in Slots : slot[s].pc = "status" =>
          /\ "status" \in Kinds[s]
          /\ courier.exists
          /\ slot[s].seen.purchase_event_sent = courier.purchase_event_sent
          /\ slot[s].seen.refund_event_sent = courier.refund_event_sent

LEMMA RefundsOwedStep ==
    ASSUME OneReporter, FailuresUndo, TypeOK, RefundsOwed, NEW s \in Slots, StepOf(s)
    PROVE  RefundsOwed'
<1>0. /\ slot \in [Slots -> SlotType] /\ courier \in CourierType
      /\ out \in [booked: [Rows -> Nat], purchases: Nat, refunds: Nat]
  BY DEF TypeOK
<1> DEFINE SameFlags == /\ courier'.purchase_event_sent = courier.purchase_event_sent
                        /\ courier'.refund_event_sent = courier.refund_event_sent
<1>1. CASE SameFlags /\ (courier.exists => courier'.exists) /\ ~(out'.refunds # out.refunds)
  <2>1. out'.purchases = out.purchases \/ out'.purchases = out.purchases + 1
    BY QueuedEvents
  <2>2. /\ out'.refunds <= out'.purchases
        /\ courier'.purchase_event_sent /\ ~courier'.refund_event_sent
              => out'.refunds < out'.purchases
    BY <1>0, <1>1, <2>1 DEF RefundsOwed
  <2>3. ASSUME NEW t \in Slots, slot'[t].pc = "status"
        PROVE  /\ "status" \in Kinds[t] /\ courier'.exists
               /\ slot'[t].seen.purchase_event_sent = courier'.purchase_event_sent
               /\ slot'[t].seen.refund_event_sent = courier'.refund_event_sent
    <3>1. CASE slot'[t] = slot[t]
      BY <1>1, <2>3, <3>1 DEF RefundsOwed
    <3>2. CASE t = s /\ StatusRead(s)
      BY <1>0, <1>1, <2>3, <3>2, StatusReads
    <3>3. CASE t = s /\ PortalCancelRead(s)
      BY <1>0, <2>3, <3>3, PortalReads
    <3> QED BY <2>3, <3>1, <3>2, <3>3, WhereItGoes DEF GoesTo, Locking
  <2> QED BY <2>2, <2>3 DEF RefundsOwed
<1>2. CASE SaveBooked(s) /\ courier' # courier
  <2>1. /\ ~courier.exists /\ out' = out /\ Answer(s)
        /\ courier' = [NoCourier EXCEPT !.exists = TRUE, !.row = slot[s].row]
    BY <1>2 DEF SaveBooked
  <2>2. ~courier'.purchase_event_sent
    BY <2>1 DEF NoCourier
  <2>3. \A t \in Slots : slot'[t].pc # "status"
    BY <1>0, <2>1, SlotAfter DEF RefundsOwed
  <2> QED BY <2>1, <2>2, <2>3 DEF RefundsOwed
<1>3. ASSUME StatusDelivered(s) \/ StatusUndone(s),
             out'.refunds <= out'.purchases,
             courier'.purchase_event_sent /\ ~courier'.refund_event_sent => out'.refunds < out'.purchases
      PROVE  RefundsOwed'
  <2>1. slot[s].pc = "status" /\ Answer(s)
    BY <1>3 DEF StatusDelivered, StatusUndone, Reports
  <2>2. \A t \in Slots \ {s} : slot[t].pc # "status"
    BY <2>1 DEF RefundsOwed, OneReporter
  <2>3. slot'[s].pc = "idle"
    BY <1>0, <2>1, SlotAfter
  <2>4. \A t \in Slots \ {s} : slot'[t] = slot[t]
    BY <1>0, <2>1, SlotAfter
  <2>5. \A t \in Slots : slot'[t].pc # "status"
    BY <2>2, <2>3, <2>4
  <2> QED BY <1>3, <2>5 DEF RefundsOwed
<1>4. CASE StatusDelivered(s)
  <2>1. out'.purchases = out.purchases + 1 /\ out'.refunds = out.refunds
    BY <1>0, <1>4 DEF StatusDelivered
  <2>2. out'.refunds < out'.purchases
    BY <1>0, <2>1 DEF RefundsOwed
  <2>3. out'.refunds <= out'.purchases
    BY <1>0, <2>1 DEF RefundsOwed
  <2> QED BY <1>3, <1>4, <2>2, <2>3
<1>5. CASE StatusUndone(s)
  <2>1. /\ slot[s].seen.purchase_event_sent = courier.purchase_event_sent
        /\ slot[s].seen.refund_event_sent = courier.refund_event_sent
    BY <1>5 DEF StatusUndone, Reports, RefundsOwed
  <2>2. CASE /\ courier.purchase_event_sent /\ ~courier.refund_event_sent
             /\ courier' = [courier EXCEPT !.status = slot[s].new, !.refund_event_sent = TRUE]
             /\ out' = [out EXCEPT !.refunds = @ + 1]
    <3>1. out'.refunds = out.refunds + 1 /\ out'.purchases = out.purchases
      BY <1>0, <2>2
    <3>2. courier'.refund_event_sent
      BY <1>0, <2>2 DEF CourierType
    <3>3. out'.refunds <= out'.purchases
      BY <1>0, <2>2, <3>1 DEF RefundsOwed
    <3> QED BY <1>3, <1>5, <3>2, <3>3
  <2>3. CASE courier' = [courier EXCEPT !.status = slot[s].new] /\ out' = out
    BY <1>0, <1>1, <2>3 DEF CourierType
  <2> QED BY <1>5, <2>1, <2>2, <2>3 DEF StatusUndone
<1>6. CASE \/ StatusMoves(s) \/ StatusDeliveredRejected(s)
           \/ StatusDeliveredAgain(s) \/ PortalCancelSave(s)
  <2>1. \E new : courier' = [courier EXCEPT !.status = new] /\ out' = out
    BY <1>6 DEF StatusMoves, StatusDeliveredRejected, StatusDeliveredAgain, PortalCancelSave
  <2> QED BY <1>0, <1>1, <2>1 DEF CourierType
<1>7. CASE courier' = courier
  <2>1. ~(RedisStream /\ StatusFails(s))
    BY PurchaseAssumption DEF FailuresUndo, StatusFails
  <2> QED BY <1>1, <1>5, <1>7, <2>1, QueuedEvents
<1> QED BY <1>2, <1>4, <1>5, <1>6, <1>7, CourierWrites

LEMMA RefundsOwedNext ==
    ASSUME OneReporter, FailuresUndo
    PROVE  LockInv /\ RefundsOwed /\ [Next]_vars => LockInv' /\ RefundsOwed'
<1> SUFFICES ASSUME LockInv, RefundsOwed, [Next]_vars PROVE RefundsOwed'
  BY LockNext
<1>1. CASE \E s \in Slots : StepOf(s)
  BY <1>1, RefundsOwedStep DEF LockInv
<1>2. CASE UNCHANGED <<courier, slot, out>>
  BY <1>2 DEF RefundsOwed
<1> QED BY <1>1, <1>2 DEF Next, StepOf, CourierReports, vars

\* If reports are handled one at a time, and a failed one leaves no event in the
\* stream: Refunds follow Purchases, one for one, however often the order is
\* sent, revived, booked or sold through the shops.
THEOREM RefundsFollow == ASSUME OneReporter, FailuresUndo PROVE Spec => []RefundFollowsPurchase
<1>1. Init => LockInv /\ RefundsOwed
  <2>1. Init => RefundsOwed
    BY DEF Init, RefundsOwed, NoCourier, Idle
  <2> QED BY <2>1, LockInit
<1>2. RefundsOwed => RefundFollowsPurchase
  BY DEF RefundsOwed, RefundFollowsPurchase
<1> QED BY <1>1, <1>2, RefundsOwedNext, PTL DEF Spec

-----------------------------------------------------------------------------
(* Rows decided before the courier, if the order is sent once.              *)

\* A handler under a lock is one its slot runs, and the portal's never queues a
\* Purchase; one that has read the courier_orders row knows that it exists.
AtWork ==
    \A s \in Slots :
        /\ slot[s].pc \in Locking => slot[s].kind \in Kinds[s]
        /\ slot[s].pc = "queued" \/ (slot[s].pc = "saving" /\ slot[s].mode = "direct")
              => slot[s].kind # "portal_send"
        /\ slot[s].pc \in {"status", "portal_cancel"} => courier.exists

\* How a handler comes to a point under a lock
LEMMA LockingBy ==
    ASSUME TypeOK, NEW s \in Slots, StepOf(s), slot'[s].pc \in Locking
    PROVE  \/ slot'[s] = slot[s]
           \/ \E kind \in Kinds[s] : slot'[s].pc = "booking" /\ slot'[s].kind = kind
           \/ /\ slot[s].pc \in Locking /\ slot'[s].kind = slot[s].kind
              /\ slot'[s].pc = "saving"
              /\ slot'[s].mode = "direct" => slot[s].kind # "portal_send"
           \/ /\ slot[s].pc = "saving" /\ slot[s].mode = "direct"
              /\ slot'[s].kind = slot[s].kind /\ slot'[s].pc = "queued"
<1>0. slot \in [Slots -> SlotType]
  BY DEF TypeOK
<1>1. CASE slot' = slot
  BY <1>1
<1>2. CASE Answer(s)
  BY <1>0, <1>2, SlotAfter DEF Locking
<1>3. ASSUME NEW kind, NEW r, Arrives(s, kind), Lock(s, kind, r)
      PROVE  \E k \in Kinds[s] : slot'[s].pc = "booking" /\ slot'[s].kind = k
  <2>1. slot'[s].pc = "booking" /\ slot'[s].kind = kind
    BY <1>0, <1>3, ContinuesTo DEF Lock
  <2> QED BY <1>3, <2>1 DEF Arrives
<1>4. CASE \E kind, pc, r : pc \notin Locking /\ Continue(s, kind, pc, r)
  BY <1>0, <1>4, ContinuesTo
<1>5. CASE HoldStep(s) \/ SweepStep(s)
  BY <1>1, <1>2, <1>4, <1>5
  DEF HoldStep, HoldInsert, HoldConflict, HoldReadsPending, HoldReadsOther, HoldRevive, Locking,
      SweepStep, Cancel, AutoConfirm, AutoConfirmFails, Expire
<1>6. CASE ConfirmStep(s)
  <2>1. CASE ConfirmLock(s) \/ \E kind \in {"bulk", "woo", "shopify"} : PendingLock(s, kind)
    BY <1>3, <2>1 DEF ConfirmLock, PendingLock
  <2>2. CASE Queue(s)
    <3>1. slot' = [slot EXCEPT ![s].pc = "queued"] /\ slot[s].pc = "saving" /\ slot[s].mode = "direct"
      BY <2>2 DEF Queue
    <3>2. slot'[s].pc = "queued" /\ slot'[s].kind = slot[s].kind
      BY <1>0, <3>1, PcSet
    <3> QED BY <3>1, <3>2
  <2>3. CASE ShopifyQueue(s)
    <3>1. slot' = [slot EXCEPT ![s].pc = "shopify_queued"]
      BY <2>3 DEF ShopifyQueue
    <3>2. slot'[s].pc = "shopify_queued"
      BY <1>0, <3>1, PcSet
    <3> QED BY <3>2 DEF Locking
  <2>4. CASE ShopifyNew(s)
    BY <1>4, <2>4 DEF ShopifyNew, Locking
  <2>5. CASE ShopifyRejected(s) \/ ShopifySave(s) \/ QueueRejected(s) \/ SaveConfirmed(s)
    BY <1>2, <2>5 DEF ShopifyRejected, ShopifySave, QueueRejected, SaveConfirmed, Rollback
  <2> QED BY <1>6, <2>1, <2>2, <2>3, <2>4, <2>5 DEF ConfirmStep
<1>7. CASE BookingStep(s)
  <2>1. CASE BookDirect(s) \/ BookExisting(s) \/ BookSucceeds(s)
    <3>1. PICK mode \in {"direct", "already_booked", "booked"} :
             /\ slot' = [slot EXCEPT ![s].pc = "saving", ![s].mode = mode]
             /\ mode = "direct" => slot[s].kind # "portal_send"
      BY <2>1 DEF BookDirect, BookExisting, BookSucceeds, Booked
    <3>2. slot'[s].pc = "saving" /\ slot'[s].mode = mode /\ slot'[s].kind = slot[s].kind
      BY <1>0, <3>1, ModeSet
    <3>3. slot[s].pc \in Locking
      BY <2>1 DEF BookDirect, BookExisting, BookSucceeds, CallsCourier, Locking
    <3> QED BY <3>1, <3>2, <3>3
  <2>2. CASE \E r \in Rows : PortalSendLock(s, r)
    BY <1>3, <2>2 DEF PortalSendLock
  <2>3. CASE BookRefused(s) \/ BookUnanswered(s) \/ SaveBooked(s) \/ SaveCollides(s) \/ CommitFails(s)
    BY <1>2, <2>3 DEF BookRefused, BookUnanswered, SaveBooked, SaveCollides, CommitFails, Rollback
  <2> QED BY <1>7, <2>1, <2>2, <2>3 DEF BookingStep
<1>8. CASE CourierStep(s)
  <2>1. CASE StatusRead(s) \/ PortalCancelRead(s)
    BY <1>0, <2>1, ReadsCourier DEF Locking
  <2> QED BY <1>2, <1>8, <2>1
      DEF CourierStep, StatusMoves, StatusDelivered, StatusDeliveredRejected,
          StatusDeliveredAgain, StatusUndone, StatusFails, PortalCancelRefused,
          PortalCancelSave, Rollback, Reports
<1> QED BY <1>5, <1>6, <1>7, <1>8 DEF StepOf

LEMMA AtWorkStep ==
    ASSUME TypeOK, AtWork, NEW s \in Slots, StepOf(s)
    PROVE  AtWork'
<1>0. slot \in [Slots -> SlotType] /\ \A t \in Slots \ {s} : slot'[t] = slot[t]
  BY WhereItGoes DEF TypeOK
<1>1. courier.exists => courier'.exists
  BY CourierStays
<1>2. ASSUME NEW t \in Slots \ {s}
      PROVE  /\ slot'[t].pc \in Locking => slot'[t].kind \in Kinds[t]
             /\ slot'[t].pc = "queued" \/ (slot'[t].pc = "saving" /\ slot'[t].mode = "direct")
                   => slot'[t].kind # "portal_send"
             /\ slot'[t].pc \in {"status", "portal_cancel"} => courier'.exists
  BY <1>0, <1>1, <1>2 DEF AtWork
<1>3. slot'[s].pc \in Locking => slot'[s].kind \in Kinds[s]
  BY LockingBy DEF AtWork, Locking
<1>4. slot'[s].pc = "queued" \/ (slot'[s].pc = "saving" /\ slot'[s].mode = "direct")
         => slot'[s].kind # "portal_send"
  BY LockingBy DEF AtWork, Locking
<1>5. slot'[s].pc \in {"status", "portal_cancel"} => courier'.exists
  <2>1. CASE StatusRead(s) \/ PortalCancelRead(s)
    BY <1>0, <1>1, <2>1, StatusReads, PortalReads
  <2>2. CASE slot'[s] = slot[s]
    BY <1>1, <2>2 DEF AtWork
  <2> QED BY <2>1, <2>2, WhereItGoes DEF GoesTo, Locking
<1> QED BY <1>2, <1>3, <1>4, <1>5 DEF AtWork

\* A hold that finds a row pending is the order's second.
HeldFirst ==
    /\ With("pending") # {} => spent.holds >= 1
    /\ \A s \in Slots : slot[s].pc \notin {"holding", "reviving"}

\* Only a hold makes a row pending.
LEMMA PendingByHold ==
    ASSUME TypeOK, NEW s \in Slots, StepOf(s), NEW r \in Rows, status'[r] = "pending"
    PROVE  status[r] = "pending" \/ HoldInsert(s) \/ slot[s].pc = "reviving"
<1> USE DEF TypeOK
<1>1. CASE status' = status
  BY <1>1
<1>2. CASE \E q, v : v # "pending" /\ status' = [status EXCEPT ![q] = v]
  BY <1>2
<1>3. CASE HoldStep(s) \/ SweepStep(s)
  BY <1>1, <1>2, <1>3
  DEF HoldStep, HoldConflict, HoldReadsPending, HoldReadsOther, HoldRevive,
      SweepStep, Cancel, AutoConfirm, AutoConfirmFails, Expire
<1>4. CASE ConfirmStep(s)
  BY <1>1, <1>2, <1>4
  DEF ConfirmStep, ConfirmLock, PendingLock, ShopifyNew, ShopifyQueue, ShopifyRejected,
      ShopifySave, Queue, QueueRejected, SaveConfirmed, Lock, Rollback
<1>5. CASE CourierStep(s)
  BY <1>1, <1>2, <1>5
  DEF CourierStep, StatusRead, StatusMoves, StatusDelivered, StatusDeliveredRejected,
      StatusDeliveredAgain, StatusUndone, StatusFails, PortalCancelRead, PortalCancelRefused,
      PortalCancelSave, Rollback
<1>6. CASE BookingStep(s)
  BY <1>1, <1>2, <1>6
  DEF BookingStep, PortalSendLock, Lock, BookDirect, BookExisting, BookSucceeds, BookRefused,
      BookUnanswered, SaveBooked, SaveCollides, CommitFails, Booked, Rollback
<1> QED BY <1>3, <1>4, <1>5, <1>6 DEF StepOf

\* Holds are counted, and only holds.
LEMMA HoldsCount ==
    ASSUME TypeOK, NEW s \in Slots, StepOf(s)
    PROVE  /\ spent.holds >= 1 => spent'.holds >= 1
           /\ HoldInsert(s) => spent'.holds >= 1
<1>0. spent \in [requests: Nat, holds: Nat, failures: Nat]
  BY DEF TypeOK
<1>1. ASSUME NEW kind, Arrives(s, kind)
      PROVE  /\ spent.holds >= 1 => spent'.holds >= 1
             /\ kind = "hold" => spent'.holds >= 1
  BY <1>0, <1>1 DEF Arrives
<1>2. HoldInsert(s) => spent'.holds >= 1
  BY <1>1 DEF HoldInsert
<1>3. (\E kind : Arrives(s, kind)) \/ UNCHANGED spent \/ spent' = [spent EXCEPT !.failures = @ + 1]
  <2>1. CASE HoldStep(s) \/ SweepStep(s)
    BY <2>1
    DEF HoldStep, HoldInsert, HoldConflict, HoldReadsPending, HoldReadsOther, HoldRevive,
        SweepStep, Cancel, AutoConfirm, AutoConfirmFails, Expire
  <2>2. CASE ConfirmStep(s)
    BY <2>2
    DEF ConfirmStep, ConfirmLock, PendingLock, ShopifyNew, ShopifyQueue, ShopifyRejected,
        ShopifySave, Queue, QueueRejected, SaveConfirmed
  <2>3. CASE CourierStep(s)
    BY <2>3
    DEF CourierStep, StatusRead, StatusMoves, StatusDelivered, StatusDeliveredRejected,
        StatusDeliveredAgain, StatusUndone, StatusFails, PortalCancelRead, PortalCancelRefused,
        PortalCancelSave, Reports
  <2>4. CASE BookingStep(s)
    BY <2>4
    DEF BookingStep, PortalSendLock, BookDirect, BookExisting, BookSucceeds, BookRefused,
        BookUnanswered, SaveBooked, SaveCollides, CommitFails, Booked
  <2> QED BY <2>1, <2>2, <2>3, <2>4 DEF StepOf
<1>4. CASE spent' = [spent EXCEPT !.failures = @ + 1]
  BY <1>0, <1>2, <1>4
<1> QED BY <1>1, <1>2, <1>3, <1>4

LEMMA HeldFirstStep ==
    ASSUME MaxHolds <= 1, TypeOK, HeldFirst, NEW s \in Slots, StepOf(s)
    PROVE  HeldFirst'
<1>1. With("pending")' # {} => spent'.holds >= 1
  <2>1. ASSUME NEW r \in Rows, status'[r] = "pending" PROVE spent'.holds >= 1
    BY <2>1, PendingByHold, HoldsCount DEF HeldFirst, With
  <2> QED BY <2>1 DEF With
<1>2. ~HoldConflict(s)
  <2>1. ASSUME HoldConflict(s) PROVE spent.holds >= 1 /\ spent.holds < MaxHolds
    BY <2>1 DEF HoldConflict, HeldFirst, Arrives
  <2>2. spent.holds \in Nat /\ MaxHolds \in Nat
    BY PurchaseAssumption DEF TypeOK
  <2> QED BY <2>1, <2>2
<1>3. ASSUME NEW t \in Slots PROVE slot'[t].pc \notin {"holding", "reviving"}
  <2>0. slot \in [Slots -> SlotType]
    BY DEF TypeOK
  <2>1. CASE slot'[t] = slot[t]
    BY <2>1 DEF HeldFirst
  <2>2. CASE t = s /\ (StatusRead(s) \/ PortalCancelRead(s))
    BY <2>0, <2>2, ReadsCourier
  <2> QED BY <1>2, <2>1, <2>2, WhereItGoes DEF GoesTo, HeldFirst, Locking
<1> QED BY <1>1, <1>3 DEF HeldFirst

SentOnceInv == LockInv /\ Consigned /\ AtWork /\ HeldFirst

LEMMA SentOnceInit == Init => SentOnceInv
<1> SUFFICES ASSUME Init PROVE AtWork /\ HeldFirst
  BY LockInit, ConsignedInit DEF SentOnceInv
<1>1. \A s \in Slots : slot[s].pc = "idle"
  BY DEF Init, Idle
<1>2. With("pending") = {}
  BY DEF Init, With
<1> QED BY <1>1, <1>2 DEF AtWork, HeldFirst, Locking

LEMMA SentOnceNext == ASSUME MaxHolds <= 1 PROVE SentOnceInv /\ [Next]_vars => SentOnceInv'
<1> SUFFICES ASSUME SentOnceInv, [Next]_vars PROVE AtWork' /\ HeldFirst'
  BY LockNext, ConsignedNext DEF SentOnceInv, LockInv
<1>1. CASE \E s \in Slots : StepOf(s)
  BY <1>1, AtWorkStep, HeldFirstStep DEF SentOnceInv, LockInv
<1>2. CASE UNCHANGED <<status, courier, slot, spent>>
  BY <1>2 DEF SentOnceInv, AtWork, HeldFirst, With
<1> QED BY <1>1, <1>2 DEF Next, StepOf, CourierReports, vars

\* Off the courier, a row is decided once, from pending or as a new one.
Decided(r, v) == status[r] = "pending" /\ status' = [status EXCEPT ![r] = v]
Begun(r, v) == status[r] = "none" /\ status' = [status EXCEPT ![r] = v]

LEMMA OffCourier ==
    ASSUME SentOnceInv, NEW s \in Slots, StepOf(s), ~courier.exists, ~SaveBooked(s)
    PROVE  \/ status' = status /\ (~RedisStream => out'.purchases = out.purchases)
           \/ \E r \in Rows : Begun(r, "pending") /\ out'.purchases = out.purchases
           \/ \E r \in Rows, v \in {"cancelled", "expired"} :
                 Decided(r, v) /\ out'.purchases = out.purchases
           \/ \E r \in Rows :
                 /\ Decided(r, "confirmed") \/ (Begun(r, "confirmed") /\ ShopifySave(s))
                 /\ ~RedisStream => out'.purchases = out.purchases + 1
<1>0. /\ HoldsRow(s) /\ slot[s].pc \notin {"holding", "reviving", "status", "portal_cancel"}
      /\ out \in [booked: [Rows -> Nat], purchases: Nat, refunds: Nat]
      /\ \A v : With(v) \subseteq Rows
      /\ slot[s].pc = "queued" => slot[s].kind # "portal_send"
  BY DEF SentOnceInv, LockInv, TypeOK, HeldFirst, AtWork, With
<1>1. CASE HoldInsert(s)
  <2>1. FirstNone \in With("none")
    BY <1>1, FirstNoneIsNone DEF HoldInsert
  <2>2. Begun(FirstNone, "pending") /\ out' = out
    BY <1>1, <2>1 DEF HoldInsert, FirstNone, Begun, With
  <2> QED BY <1>0, <2>1, <2>2
<1>2. CASE HoldStep(s) /\ ~HoldInsert(s)
  BY <1>0, <1>2 DEF HoldStep, HoldConflict, HoldReadsPending, HoldReadsOther, HoldRevive
<1>3. CASE SaveConfirmed(s)
  <2>1. slot[s].row \in Rows /\ status[slot[s].row] = "pending"
    BY <1>0, <1>3 DEF SaveConfirmed, HoldsRow, Locking
  <2>2. Decided(slot[s].row, "confirmed")
    BY <1>3, <2>1 DEF SaveConfirmed, Decided
  <2>3. ~RedisStream => out'.purchases = out.purchases + 1
    BY <1>0, <1>3 DEF SaveConfirmed
  <2> QED BY <2>1, <2>2, <2>3
<1>4. CASE ShopifySave(s)
  <2>1. FirstNone \in With("none")
    BY <1>4, FirstNoneIsNone DEF ShopifySave
  <2>2. Begun(FirstNone, "confirmed")
    BY <1>4, <2>1 DEF ShopifySave, FirstNone, Begun, With
  <2>3. ~RedisStream => out'.purchases = out.purchases + 1
    BY <1>0, <1>4 DEF ShopifySave
  <2> QED BY <1>0, <1>4, <2>1, <2>2, <2>3
<1>5. CASE Queue(s) \/ ShopifyQueue(s)
  <2>1. status' = status /\ (~RedisStream => out' = [out EXCEPT !.purchases = @])
    BY <1>5 DEF Queue, ShopifyQueue
  <2> QED BY <1>0, <2>1
<1>6. CASE \/ ConfirmLock(s) \/ ShopifyNew(s) \/ ShopifyRejected(s) \/ QueueRejected(s)
           \/ \E kind \in {"bulk", "woo", "shopify"} : PendingLock(s, kind)
  BY <1>6 DEF ConfirmLock, PendingLock, ShopifyNew, ShopifyRejected, QueueRejected, Lock, Rollback
<1>7. CASE BookingStep(s)
  <2>1. status' = status /\ (out' = out \/ \E n : out' = [out EXCEPT !.booked[n] = @ + 1])
    BY <1>7
    DEF BookingStep, PortalSendLock, Lock, BookDirect, BookExisting, BookSucceeds, BookRefused,
        BookUnanswered, SaveCollides, CommitFails, Booked, Rollback
  <2> QED BY <1>0, <2>1
<1>8. CASE CourierStep(s)
  BY <1>0, <1>8
  DEF CourierStep, StatusRead, StatusMoves, StatusDelivered, StatusDeliveredRejected,
      StatusDeliveredAgain, StatusUndone, StatusFails, PortalCancelRead, PortalCancelRefused,
      PortalCancelSave, Reports
<1>9. CASE Cancel(s) \/ Expire(s)
  <2>1. \E r \in With("pending"), v \in {"cancelled", "expired"} :
           status' = [status EXCEPT ![r] = v] /\ out' = out
    BY <1>9 DEF Cancel, Expire
  <2> QED BY <1>0, <2>1 DEF Decided, With
<1>10. CASE AutoConfirm(s)
  <2>1. PICK r \in With("pending") : status' = [status EXCEPT ![r] = "confirmed"]
    BY <1>10 DEF AutoConfirm
  <2>2. out'.purchases = out.purchases + 1
    BY <1>0, <1>10 DEF AutoConfirm
  <2> QED BY <1>0, <2>1, <2>2 DEF Decided, With
<1>11. CASE AutoConfirmFails(s)
  BY <1>11 DEF AutoConfirmFails
<1> QED BY <1>1, <1>2, <1>3, <1>4, <1>5, <1>6, <1>7, <1>8, <1>9, <1>10, <1>11
        DEF StepOf, ConfirmStep, SweepStep

LEMMA ConfirmedFinite == IsFiniteSet(With("confirmed")) /\ Cardinality(With("confirmed")) \in Nat
<1>1. IsFiniteSet(Rows)
  BY FS_Interval, PurchaseAssumption DEF Rows
<1>2. With("confirmed") \subseteq Rows
  BY DEF With
<1>3. IsFiniteSet(With("confirmed"))
  BY <1>1, <1>2, FS_Subset
<1> QED BY <1>3, FS_CardinalityType

LEMMA RecordedStep ==
    ASSUME MaxHolds <= 1, ~RedisStream, SentOnceInv, NEW s \in Slots, StepOf(s),
           ~courier.exists => out.purchases <= Cardinality(With("confirmed")),
           ~courier'.exists
    PROVE  out'.purchases <= Cardinality(With("confirmed")')
<1>0. status \in [Rows -> RowStatuses] /\ out.purchases \in Nat /\ TypeOK
  BY DEF SentOnceInv, LockInv, TypeOK
<1>1. ~courier.exists
  BY <1>0, CourierStays
<1>2. ~SaveBooked(s)
  <2>1. ASSUME SaveBooked(s) PROVE FALSE
    <3>1. slot[s].mode # "already_booked"
      BY <1>1, <2>1 DEF SaveBooked, SentOnceInv, Consigned
    <3>2. courier' = [NoCourier EXCEPT !.exists = TRUE, !.row = slot[s].row]
      BY <2>1, <3>1 DEF SaveBooked
    <3> QED BY <3>2 DEF NoCourier
  <2> QED BY <2>1
<1>3. IsFiniteSet(With("confirmed")) /\ Cardinality(With("confirmed")) \in Nat
  BY ConfirmedFinite
<1>4. CASE status' = status /\ out'.purchases = out.purchases
  <2>1. With("confirmed")' = With("confirmed")
    BY <1>4 DEF With
  <2> QED BY <1>1, <1>4, <2>1
<1>5. ASSUME NEW r \in Rows, NEW v \in {"pending", "cancelled", "expired"},
             Begun(r, v) \/ Decided(r, v), out'.purchases = out.purchases
      PROVE  out'.purchases <= Cardinality(With("confirmed")')
  <2>1. With("confirmed")' = With("confirmed")
    BY <1>0, <1>5 DEF With, Begun, Decided
  <2> QED BY <1>1, <1>5, <2>1
<1>6. ASSUME NEW r \in Rows, Begun(r, "confirmed") \/ Decided(r, "confirmed"),
             out'.purchases = out.purchases + 1
      PROVE  out'.purchases <= Cardinality(With("confirmed")')
  <2>1. With("confirmed")' = With("confirmed") \cup {r} /\ r \notin With("confirmed")
    BY <1>0, <1>6 DEF With, Begun, Decided
  <2>2. Cardinality(With("confirmed")') = Cardinality(With("confirmed")) + 1
    BY <1>3, <2>1, FS_AddElement
  <2> QED BY <1>0, <1>1, <1>3, <1>6, <2>2
<1> QED BY <1>1, <1>2, <1>4, <1>5, <1>6, OffCourier

\* An order sent once, its events not in a stream: while it is not at a courier,
\* every Purchase has its confirmed row, whichever handler queued it.
THEOREM PurchasesRecorded ==
    ASSUME MaxHolds <= 1, ~RedisStream PROVE Spec => []PurchaseIsRecorded
<1> DEFINE Recorded == ~courier.exists => out.purchases <= Cardinality(With("confirmed"))
<1>1. Init => SentOnceInv /\ Recorded
  <2>1. Init => out.purchases = 0
    BY DEF Init
  <2> QED BY <2>1, SentOnceInit, ConfirmedFinite
<1>2. SentOnceInv /\ Recorded /\ [Next]_vars => SentOnceInv' /\ Recorded'
  <2> SUFFICES ASSUME SentOnceInv, Recorded, [Next]_vars PROVE Recorded'
    BY SentOnceNext
  <2>1. CASE \E s \in Slots : StepOf(s)
    <3>1. PICK s \in Slots : StepOf(s)
      BY <2>1
    <3> QED BY <3>1, RecordedStep
  <2>2. CASE UNCHANGED <<status, courier, out>>
    <3>1. With("confirmed")' = With("confirmed")
      BY <2>2 DEF With
    <3> QED BY <2>2, <3>1
  <2> QED BY <2>1, <2>2 DEF Next, StepOf, CourierReports, vars
<1>3. Recorded => PurchaseIsRecorded
  BY DEF PurchaseIsRecorded
<1> HIDE DEF Recorded
<1> QED BY <1>1, <1>2, <1>3, PTL DEF Spec

\* An order sent once and not sent off from the portal: cancelled before it is
\* at a courier, it stays so.
THEOREM CancelledForGood ==
    ASSUME MaxHolds <= 1, \A s \in Slots : "portal_send" \notin Kinds[s]
    PROVE  Spec => CancelledStaysCancelled
<1> DEFINE Keeps == \A r \in Rows : ~courier.exists /\ status[r] = "cancelled"
                                       => status'[r] = "cancelled"
<1>1. ASSUME SentOnceInv, NEW s \in Slots, StepOf(s), ~courier.exists,
             NEW r \in Rows, status[r] = "cancelled"
      PROVE  status'[r] = "cancelled"
  <2>0. status \in [Rows -> RowStatuses]
    BY <1>1 DEF SentOnceInv, LockInv, TypeOK
  <2>1. CASE status' = status
    BY <1>1, <2>1
  <2>2. CASE \E q, v : status[q] # "cancelled" /\ status' = [status EXCEPT ![q] = v]
    BY <1>1, <2>0, <2>2
  <2>3. CASE SaveBooked(s)
    <3>1. slot[s].pc = "saving" /\ status' = [status EXCEPT ![slot[s].row] = "courier_booked"]
      BY <2>3 DEF SaveBooked
    <3>2. slot[s].kind # "portal_send"
      BY <1>1, <3>1 DEF SentOnceInv, AtWork, Locking
    <3>3. status[slot[s].row] = "pending"
      BY <1>1, <3>1, <3>2 DEF SentOnceInv, LockInv, HoldsRow, Locking
    <3> QED BY <2>2, <3>1, <3>3
  <2> QED BY <1>1, <2>1, <2>2, <2>3, OffCourier DEF Begun, Decided
<1>2. ASSUME SentOnceInv, [Next]_vars PROVE [Keeps]_vars
  <2>1. CASE \E s \in Slots : StepOf(s)
    BY <1>1, <1>2, <2>1
  <2>2. CASE UNCHANGED status
    BY <2>2
  <2> QED BY <1>2, <2>1, <2>2 DEF Next, StepOf, CourierReports, vars
<1> QED BY <1>2, SentOnceInit, SentOnceNext, PTL DEF Spec, CancelledStaysCancelled

-----------------------------------------------------------------------------
(* An order that is sent once, with its decisions racing each other and its *)
(* status reports handled one at a time: one Purchase, and its Refund.      *)

\* The conditions, each needed: a Purchase sent again revives a decided row, and
\* Shopify's webhook and the portal work on an order whatever its rows say; two
\* reports at a time test the flags before either sets them; an event in the
\* stream outlives a transaction that fails.
OneOrder ==
    /\ MaxHolds <= 1
    /\ \A s \in Slots : Kinds[s] \cap {"shopify", "portal_send"} = {}
    /\ OneReporter
    /\ ~RedisStream

\* The order has one row, and it is the one the courier's reports are about.
OneRow ==
    /\ Known # {} => spent.holds >= 1
    /\ \A q, r \in Known : q = r
    /\ \A s \in Slots :
          /\ slot[s].pc \notin {"shopify", "shopify_queued"}
          /\ slot[s].pc \in {"status", "portal_cancel"} => slot[s].row \in Known

\* Until it is at a courier, its Purchase is its confirmed row; there, its flag.
SoldOnce ==
    /\ ~courier.exists => out.purchases = IF With("confirmed") = {} THEN 0 ELSE 1
    /\ courier.exists =>
          /\ With("pending") = {}
          /\ courier.row \in Known
          /\ out.purchases = IF courier.purchase_event_sent THEN 1 ELSE 0

OneOrderInv == SentOnceInv /\ RefundsOwed /\ OneRow /\ SoldOnce

LEMMA OneOrderInit == Init => OneOrderInv
<1> SUFFICES ASSUME Init PROVE OneOrderInv
  OBVIOUS
<1>1. \A s \in Slots : slot[s].pc = "idle"
  BY DEF Init, Idle
<1>2. Known = {} /\ With("confirmed") = {} /\ ~courier.exists
  BY DEF Init, Known, With, NoCourier
<1>3. RefundsOwed
  BY <1>1 DEF Init, RefundsOwed, NoCourier
<1> QED BY <1>1, <1>2, <1>3, SentOnceInit DEF Init, OneOrderInv, OneRow, SoldOnce

\* A handler under a lock is at work on the order's pending row, off the courier.
LEMMA LockedIsPending ==
    ASSUME OneOrder, OneOrderInv, NEW s \in Slots, slot[s].pc \in Locking
    PROVE  slot[s].row \in With("pending") /\ ~courier.exists
<1>1. slot[s].kind # "portal_send"
  BY DEF OneOrderInv, SentOnceInv, AtWork, OneOrder
<1>2. slot[s].row \in With("pending")
  BY <1>1 DEF OneOrderInv, SentOnceInv, LockInv, HoldsRow, With
<1> QED BY <1>2 DEF OneOrderInv, SoldOnce

\* A pending row is the only one.
LEMMA PendingIsAlone ==
    ASSUME OneOrderInv, NEW r \in With("pending")
    PROVE  Known = {r} /\ r \in Rows /\ With("confirmed") = {} /\ With("cancelled") = {}
<1>1. r \in Known /\ r \in Rows /\ status[r] = "pending"
  BY DEF With, Known
<1>2. Known = {r}
  BY <1>1 DEF OneOrderInv, OneRow
<1> QED BY <1>1, <1>2 DEF With, Known

\* A second Purchase to hold does not come.
LEMMA HeldFirstOnly ==
    ASSUME OneOrder, OneOrderInv, NEW s \in Slots, HoldInsert(s)
    PROVE  Known = {} /\ ~courier.exists
<1>1. spent.holds < MaxHolds /\ spent.holds \in Nat /\ MaxHolds \in Nat
  BY PurchaseAssumption DEF HoldInsert, Arrives, OneOrderInv, SentOnceInv, LockInv, TypeOK
<1>2. Known = {}
  BY <1>1 DEF OneOrder, OneOrderInv, OneRow
<1> QED BY <1>2 DEF OneOrderInv, SoldOnce

\* Which rows a step writes
LEMMA RowsWritten ==
    ASSUME OneOrder, OneOrderInv, NEW s \in Slots, StepOf(s)
    PROVE  \/ status' = status
           \/ HoldInsert(s)
           \/ \E r \in Known, v \in RowStatuses \ {"none", "pending"} :
                 status' = [status EXCEPT ![r] = v]
<1>0. /\ slot[s].pc \notin {"holding", "reviving", "shopify", "shopify_queued"}
      /\ slot[s].pc \in {"status", "portal_cancel"} => slot[s].row \in Known
      /\ slot[s].pc \in Locking => slot[s].row \in Known
      /\ With("pending") \subseteq Known
      /\ {"courier_booked", "confirmed", "cancelled", "expired"} \subseteq RowStatuses \ {"none", "pending"}
  BY LockedIsPending DEF OneOrderInv, SentOnceInv, HeldFirst, OneRow, With, Known, RowStatuses
<1>1. CASE HoldStep(s)
  BY <1>0, <1>1 DEF HoldStep, HoldConflict, HoldReadsPending, HoldReadsOther, HoldRevive
<1>2. CASE SaveConfirmed(s) \/ SaveBooked(s)
  BY <1>0, <1>2 DEF SaveConfirmed, SaveBooked, Locking
<1>3. CASE ConfirmStep(s) /\ ~SaveConfirmed(s)
  BY <1>0, <1>3
  DEF ConfirmStep, ConfirmLock, PendingLock, ShopifyNew, ShopifyQueue, ShopifyRejected,
      ShopifySave, Queue, QueueRejected, Lock, Rollback
<1>4. CASE BookingStep(s) /\ ~SaveBooked(s)
  BY <1>4
  DEF BookingStep, PortalSendLock, Lock, BookDirect, BookExisting, BookSucceeds, BookRefused,
      BookUnanswered, SaveCollides, CommitFails, Booked, Rollback
<1>5. CASE CourierStep(s)
  BY <1>0, <1>5
  DEF CourierStep, StatusRead, StatusMoves, StatusDelivered, StatusDeliveredRejected,
      StatusDeliveredAgain, StatusUndone, StatusFails, PortalCancelRead, PortalCancelRefused,
      PortalCancelSave, Rollback, Reports
<1>6. CASE SweepStep(s)
  BY <1>0, <1>6 DEF SweepStep, Cancel, AutoConfirm, AutoConfirmFails, Expire
<1> QED BY <1>1, <1>2, <1>3, <1>4, <1>5, <1>6 DEF StepOf

LEMMA OneRowStep ==
    ASSUME OneOrder, OneOrderInv, NEW s \in Slots, StepOf(s)
    PROVE  OneRow' /\ \A r \in Known : r \in Known'
<1>0. TypeOK /\ status \in [Rows -> RowStatuses] /\ slot \in [Slots -> SlotType] /\ OneRow
  BY DEF OneOrderInv, SentOnceInv, LockInv, TypeOK
<1>1. \/ Known' = Known
      \/ HoldInsert(s) /\ Known = {} /\ \A q, r \in Known' : q = r
  <2>1. CASE status' = status
    BY <2>1 DEF Known
  <2>2. ASSUME NEW r \in Known, NEW v \in RowStatuses \ {"none", "pending"},
               status' = [status EXCEPT ![r] = v]
        PROVE  Known' = Known
    BY <1>0, <2>2 DEF Known
  <2>3. CASE HoldInsert(s)
    <3>1. status' = [status EXCEPT ![FirstNone] = "pending"] /\ Known = {}
      BY <2>3, HeldFirstOnly DEF HoldInsert, FirstNone
    <3>2. \A r \in Known' : r = FirstNone
      BY <1>0, <3>1 DEF Known
    <3> QED BY <2>3, <3>1, <3>2
  <2> QED BY <2>1, <2>2, <2>3, RowsWritten
<1>2. Known' # {} => spent'.holds >= 1
  BY <1>0, <1>1, HoldsCount DEF OneRow
<1>3. \A q, r \in Known' : q = r
  BY <1>0, <1>1 DEF OneRow
<1>4. \A r \in Known : r \in Known'
  BY <1>1
<1>5. ASSUME NEW t \in Slots
      PROVE  /\ slot'[t].pc \notin {"shopify", "shopify_queued"}
             /\ slot'[t].pc \in {"status", "portal_cancel"} => slot'[t].row \in Known'
  <2>1. CASE slot'[t] = slot[t]
    BY <1>0, <1>4, <2>1 DEF OneRow
  <2>2. CASE t = s /\ (StatusRead(s) \/ PortalCancelRead(s))
    <3>1. courier.exists /\ slot'[s].row = courier.row /\ slot'[s].pc \in {"status", "portal_cancel"}
      BY <1>0, <2>2, StatusReads, PortalReads
    <3> QED BY <1>4, <2>2, <3>1 DEF OneOrderInv, SoldOnce
  <2>3. ~ShopifyNew(s) /\ ~ShopifyQueue(s)
    BY <1>0 DEF ShopifyNew, ShopifyQueue, Arrives, OneOrder, OneRow
  <2> QED BY <1>0, <2>1, <2>2, <2>3, WhereItGoes DEF GoesTo, Locking
<1> QED BY <1>2, <1>3, <1>4, <1>5 DEF OneRow

\* Off the courier: the row is confirmed with its Purchase, or booked without one.
LEMMA SoldOffCourier ==
    ASSUME OneOrder, OneOrderInv, NEW s \in Slots, StepOf(s), ~courier.exists
    PROVE  SoldOnce'
<1>0. /\ status \in [Rows -> RowStatuses] /\ SentOnceInv
      /\ out.purchases = IF With("confirmed") = {} THEN 0 ELSE 1
      /\ slot[s].pc \notin {"shopify_queued", "status", "portal_cancel"}
  BY DEF OneOrderInv, SentOnceInv, LockInv, TypeOK, SoldOnce, OneRow, AtWork
<1>1. CASE SaveBooked(s)
  <2> DEFINE r == slot[s].row
  <2>1. r \in With("pending")
    BY <1>1, LockedIsPending DEF SaveBooked, Locking
  <2>2. Known = {r} /\ r \in Rows /\ With("confirmed") = {}
    BY <2>1, PendingIsAlone
  <2>3. slot[s].mode # "already_booked"
    BY <1>0, <1>1 DEF SaveBooked, SentOnceInv, Consigned
  <2>4. /\ status' = [status EXCEPT ![r] = "courier_booked"] /\ out' = out
        /\ courier' = [NoCourier EXCEPT !.exists = TRUE, !.row = r]
    BY <1>1, <2>3 DEF SaveBooked
  <2> HIDE DEF r
  <2>5. courier'.exists /\ courier'.row = r /\ ~courier'.purchase_event_sent
    BY <2>4 DEF NoCourier
  <2>6. With("pending")' = {} /\ r \in Known'
    BY <1>0, <2>2, <2>4 DEF With, Known
  <2> QED BY <1>0, <2>2, <2>4, <2>5, <2>6 DEF SoldOnce
<1>2. CASE ~SaveBooked(s)
  <2>1. courier' = courier
    BY <1>0, <1>2, CourierWrites
    DEF StatusMoves, StatusDelivered, StatusDeliveredRejected, StatusDeliveredAgain,
        StatusUndone, PortalCancelSave, Reports
  <2>2. ASSUME status' = status, out'.purchases = out.purchases PROVE SoldOnce'
    BY <1>0, <2>1, <2>2 DEF SoldOnce, With
  <2>3. ASSUME NEW r \in Rows, NEW v \in {"pending", "cancelled", "expired"},
               Begun(r, v) \/ Decided(r, v), out'.purchases = out.purchases
        PROVE  SoldOnce'
    <3>1. With("confirmed")' = With("confirmed")
      BY <1>0, <2>3 DEF With, Begun, Decided
    <3> QED BY <1>0, <2>1, <2>3, <3>1 DEF SoldOnce
  <2>4. ASSUME NEW r \in Rows, Decided(r, "confirmed"), out'.purchases = out.purchases + 1
        PROVE  SoldOnce'
    <3>1. r \in With("pending")
      BY <2>4 DEF Decided, With
    <3>2. With("confirmed") = {}
      BY <3>1, PendingIsAlone
    <3>3. r \in With("confirmed")'
      BY <1>0, <2>4 DEF With, Decided
    <3> QED BY <1>0, <2>1, <2>4, <3>2, <3>3 DEF SoldOnce
  <2>5. ~ShopifySave(s)
    BY <1>0 DEF ShopifySave
  <2> QED BY <1>0, <1>2, <2>2, <2>3, <2>4, <2>5, OffCourier DEF OneOrder
<1> QED BY <1>1, <1>2

\* At the courier: a delivery queues the Purchase and sets its flag.
LEMMA SoldAtCourier ==
    ASSUME OneOrder, OneOrderInv, NEW s \in Slots, StepOf(s), courier.exists
    PROVE  SoldOnce'
<1>0. /\ status \in [Rows -> RowStatuses] /\ courier \in CourierType
      /\ out \in [booked: [Rows -> Nat], purchases: Nat, refunds: Nat]
      /\ With("pending") = {} /\ courier.row \in Known
      /\ out.purchases = IF courier.purchase_event_sent THEN 1 ELSE 0
      /\ slot[s].pc \notin {"holding", "reviving", "shopify", "shopify_queued"}
  BY DEF OneOrderInv, SentOnceInv, LockInv, TypeOK, SoldOnce, OneRow, HeldFirst
<1>1. With("pending")' = {}
  <2>1. CASE status' = status
    BY <1>0, <2>1 DEF With
  <2>2. CASE \E r \in Known, v \in RowStatuses \ {"none", "pending"} :
                status' = [status EXCEPT ![r] = v]
    BY <1>0, <2>2 DEF With
  <2> QED BY <2>1, <2>2, RowsWritten, HeldFirstOnly
<1>2. courier'.exists /\ courier'.row = courier.row /\
      (courier'.purchase_event_sent = courier.purchase_event_sent \/ StatusDelivered(s))
  <2>1. CASE StatusDelivered(s)
    BY <1>0, <2>1 DEF StatusDelivered, CourierType
  <2>2. CASE \E new : courier' = [courier EXCEPT !.status = new]
    BY <1>0, <2>2 DEF CourierType
  <2>3. CASE \E new : courier' = [courier EXCEPT !.status = new, !.refund_event_sent = TRUE]
    BY <1>0, <2>3 DEF CourierType
  <2> QED BY <2>1, <2>2, <2>3, CourierWrites
      DEF StatusMoves, StatusDeliveredRejected, StatusDeliveredAgain, StatusUndone, PortalCancelSave
<1>3. CASE StatusDelivered(s)
  <2>1. ~courier.purchase_event_sent
    BY <1>3 DEF StatusDelivered, Reports, OneOrderInv, RefundsOwed
  <2>2. courier'.purchase_event_sent = TRUE /\ out'.purchases = out.purchases + 1
    BY <1>0, <1>3 DEF StatusDelivered, CourierType
  <2> QED BY <1>0, <1>1, <1>2, <2>1, <2>2, OneRowStep DEF SoldOnce
<1>4. CASE ~StatusDelivered(s)
  <2>1. out'.purchases = out.purchases
    <3>1. CASE out' = out \/ (\E n : out' = [out EXCEPT !.booked[n] = @ + 1])
               \/ out' = [out EXCEPT !.refunds = @ + 1]
      BY <1>0, <3>1
    <3>2. slot[s].pc \notin Locking
      BY LockedIsPending
    <3>3. CASE HoldStep(s) \/ SweepStep(s)
      BY <1>0, <3>1, <3>3
      DEF HoldStep, HoldInsert, HoldConflict, HoldReadsPending, HoldReadsOther, HoldRevive,
          SweepStep, Cancel, AutoConfirm, AutoConfirmFails, Expire, OneOrder
    <3>4. CASE ConfirmStep(s)
      BY <1>0, <3>1, <3>2, <3>4
      DEF ConfirmStep, ConfirmLock, PendingLock, ShopifyNew, ShopifyQueue, ShopifyRejected,
          ShopifySave, Queue, QueueRejected, SaveConfirmed, Lock, Rollback, Locking
    <3>5. CASE BookingStep(s)
      BY <3>1, <3>5
      DEF BookingStep, PortalSendLock, Lock, BookDirect, BookExisting, BookSucceeds, BookRefused,
          BookUnanswered, SaveBooked, SaveCollides, CommitFails, Booked, Rollback
    <3>6. CASE CourierStep(s)
      BY <1>4, <3>1, <3>6
      DEF CourierStep, StatusRead, StatusMoves, StatusDeliveredRejected, StatusDeliveredAgain,
          StatusUndone, StatusFails, PortalCancelRead, PortalCancelRefused, PortalCancelSave,
          Rollback, OneOrder
    <3> QED BY <3>3, <3>4, <3>5, <3>6 DEF StepOf
  <2> QED BY <1>0, <1>1, <1>2, <1>4, <2>1, OneRowStep DEF SoldOnce
<1> QED BY <1>3, <1>4

LEMMA OneOrderNext == ASSUME OneOrder PROVE OneOrderInv /\ [Next]_vars => OneOrderInv'
<1> SUFFICES ASSUME OneOrderInv, [Next]_vars PROVE OneOrderInv'
  OBVIOUS
<1>1. SentOnceInv' /\ RefundsOwed'
  BY SentOnceNext, RefundsOwedNext DEF OneOrderInv, SentOnceInv, OneOrder, FailuresUndo
<1>2. CASE \E s \in Slots : StepOf(s)
  BY <1>1, <1>2, OneRowStep, SoldOffCourier, SoldAtCourier DEF OneOrderInv
<1>3. CASE UNCHANGED <<status, courier, slot, out, spent>>
  BY <1>1, <1>3 DEF OneOrderInv, OneRow, SoldOnce, Known, With
<1> QED BY <1>2, <1>3 DEF Next, StepOf, CourierReports, vars

\* Such an order's Purchase is queued once, whatever confirm, sweep, booking,
\* delivery and portal cancellation race for it.
THEOREM OnePurchase == ASSUME OneOrder PROVE Spec => []PurchaseOnce
<1>1. OneOrderInv => PurchaseOnce
  BY DEF OneOrderInv, SoldOnce, PurchaseOnce
<1> QED BY <1>1, OneOrderInit, OneOrderNext, PTL DEF Spec

\* Nor does the portal cancel it over what the courier reports, nor the quota
\* reject its Refund.
Undisturbed ==
    /\ \A s \in Slots : "portal_cancel" \notin Kinds[s]
    /\ ~QuotaMayReject

\* The Refund of a sold and cancelled order is queued, and of one that is flagged.
Refunded ==
    /\ CancelledIsRefunded
    /\ courier.refund_event_sent => out.refunds > 0
    /\ \A s \in Slots : slot[s].pc # "portal_cancel"

\* At the courier, a report that changes nothing there leaves the row alone, and so do the others.
LEMMA OnlyReportsWrite ==
    ASSUME OneOrder, Undisturbed, OneOrderInv, Refunded, NEW s \in Slots, StepOf(s),
           courier.exists, courier' = courier, ~StatusUndone(s)
    PROVE  status' = status
<1>0. courier \in CourierType
  BY DEF OneOrderInv, SentOnceInv, LockInv, TypeOK
<1>1. slot[s].pc \notin Locking /\ With("pending") = {} /\ ~HoldInsert(s)
      /\ slot[s].pc \notin {"holding", "reviving", "shopify", "shopify_queued", "portal_cancel"}
  BY LockedIsPending, HeldFirstOnly
  DEF OneOrderInv, SentOnceInv, HeldFirst, OneRow, SoldOnce, Refunded
<1>2. ASSUME StatusDelivered(s) PROVE FALSE
  <2>1. ~courier.purchase_event_sent
    BY <1>2 DEF StatusDelivered, Reports, OneOrderInv, RefundsOwed
  <2>2. courier'.purchase_event_sent = TRUE
    BY <1>0, <1>2 DEF StatusDelivered, CourierType
  <2> QED BY <2>1, <2>2
<1>3. CASE HoldStep(s) \/ SweepStep(s)
  BY <1>1, <1>3
  DEF HoldStep, HoldConflict, HoldReadsPending, HoldReadsOther, HoldRevive,
      SweepStep, Cancel, AutoConfirm, AutoConfirmFails, Expire
<1>4. CASE ConfirmStep(s)
  BY <1>1, <1>4
  DEF ConfirmStep, ConfirmLock, PendingLock, ShopifyNew, ShopifyQueue, ShopifyRejected,
      ShopifySave, Queue, QueueRejected, SaveConfirmed, Lock, Rollback, Locking
<1>5. CASE BookingStep(s)
  BY <1>1, <1>5
  DEF BookingStep, PortalSendLock, Lock, BookDirect, BookExisting, BookSucceeds,
      BookRefused, BookUnanswered, SaveBooked, SaveCollides, CommitFails, Booked,
      Rollback, Locking
<1>6. CASE CourierStep(s)
  BY <1>1, <1>2, <1>6
  DEF CourierStep, StatusRead, StatusMoves, StatusDeliveredRejected,
      StatusDeliveredAgain, StatusFails, PortalCancelRead, PortalCancelRefused,
      PortalCancelSave, Rollback, Reports
<1> QED BY <1>3, <1>4, <1>5, <1>6 DEF StepOf

LEMMA RefundedStep ==
    ASSUME OneOrder, Undisturbed, OneOrderInv, OneOrderInv', Refunded, NEW s \in Slots, StepOf(s)
    PROVE  Refunded'
<1>0. /\ status \in [Rows -> RowStatuses] /\ courier \in CourierType
      /\ slot \in [Slots -> SlotType] /\ TypeOK
      /\ out \in [booked: [Rows -> Nat], purchases: Nat, refunds: Nat]
  BY DEF OneOrderInv, SentOnceInv, LockInv, TypeOK
<1>1. \A t \in Slots : slot'[t].pc # "portal_cancel"
  <2>1. ~PortalCancelRead(s)
    BY DEF Undisturbed, PortalCancelRead, Arrives
  <2>2. StatusRead(s) => slot'[s].pc = "status"
    BY <1>0, StatusReads
  <2> QED BY <1>0, <2>1, <2>2, WhereItGoes DEF GoesTo, Refunded, Locking
<1>2. ASSUME ~courier'.exists, With("cancelled")' # {} PROVE out'.purchases = 0
  <2>1. With("confirmed")' = {}
    <3>1. \A q, r \in Known' : q = r
      BY DEF OneOrderInv, OneRow
    <3> QED BY <1>2, <3>1 DEF With, Known
  <2> QED BY <1>2, <2>1 DEF OneOrderInv, SoldOnce
<1>3. CASE courier' = courier /\ ~StatusUndone(s)
  <2>1. out'.refunds = out.refunds
    BY <1>3, QueuedEvents, <1>0 DEF OneOrder
  <2>2. CASE courier.exists
    <3>1. out'.purchases = out.purchases
      BY <1>3, <2>2 DEF OneOrderInv, SoldOnce
    <3>2. With("cancelled")' = With("cancelled")
      <4>1. status' = status
        BY <1>3, <2>2, OnlyReportsWrite
      <4> QED BY <4>1 DEF With
    <3> QED BY <1>1, <1>3, <2>1, <3>1, <3>2 DEF Refunded, CancelledIsRefunded
  <2>3. CASE ~courier.exists
    BY <1>1, <1>2, <1>3, <2>1, <2>3 DEF Refunded, CancelledIsRefunded
  <2> QED BY <2>2, <2>3
<1>4. CASE SaveBooked(s) /\ courier' # courier
  <2>1. /\ courier' = [NoCourier EXCEPT !.exists = TRUE, !.row = slot[s].row]
    BY <1>4 DEF SaveBooked
  <2>2. courier'.exists /\ ~courier'.purchase_event_sent /\ ~courier'.refund_event_sent
    BY <2>1 DEF NoCourier
  <2>3. out'.purchases = 0
    BY <2>2 DEF OneOrderInv, SoldOnce
  <2> QED BY <1>1, <2>2, <2>3 DEF Refunded, CancelledIsRefunded
<1>5. CASE StatusMoves(s) \/ StatusDeliveredAgain(s)
  <2>1. \E new : courier' = [courier EXCEPT !.status = new] /\ status' = status /\ out' = out
    BY <1>5 DEF StatusMoves, StatusDeliveredAgain
  <2>2. courier'.refund_event_sent = courier.refund_event_sent
    BY <1>0, <2>1 DEF CourierType
  <2> QED BY <1>1, <2>1, <2>2 DEF Refunded, CancelledIsRefunded, With
<1>6. CASE StatusDelivered(s)
  <2>1. slot[s].row \in Known /\ status' = [status EXCEPT ![slot[s].row] = "confirmed"]
    BY <1>6 DEF StatusDelivered, Reports, OneOrderInv, OneRow
  <2>2. With("cancelled")' = {}
    <3>1. Known = {slot[s].row}
      BY <2>1 DEF OneOrderInv, OneRow
    <3> QED BY <1>0, <2>1, <3>1 DEF With, Known
  <2>3. courier'.refund_event_sent = courier.refund_event_sent /\ out'.refunds = out.refunds
    BY <1>0, <1>6 DEF StatusDelivered, CourierType
  <2> QED BY <1>1, <2>2, <2>3 DEF Refunded, CancelledIsRefunded
<1>7. CASE StatusUndone(s)
  <2>1. /\ slot[s].seen.purchase_event_sent = courier.purchase_event_sent
        /\ slot[s].seen.refund_event_sent = courier.refund_event_sent
        /\ courier.exists
    BY <1>7 DEF StatusUndone, Reports, OneOrderInv, RefundsOwed
  <2>2. CASE /\ courier.purchase_event_sent /\ ~courier.refund_event_sent
             /\ out' = [out EXCEPT !.refunds = @ + 1]
    <3>1. out'.refunds > 0
      BY <1>0, <2>2
    <3> QED BY <1>1, <3>1 DEF Refunded, CancelledIsRefunded
  <2>3. CASE /\ courier.purchase_event_sent => courier.refund_event_sent
             /\ courier' = [courier EXCEPT !.status = slot[s].new] /\ out' = out
    <3>1. courier'.refund_event_sent = courier.refund_event_sent
      BY <1>0, <2>3 DEF CourierType
    <3>2. out.purchases = 0 \/ out.refunds > 0
      BY <2>1, <2>3 DEF OneOrderInv, SoldOnce, Refunded
    <3>3. (courier'.refund_event_sent => out'.refunds > 0) /\ (out'.purchases = 0 \/ out'.refunds > 0)
      BY <2>3, <3>1, <3>2 DEF Refunded
    <3> QED BY <1>1, <3>3 DEF Refunded, CancelledIsRefunded
  <2> QED BY <1>7, <2>1, <2>2, <2>3 DEF StatusUndone, Undisturbed
<1>8. ~PortalCancelSave(s) /\ ~StatusDeliveredRejected(s)
  BY DEF PortalCancelSave, StatusDeliveredRejected, Refunded, Undisturbed
<1> QED BY <1>3, <1>4, <1>5, <1>6, <1>7, <1>8, CourierWrites

\* Cancelled or returned after its Purchase, such an order has its Refund queued.
THEOREM CancellationsRefund ==
    ASSUME OneOrder, Undisturbed PROVE Spec => []CancelledIsRefunded
<1>1. Init => OneOrderInv /\ Refunded
  <2>1. Init => Refunded
    BY DEF Init, Refunded, CancelledIsRefunded, With, NoCourier, Idle
  <2> QED BY <2>1, OneOrderInit
<1>2. OneOrderInv /\ Refunded /\ [Next]_vars => OneOrderInv' /\ Refunded'
  <2> SUFFICES ASSUME OneOrderInv, Refunded, [Next]_vars PROVE OneOrderInv' /\ Refunded'
    OBVIOUS
  <2>1. OneOrderInv'
    BY OneOrderNext
  <2>2. CASE \E s \in Slots : StepOf(s)
    BY <2>1, <2>2, RefundedStep
  <2>3. CASE UNCHANGED <<status, courier, slot, out>>
    BY <2>1, <2>3 DEF Refunded, CancelledIsRefunded, With
  <2> QED BY <2>2, <2>3 DEF Next, StepOf, CourierReports, vars
<1>3. Refunded => CancelledIsRefunded
  BY DEF Refunded
<1> QED BY <1>1, <1>2, <1>3, PTL DEF Spec

=============================================================================
