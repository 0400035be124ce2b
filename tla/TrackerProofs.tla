--------------------------- MODULE TrackerProofs ---------------------------
(***************************************************************************)
(* Theorems about Tracker, for every set of tabs, products, variations and *)
(* shop settings and every bound.                                          *)
(***************************************************************************)
EXTENDS Tracker, FiniteSetTheorems, TLAPS

-----------------------------------------------------------------------------
(* Types.                                                                   *)

\* What is known of a shop.
LEMMA ShopFields ==
    ASSUME SendTypeOK
    PROVE  /\ shop \in ShopType
           /\ shop.tabs \subseteq Tabs /\ shop.goods \subseteq Products
           /\ shop.onePage \in BOOLEAN /\ shop.fetch \in BOOLEAN
BY TrackerAssumption DEF SendTypeOK, ShopType

\* An open page has a path to be remembered under.
LEMMA PathType ==
    ASSUME SendTypeOK, NEW t \in Tabs, Open(t)
    PROVE  /\ page[t] \in PageType
           /\ Path(t) \in Products \cup PageTypes
           /\ CfgProduct(t) \in Products \cup {None}
BY DEF SendTypeOK, Open, PageType, NoPage, PageTypes, Path, PathOf, CfgProduct

\* The calls a handler makes are calls.
LEMMA RequestOfType ==
    ASSUME SendTypeOK, NEW t \in Tabs, NEW ev \in EventNames, NEW n \in Nat, NEW id \in Int,
           NEW sync \in BOOLEAN
    PROVE  Request(t, ev, n, id, sync) \in RequestType
BY ShopFields DEF Request, RequestType, SendTypeOK

\* sendEvent for any event but InitiateCheckout
LEMMA SendEventsType ==
    ASSUME SendTypeOK, NEW t \in Tabs, NEW ev \in EventNames, NEW sync \in BOOLEAN,
           SendEvents(t, <<ev>>, sync)
    PROVE  requests' \in SUBSET RequestType /\ sends' \in Nat
<1>1. sends' \in Nat
  BY DEF SendEvents, SendTypeOK
<1>2. Requests(t, <<ev>>, sync) \subseteq RequestType
  <2> SUFFICES ASSUME NEW i \in 1..Len(<<ev>>)
               PROVE  Request(t, <<ev>>[i], sends + i, sends + i, sync) \in RequestType
    BY DEF Requests
  <2>1. i = 1 /\ <<ev>>[1] = ev /\ sends + 1 \in Nat
    BY DEF SendTypeOK
  <2> QED BY <2>1, RequestOfType
<1> QED BY <1>1, <1>2 DEF SendEvents, SendTypeOK

\* sendEvent for InitiateCheckout
LEMMA SendInitiateCheckoutType ==
    ASSUME SendTypeOK, NEW t \in Tabs, NEW sync \in BOOLEAN, SendInitiateCheckout(t, sync)
    PROVE  /\ requests' \in SUBSET RequestType /\ sends' \in Nat
           /\ jar' \in [Slots -> Int \cup {None}]
<1>1. PICK id \in IF Markers = {} THEN {sends + 1} ELSE Markers :
        /\ requests' = requests \cup {Request(t, "InitiateCheckout", sends + 1, id, sync)}
        /\ sends' = sends + 1
        /\ jar' = MarkSent("tracker", id)
  BY DEF SendInitiateCheckout
<1>2. id \in Int /\ sends + 1 \in Nat
  BY DEF Markers, SendTypeOK
<1>3. Request(t, "InitiateCheckout", sends + 1, id, sync) \in RequestType
  BY <1>2, RequestOfType DEF EventNames
<1> QED BY <1>1, <1>2, <1>3 DEF SendTypeOK, MarkSent, Slots, Slot

\* The network, the handlers and the clock keep the types.
LEMMA NetworkType ==
    ASSUME SendTypeOK, Network \/ MarkerExpires
    PROVE  SendTypeOK'
<1>1. CASE MarkerExpires
  BY <1>1 DEF MarkerExpires, SendTypeOK
<1>2. ASSUME NEW r \in requests, RelayRest(r) \/ RelayAjax(r) \/ Answer(r) \/ LoseAnswer(r)
      PROVE  SendTypeOK'
  <2>1. r \in RequestType
    BY DEF SendTypeOK
  <2>2. [r EXCEPT !.via = "ajax", !.relayed = FALSE] \in RequestType
    BY <2>1 DEF RequestType
  <2>3. AfterFailure(r) \subseteq RequestType
    BY <2>2 DEF AfterFailure, SendTypeOK
  <2>4. ASSUME NEW got \in BOOLEAN, NEW ok \in BOOLEAN, Handle(r, got, ok) PROVE SendTypeOK'
    <3>1. [r EXCEPT !.relayed = TRUE] \in RequestType
      BY <2>1 DEF RequestType
    <3>2. requests' \in SUBSET RequestType
      BY <2>3, <2>4, <3>1 DEF Handle, SendTypeOK
    <3>3. [id |-> r.id, attempt |-> r.attempt, from |-> "page"] \in Arrival
      BY <2>1 DEF RequestType, Arrival
    <3>4. arrived' \in SUBSET Arrival
      BY <2>4, <3>3 DEF Handle, SendTypeOK
    <3> QED BY <2>4, <3>2, <3>4 DEF Handle, SendTypeOK
  <2>5. CASE RelayRest(r) \/ RelayAjax(r)
    BY <2>4, <2>5 DEF RelayRest, RelayAjax
  <2>6. CASE Answer(r)
    <3>1. r.id \in Int
      BY <2>1 DEF RequestType
    <3>2. jar' \in [Slots -> Int \cup {None}] /\ late' \in SUBSET Int
      BY <2>6, <3>1 DEF Answer, MarkSent, Slot, Slots, SendTypeOK
    <3> QED BY <2>6, <3>2 DEF Answer, SendTypeOK
  <2>7. CASE LoseAnswer(r)
    BY <2>3, <2>7 DEF LoseAnswer, SendTypeOK
  <2> QED BY <1>2, <2>5, <2>6, <2>7
<1> QED BY <1>1, <1>2 DEF Network, Returns

-----------------------------------------------------------------------------
(* Types: the checkout.                                                     *)

\* The state of a checkout that has been reported
LEMMA SentType ==
    ASSUME NEW c \in CheckoutType PROVE Sent(c) \in CheckoutType
<1>1. 0 \in 0..2
  OBVIOUS
<1> QED BY <1>1, Zenon DEF Sent, CheckoutType

\* What the three ways to end a handler do to the types.
LEMMA ReportType ==
    ASSUME SendTypeOK, CheckoutTypeOK, NEW t \in Tabs, CheckoutStep(t),
           NEW c \in CheckoutType, NEW sync \in BOOLEAN, NEW force \in BOOLEAN,
           Keep(t, c) \/ SendOnce(t, c, sync) \/ SendWhenReady(t, c, force, sync)
    PROVE  SendTypeOK' /\ CheckoutTypeOK'
<1> SUFFICES ASSUME Keep(t, c) \/ SendOnce(t, c, sync) PROVE SendTypeOK' /\ CheckoutTypeOK'
  BY DEF SendWhenReady
<1>1. CASE Keep(t, c)
  BY <1>1 DEF Keep, CheckoutStep, SendTypeOK, CheckoutTypeOK
<1>2. CASE ck' = [ck EXCEPT ![t] = Sent(c)] /\ SendInitiateCheckout(t, sync)
  <2>1. ck' \in [Tabs -> CheckoutType]
    BY <1>2, SentType DEF CheckoutTypeOK
  <2> QED BY <1>2, <2>1, SendInitiateCheckoutType DEF CheckoutStep, SendTypeOK, CheckoutTypeOK
<1> QED BY <1>1, <1>2 DEF SendOnce

\* Every handler and timer of the checkout keeps the types.
LEMMA CheckoutActsType ==
    ASSUME SendTypeOK, CheckoutTypeOK, NEW t \in Tabs, CheckoutActs(t)
    PROVE  SendTypeOK' /\ CheckoutTypeOK'
<1> ck[t] \in CheckoutType
  BY DEF CheckoutTypeOK
<1> HasCartData(t) \in BOOLEAN /\ ChecksSurface(page[t], ck[t].surface) \in BOOLEAN
  BY DEF HasCartData, ChecksSurface, CheckoutType, Flow, IsCheckoutFlow
<1>0. CheckoutStep(t)
  BY DEF CheckoutActs, BindAgain, SurfaceCheck, DomChanges, DebounceEnds, FieldInput,
         CheckoutButton, SubmitCheckout, WooEvent, IdentifyBlur
<1>1. CASE BindAgain(t)
  <2> DEFINE due == ck[t].checks \/ ChecksSurface(page[t], ck[t].surface)
             c == [ck[t] EXCEPT !.binds = @ - 1, !.checks = due]
  <2>1. due \in BOOLEAN /\ ck[t].binds - 1 \in 0..2
    BY <1>1 DEF BindAgain, CheckoutType
  <2>2. Keep(t, c)
    BY <1>1 DEF BindAgain
  <2> HIDE DEF due
  <2>3. c \in CheckoutType
    BY <2>1 DEF CheckoutType
  <2> HIDE DEF c
  <2> QED BY <1>0, <2>2, <2>3, ReportType
<1>2. ASSUME NEW c \in CheckoutType, SendOnSurface(t, c) PROVE SendTypeOK' /\ CheckoutTypeOK'
  BY <1>0, <1>2, ReportType DEF SendOnSurface
<1>3. CASE SurfaceCheck(t)
  <2>1. ASSUME NEW last \in BOOLEAN PROVE [ck[t] EXCEPT !.checks = ~last] \in CheckoutType
    BY DEF CheckoutType
  <2> QED BY <1>2, <1>3, <2>1 DEF SurfaceCheck
<1>4. CASE DomChanges(t)
  <2>1. PICK surface \in BOOLEAN :
          LET c == [ck[t] EXCEPT !.surface = surface]
          IN Keep(t, IF ~c.watching THEN c ELSE [c EXCEPT !.debounce = TRUE])
    BY <1>4 DEF DomChanges
  <2> DEFINE c == [ck[t] EXCEPT !.surface = surface]
             d == IF ~c.watching THEN c ELSE [c EXCEPT !.debounce = TRUE]
  <2>2. c \in CheckoutType
    BY DEF CheckoutType
  <2>3. [c EXCEPT !.debounce = TRUE] \in CheckoutType
    BY <2>2 DEF CheckoutType
  <2>4. d \in CheckoutType /\ Keep(t, d)
    BY <2>1, <2>2, <2>3
  <2> HIDE DEF d
  <2> QED BY <1>0, <2>4, ReportType
<1>5. CASE DebounceEnds(t)
  <2>1. [ck[t] EXCEPT !.debounce = FALSE] \in CheckoutType
    BY DEF CheckoutType
  <2> QED BY <1>0, <1>2, <1>5, <2>1, ReportType DEF DebounceEnds
<1>6. Touched(t) \in CheckoutType
  BY DEF Touched, CheckoutType
<1>7. CASE FieldInput(t) \/ CheckoutButton(t) \/ SubmitCheckout(t) \/ WooEvent(t)
  BY <1>0, <1>6, <1>7, ReportType DEF FieldInput, CheckoutButton, SubmitCheckout, WooEvent
<1>8. CASE IdentifyBlur(t)
  BY <1>8, SendEventsType DEF IdentifyBlur, CheckoutStep, EventNames, SendTypeOK, CheckoutTypeOK
<1> QED
  BY <1>1, <1>3, <1>4, <1>5, <1>7, <1>8 DEF CheckoutActs

\* A marker the order hooks read
LEMMA SnapshotType == SendTypeOK => Snapshot \subseteq Int \cup {None}
BY DEF SendTypeOK, Snapshot, Markers

\* The fallback keeps the types of the order and of what arrived.
LEMMA FallbackType ==
    ASSUME SendTypeOK, NEW o \in OrderType, NEW marker \in Int \cup {None}, Fallback(o, marker)
    PROVE  order' \in OrderType /\ arrived' \in SUBSET Arrival
<1>1. CASE order' = o /\ UNCHANGED arrived
  BY <1>1 DEF SendTypeOK
<1>2. ASSUME NEW got \in BOOLEAN, NEW ok \in BOOLEAN,
             order' = [o EXCEPT !.sent = ok, !.refused = @ \/ ~ok],
             arrived' = arrived \cup
               {[id |-> i[1], attempt |-> o.attempt, from |-> i[2]] :
                    i \in IF got THEN {FallbackId(o, marker)} ELSE {}}
      PROVE  order' \in OrderType /\ arrived' \in SUBSET Arrival
  <2>1. order' \in OrderType
    BY <1>2 DEF OrderType
  <2>2. FallbackId(o, marker)[1] \in Int /\ FallbackId(o, marker)[2] \in {"snapshot", "cookie", "order"}
    BY DEF FallbackId, OrderType
  <2>3. [id |-> FallbackId(o, marker)[1], attempt |-> o.attempt, from |-> FallbackId(o, marker)[2]] \in Arrival
    BY <2>2 DEF Arrival, OrderType
  <2>4. arrived' \in SUBSET Arrival
    BY <1>2, <2>3 DEF SendTypeOK
  <2> QED BY <2>1, <2>4
<1> QED BY <1>1, <1>2 DEF Fallback

\* An order that is new
LEMMA NewOrderType == CheckoutTypeOK => NoOrder(order.no + 1) \in OrderType
BY DEF NoOrder, OrderType, CheckoutTypeOK

\* The order hooks keep the types.
LEMMA OrderActsType ==
    ASSUME SendTypeOK, CheckoutTypeOK, NEW t \in Tabs, DraftOrder(t) \/ PlaceOrder(t)
    PROVE  SendTypeOK' /\ CheckoutTypeOK'
<1>1. CASE DraftOrder(t)
  <2>1. PICK snap \in Snapshot :
          order' = [NoOrder(order.no + 1) EXCEPT !.stage = "draft", !.snap = snap]
    BY <1>1 DEF DraftOrder
  <2>2. order' \in OrderType
    BY <2>1, NewOrderType, SnapshotType DEF OrderType
  <2> QED BY <1>1, <2>2 DEF DraftOrder, sendVars, SendTypeOK, CheckoutTypeOK
<1>2. CASE PlaceOrder(t)
  <2>1. PICK snap \in Snapshot :
          LET o == [(IF shop.blocks THEN order ELSE [NoOrder(order.no + 1) EXCEPT !.snap = snap])
                    EXCEPT !.stage = "processed", !.attempt = attempt, !.tab = t]
          IN IF shop.blocks THEN order' = o /\ UNCHANGED arrived ELSE Fallback(o, snap)
    BY <1>2 DEF PlaceOrder
  <2> DEFINE q == IF shop.blocks THEN order ELSE [NoOrder(order.no + 1) EXCEPT !.snap = snap]
             o == [q EXCEPT !.stage = "processed", !.attempt = attempt, !.tab = t]
  <2>2. q \in OrderType
    BY NewOrderType, SnapshotType DEF OrderType, CheckoutTypeOK
  <2>3. o \in OrderType
    BY <2>2 DEF OrderType, SendTypeOK
  <2>4. (order' = o /\ UNCHANGED arrived) \/ Fallback(o, snap)
    BY <2>1
  <2> HIDE DEF o
  <2>5. order' \in OrderType /\ arrived' \in SUBSET Arrival
    BY <2>3, <2>4, SnapshotType, FallbackType DEF SendTypeOK
  <2> QED BY <1>2, <2>5 DEF PlaceOrder, SendTypeOK, CheckoutTypeOK
<1> QED BY <1>1, <1>2

\* So does the answer to the order.
LEMMA OrderAnsweredType ==
    ASSUME SendTypeOK, CheckoutTypeOK, OrderAnswered
    PROVE  SendTypeOK' /\ CheckoutTypeOK'
<1>1. order' \in OrderType
  BY DEF OrderAnswered, CheckoutTypeOK, OrderType
<1>2. jar' \in [Slots -> Int \cup {None}]
  BY DEF OrderAnswered, ClearMarkers, Slot, Slots, SendTypeOK
<1> QED BY <1>1, <1>2 DEF OrderAnswered, SendTypeOK, CheckoutTypeOK

-----------------------------------------------------------------------------
(* Types: the other handlers.                                               *)

\* What a step of such a handler leaves alone keeps its type.
LEMMA ShopStepType ==
    ASSUME SendTypeOK, NEW t \in Tabs, UNCHANGED <<shop, page, arrived, late, lapsed>>,
           once' \in [Tabs -> SUBSET Key], jar' \in [Slots -> Int \cup {None}],
           requests' \in SUBSET RequestType, sends' \in Nat, attempt' \in Nat
    PROVE  SendTypeOK'
BY DEF SendTypeOK

\* A handler that changes nothing but its own flags
LEMMA QuietType ==
    ASSUME SendTypeOK, UNCHANGED <<shop, page, arrived, late, lapsed>>, Quiet
    PROVE  SendTypeOK'
BY DEF SendTypeOK, Quiet

\* The two ways to send once
LEMMA SendUnlessRememberedType ==
    ASSUME SendTypeOK, NEW t \in Tabs, NEW k \in Key, NEW ev \in EventNames,
           UNCHANGED <<shop, page, arrived, late, lapsed>>, SendUnlessRemembered(t, k, ev)
    PROVE  SendTypeOK'
<1>1. CASE Remembers(t, k)
  BY <1>1 DEF SendUnlessRemembered, SendTypeOK
<1>2. CASE ~Remembers(t, k)
  <2>1. once' \in [Tabs -> SUBSET Key]
    BY <1>2 DEF SendUnlessRemembered, Remember, SendTypeOK
  <2> QED BY <1>2, <2>1, SendEventsType DEF SendUnlessRemembered, SendTypeOK
<1> QED BY <1>1, <1>2

LEMMA ReportAddType ==
    ASSUME SendTypeOK, NEW t \in Tabs, NEW k \in Key,
           UNCHANGED <<shop, page, arrived, late, lapsed>>, ReportAdd(t, k)
    PROVE  SendTypeOK'
<1>1. CASE Remembers(t, k)
  BY <1>1, QuietType DEF ReportAdd
<1>2. CASE ~Remembers(t, k)
  <2>1. once' \in [Tabs -> SUBSET Key]
    BY <1>2 DEF ReportAdd, Remember, SendTypeOK
  <2>2. jar' \in [Slots -> Int \cup {None}] /\ attempt' \in Nat
    BY <1>2 DEF ReportAdd, ClearMarkers, Slot, Slots, SendTypeOK
  <2> QED BY <1>2, <2>1, <2>2, SendEventsType DEF ReportAdd, SendTypeOK, EventNames
<1> QED BY <1>1, <1>2

\* Every key a handler asks eventOnce for is a key.
LEMMA KeyTypes ==
    ASSUME SendTypeOK, NEW t \in Tabs, Open(t)
    PROVE  /\ \A p \in Products \cup {None} : ViewKey(t, p) \in Key
           /\ \A id \in Products \cup Variations \cup {None} : AddKey(t, id) \in Key
           /\ \A v \in Variations :
                 [name |-> "ViewContentVar", item |-> v, path |-> Path(t)] \in Key
           /\ \A p \in Products : [name |-> "AddToCartIntent", item |-> p, path |-> Path(t)] \in Key
BY PathType DEF ViewKey, AddKey, Key

\* ViewContent keeps the types.
LEMMA ViewsType ==
    ASSUME SendTypeOK, ShopTypeOK, NEW t \in Tabs, NEW p \in shop.goods,
           EntersView(t, p) \/ LeavesView(t, p) \/ DwellElapses(t, p)
    PROVE  SendTypeOK' /\ ShopTypeOK'
<1> p \in Products /\ view[t] \in ViewType
  BY ShopFields DEF ShopTypeOK
<1>0. UNCHANGED <<shop, page, arrived, late, lapsed, cart>> /\ Open(t)
  BY DEF EntersView, LeavesView, DwellElapses, ShopStep, Reports
<1>1. CASE EntersView(t, p)
  <2>1. view'[t] \in ViewType
    BY <1>1 DEF EntersView, ShopTypeOK, ViewType
  <2>2. view' \in [Tabs -> ViewType]
    BY <1>1, <2>1 DEF EntersView, ShopTypeOK
  <2> QED BY <1>0, <1>1, <2>2, QuietType DEF EntersView, ShopTypeOK
<1>2. CASE LeavesView(t, p)
  <2>1. view'[t] \in ViewType
    BY <1>2 DEF LeavesView, ShopTypeOK, ViewType
  <2>2. view' \in [Tabs -> ViewType]
    BY <1>2, <2>1 DEF LeavesView, ShopTypeOK
  <2> QED BY <1>0, <1>2, <2>2, QuietType DEF LeavesView, ShopTypeOK
<1>3. CASE DwellElapses(t, p)
  <2>1. view'[t] \in ViewType
    BY <1>3 DEF DwellElapses, ShopTypeOK, ViewType
  <2>2. view' \in [Tabs -> ViewType]
    BY <1>3, <2>1 DEF DwellElapses, ShopTypeOK
  <2>3. SendTypeOK'
    BY <1>0, <1>3, KeyTypes, SendUnlessRememberedType DEF DwellElapses, EventNames
  <2> QED BY <1>0, <2>2, <2>3 DEF ShopTypeOK
<1> QED BY <1>1, <1>2, <1>3

\* So does the timer of a product page with nothing to observe.
LEMMA ViewTimerType ==
    ASSUME SendTypeOK, ShopTypeOK, NEW t \in Tabs, ViewTimer(t)
    PROVE  SendTypeOK' /\ ShopTypeOK'
<1>0. UNCHANGED <<shop, page, arrived, late, lapsed, cart>> /\ Open(t)
  BY DEF ViewTimer, ShopStep, Reports
<1>1. view' \in [Tabs -> ViewType]
  BY DEF ViewTimer, ShopTypeOK, ViewType
<1>2. page[t].product \in Products \cup {None}
  BY <1>0, PathType DEF PageType
<1>3. SendTypeOK'
  BY <1>0, <1>2, KeyTypes, SendUnlessRememberedType DEF ViewTimer, EventNames
<1> QED BY <1>0, <1>1, <1>3 DEF ShopTypeOK

\* Writing one field of a cart keeps its type.
LEMMA CartFields ==
    ASSUME NEW c \in CartType
    PROVE  /\ \A v \in Variations \cup {None}, a \in AddType \cup {None} :
                 [c EXCEPT !.variation = v, !.adding = a] \in CartType
           /\ \A a \in AddType \cup {None} : [c EXCEPT !.adding = a] \in CartType
           /\ \A x \in {"no", "confirmed", "silent"}, n \in Nat :
                 [c EXCEPT !.clicked = x, !.answers = n] \in CartType
           /\ \A x \in {"no", "confirmed", "silent"} : [c EXCEPT !.clicked = x] \in CartType
           /\ \A n \in Nat : [c EXCEPT !.answers = n] \in CartType
           /\ \A n \in Nat : [c EXCEPT !.missed = n] \in CartType
           /\ [c EXCEPT !.paid = TRUE] \in CartType
BY DEF CartType

\* Undoing what the click reported an add under keeps the type of the add.
LEMMA AddUndone ==
    ASSUME NEW a \in AddType PROVE [a EXCEPT !.key = None] \in AddType
BY DEF AddType

\* A tab's cart, written as a whole
LEMMA CartWritten ==
    ASSUME ShopTypeOK, NEW t \in Tabs, NEW c \in CartType, cart' = [cart EXCEPT ![t] = c],
           UNCHANGED view
    PROVE  ShopTypeOK'
BY DEF ShopTypeOK

\* The product an add is reported under
LEMMA IdTypes ==
    ASSUME SendTypeOK, ShopTypeOK, NEW t \in Tabs, Open(t), NEW p \in Products
    PROVE  /\ \A kind \in {"single", "loop", "link"} :
                 ClickedId(t, kind, p) \in Products \cup Variations \cup {None}
           /\ ConfirmedId(t, p) \in Products \cup Variations
BY PathType DEF ClickedId, ConfirmedId, ShopTypeOK, CartType

\* Choosing a variation keeps the types.
LEMMA SelectVariationType ==
    ASSUME SendTypeOK, ShopTypeOK, NEW t \in Tabs, SelectVariation(t)
    PROVE  SendTypeOK' /\ ShopTypeOK'
<1>1. PICK v \in Variations \cup {None} :
        /\ cart' = [cart EXCEPT ![t].variation = v,
                                ![t].adding = IF @ = None THEN None ELSE [@ EXCEPT !.key = None]]
        /\ IF v = None \/ ~Enabled("ViewContent") THEN Quiet
           ELSE SendUnlessRemembered(t,
                    [name |-> "ViewContentVar", item |-> v, path |-> Path(t)], "ViewContent")
  BY DEF SelectVariation
<1>2. UNCHANGED <<shop, page, arrived, late, lapsed, view>> /\ Open(t)
  BY DEF SelectVariation
<1>3. SendTypeOK'
  BY <1>1, <1>2, KeyTypes, QuietType, SendUnlessRememberedType DEF EventNames
<1>4. ShopTypeOK'
  <2> DEFINE a == IF cart[t].adding = None THEN None ELSE [cart[t].adding EXCEPT !.key = None]
             c == [cart[t] EXCEPT !.variation = v, !.adding = a]
  <2>1. cart[t] \in CartType
    BY DEF ShopTypeOK
  <2>2. a \in AddType \cup {None}
    BY <2>1, AddUndone DEF CartType
  <2>3. cart' = [cart EXCEPT ![t] = c]
    BY <1>1 DEF ShopTypeOK
  <2> HIDE DEF a
  <2>4. c \in CartType
    BY <2>1, <2>2, CartFields
  <2> HIDE DEF c
  <2> QED BY <1>2, <2>3, <2>4, CartWritten
<1> QED BY <1>3, <1>4

\* A click that adds keeps the types.
LEMMA AddsType ==
    ASSUME SendTypeOK, ShopTypeOK, NEW t \in Tabs, NEW p \in shop.goods,
           NEW kind \in {"single", "loop", "link"},
           ClickAdd(t, kind, p) \/ LandingCta(t, p)
    PROVE  SendTypeOK' /\ ShopTypeOK'
<1> p \in Products /\ cart[t] \in CartType
  BY ShopFields DEF ShopTypeOK
<1>0. UNCHANGED <<shop, page, arrived, late, lapsed, view>> /\ Open(t)
  BY DEF ClickAdd, LandingCta, ShopStep, Reports, shopVars
<1>1. CASE ClickAdd(t, kind, p)
  <2> DEFINE id == ClickedId(t, kind, p)
             reported == kind # "loop" /\ id # None
             chosen == page[t].product \in Variable => cart[t].variation # None
             adds == kind = "loop" \/ (kind = "single" /\ chosen)
             a == IF ~adds THEN None
                  ELSE [product |-> p, key |-> IF reported THEN AddKey(t, id) ELSE None]
  <2>1. /\ IF reported THEN ReportAdd(t, AddKey(t, id)) ELSE Quiet
        /\ cart' = [cart EXCEPT ![t].adding = a]
    BY <1>1 DEF ClickAdd
  <2>2. AddKey(t, id) \in Key
    BY <1>0, IdTypes, KeyTypes
  <2>3. a \in AddType \cup {None}
    BY <2>2 DEF AddType
  <2> HIDE DEF a, reported, id
  <2>4. SendTypeOK'
    BY <1>0, <2>1, <2>2, QuietType, ReportAddType
  <2>5. [cart[t] EXCEPT !.adding = a] \in CartType
    BY <2>3, CartFields
  <2>6. cart' = [cart EXCEPT ![t] = [cart[t] EXCEPT !.adding = a]]
    BY <2>1 DEF ShopTypeOK
  <2> QED BY <1>0, <2>4, <2>5, <2>6, CartWritten
<1>2. CASE LandingCta(t, p)
  BY <1>0, <1>2, KeyTypes, ReportAddType DEF LandingCta, shopVars, ShopTypeOK
<1> QED BY <1>1, <1>2

\* So does its answer.
LEMMA AddAnsweredType ==
    ASSUME SendTypeOK, ShopTypeOK, NEW t \in Tabs, AddedToCart(t) \/ AddFails(t)
    PROVE  SendTypeOK' /\ ShopTypeOK'
<1>1. UNCHANGED <<shop, page, arrived, late, lapsed, view>> /\ Open(t)
  BY DEF AddedToCart, AddFails, ShopStep, Reports
<1>2. cart' = [cart EXCEPT ![t] = [cart[t] EXCEPT !.adding = None]]
  BY DEF AddedToCart, AddFails, ShopTypeOK
<1>3. cart[t] \in CartType
  BY DEF ShopTypeOK
<1>4. ShopTypeOK'
  BY <1>1, <1>2, <1>3, CartFields, CartWritten
<1>5. CASE AddedToCart(t)
  <2>1. cart[t].adding \in AddType
    BY <1>3, <1>5 DEF AddedToCart, CartType
  <2>2. AddKey(t, ConfirmedId(t, cart[t].adding.product)) \in Key
    BY <1>1, <2>1, IdTypes, KeyTypes DEF AddType
  <2> QED BY <1>1, <1>4, <1>5, <2>2, ReportAddType DEF AddedToCart
<1>6. CASE AddFails(t)
  BY <1>1, <1>4, <1>6, QuietType DEF AddFails
<1> QED BY <1>5, <1>6

\* Forgetting a key keeps the types.
LEMMA OnceExpiresType ==
    ASSUME SendTypeOK, ShopTypeOK, NEW t \in Tabs, NEW k \in once[t], OnceExpires(t, k)
    PROVE  SendTypeOK' /\ ShopTypeOK'
<1>1. SendTypeOK'
  BY DEF OnceExpires, SendTypeOK
<1>2. CASE cart[t].adding # None /\ cart[t].adding.key = k
  <2> DEFINE c == [cart[t] EXCEPT !.adding = [cart[t].adding EXCEPT !.key = None]]
  <2>1. cart[t] \in CartType
    BY DEF ShopTypeOK
  <2>2. cart[t].adding \in AddType
    BY <1>2, <2>1 DEF CartType
  <2>3. c \in CartType
    BY <2>1, <2>2, AddUndone, CartFields
  <2>4. cart' = [cart EXCEPT ![t] = c]
    BY <1>2 DEF OnceExpires, ShopTypeOK
  <2> HIDE DEF c
  <2> QED BY <1>1, <2>3, <2>4, CartWritten DEF OnceExpires
<1>3. CASE ~(cart[t].adding # None /\ cart[t].adding.key = k)
  BY <1>1, <1>3 DEF OnceExpires, ShopTypeOK
<1> QED BY <1>2, <1>3

\* What a step of the removal handlers makes of the tab's cart, whatever it sends.
RemovalStep(t) ==
    \/ /\ cart[t].clicked = "no"
       /\ \/ cart'[t] = [cart[t] EXCEPT !.clicked = "confirmed", !.answers = @ + 1]
          \/ cart'[t] = [cart[t] EXCEPT !.clicked = "silent"]
    \/ /\ cart[t].clicked # "no"
       /\ cart'[t] = [cart[t] EXCEPT !.clicked = "no", !.flag = FALSE,
                          !.missed = IF Misses(t) THEN @ + 1 ELSE @]
    \/ /\ cart[t].answers > 0
       /\ cart'[t] = [cart[t] EXCEPT !.answers = @ - 1, !.flag = TRUE, !.told = @ + 1]
    \/ /\ cart[t].answers > 0
       /\ cart'[t] = [cart[t] EXCEPT !.answers = @ - 1]

LEMMA RemovalSteps ==
    ASSUME ShopTypeOK, NEW t \in Tabs,
           ClickRemove(t) \/ RemoveTimer(t) \/ RemovedFromCart(t) \/ RemoveFails(t)
    PROVE  /\ RemovalStep(t)
           /\ cart' = [cart EXCEPT ![t] = cart'[t]]
<1> cart[t] \in CartType /\ cart \in [Tabs -> CartType]
  BY DEF ShopTypeOK
<1>1. CASE ClickRemove(t)
  BY <1>1 DEF ClickRemove, RemovalStep
<1>2. CASE RemoveTimer(t)
  BY <1>2 DEF RemoveTimer, RemovalStep
<1>3. CASE RemovedFromCart(t)
  BY <1>3 DEF RemovedFromCart, RemovalStep
<1>4. CASE RemoveFails(t)
  BY <1>4 DEF RemoveFails, RemovalStep
<1> QED BY <1>1, <1>2, <1>3, <1>4

LEMMA RemovalStepType ==
    ASSUME ShopTypeOK, NEW t \in Tabs, RemovalStep(t)
    PROVE  cart'[t] \in CartType
<1> cart[t] \in CartType
  BY DEF ShopTypeOK
<1> DEFINE missed == IF Misses(t) THEN cart[t].missed + 1 ELSE cart[t].missed
<1>1. /\ missed \in Nat /\ cart[t].told + 1 \in Nat
      /\ cart[t].answers > 0 => cart[t].answers - 1 \in Nat
  BY DEF CartType
<1> HIDE DEF missed
<1>2. [cart[t] EXCEPT !.clicked = "no", !.flag = FALSE, !.missed = missed] \in CartType
  BY <1>1, Zenon DEF CartType
<1>3. ASSUME cart[t].answers > 0
      PROVE  [cart[t] EXCEPT !.answers = cart[t].answers - 1, !.flag = TRUE,
                 !.told = cart[t].told + 1] \in CartType
  BY <1>1, <1>3, Zenon DEF CartType
<1>4. cart[t].answers + 1 \in Nat
  BY DEF CartType
<1>5. /\ [cart[t] EXCEPT !.clicked = "confirmed", !.answers = cart[t].answers + 1] \in CartType
      /\ [cart[t] EXCEPT !.clicked = "silent"] \in CartType
      /\ cart[t].answers > 0 => [cart[t] EXCEPT !.answers = cart[t].answers - 1] \in CartType
  BY <1>1, <1>4, CartFields
<1> QED BY <1>2, <1>3, <1>5 DEF RemovalStep, missed

\* Removals, payment and forms keep the types.
LEMMA RemovalsType ==
    ASSUME SendTypeOK, ShopTypeOK, NEW t \in Tabs,
           \/ ClickRemove(t) \/ RemoveTimer(t) \/ RemovedFromCart(t) \/ RemoveFails(t)
           \/ PaymentChosen(t) \/ FormSubmitted(t)
    PROVE  SendTypeOK' /\ ShopTypeOK'
<1> cart[t] \in CartType
  BY DEF ShopTypeOK
<1>0. UNCHANGED <<shop, page, arrived, late, lapsed, view>>
  BY DEF ClickRemove, RemoveTimer, RemovedFromCart, RemoveFails, PaymentChosen, FormSubmitted,
         ShopStep, shopVars
<1>1. CASE ClickRemove(t) \/ RemoveTimer(t) \/ RemovedFromCart(t) \/ RemoveFails(t)
  <2>1. SendTypeOK'
    <3>1. CASE Quiet
      BY <1>0, <3>1, QuietType
    <3>2. CASE UNCHANGED <<once, jar, attempt, requests, sends>>
      BY <1>0, <3>2, QuietType DEF Quiet
    <3>3. ASSUME NEW sync \in BOOLEAN, SendEvents(t, <<"RemoveFromCart">>, sync),
                 UNCHANGED <<once, jar, attempt>>
          PROVE  SendTypeOK'
      BY <1>0, <3>3, SendEventsType DEF SendTypeOK, EventNames
    <3> QED BY <1>1, <3>1, <3>2, <3>3 DEF ClickRemove, RemoveTimer, RemovedFromCart, RemoveFails
  <2>2. cart'[t] \in CartType /\ cart' = [cart EXCEPT ![t] = cart'[t]]
    BY <1>1, RemovalSteps, RemovalStepType
  <2> QED BY <1>0, <2>1, <2>2 DEF ShopTypeOK
<1>2. CASE PaymentChosen(t)
  <2>1. SendTypeOK'
    BY <1>0, <1>2, SendEventsType DEF PaymentChosen, SendTypeOK, EventNames
  <2>2. cart' = [cart EXCEPT ![t] = [cart[t] EXCEPT !.paid = TRUE]]
    BY <1>2 DEF PaymentChosen, ShopTypeOK
  <2> QED BY <1>0, <2>1, <2>2, CartFields, CartWritten
<1>3. CASE FormSubmitted(t)
  BY <1>0, <1>3, SendEventsType DEF FormSubmitted, shopVars, SendTypeOK, ShopTypeOK, EventNames
<1> QED BY <1>1, <1>2, <1>3

-----------------------------------------------------------------------------
(* Types: pages come and go.                                                *)

\* Pages a visitor may open are pages.
LEMMA PagesType == Pages \subseteq PageType
BY DEF Pages

\* What a page does while it loads keeps the types.
LEMMA ScriptType ==
    ASSUME TypeOK, NEW t \in Tabs, NEW p \in PageType, NEW surface \in BOOLEAN,
           Script(t, p, surface)
    PROVE  /\ page' \in [Tabs -> PageType \cup {NoPage}]
           /\ once' \in [Tabs -> SUBSET Key]
           /\ requests' \in SUBSET RequestType
           /\ sends' \in Nat /\ sends <= sends'
           /\ ck' \in [Tabs -> CheckoutType]
           /\ ShopTypeOK'
<1> DEFINE remembered == IF shop.storage THEN once[t] ELSE {}
           evs == LoadEvents(p, remembered)
<1>0. SendTypeOK /\ CheckoutTypeOK /\ ShopTypeOK
  BY DEF TypeOK
<1>1. page' \in [Tabs -> PageType \cup {NoPage}]
  BY <1>0 DEF Script, SendTypeOK
<1>2. once' \in [Tabs -> SUBSET Key]
  <2>1. PathOf(p) \in Products \cup PageTypes /\ p.product \in Products \cup {None}
    BY DEF PathOf, PageType
  <2>2. \A ev \in evs : LoadKey(ev, p) \subseteq Key
    BY <2>1 DEF LoadKey, Key
  <2>3. once' = [once EXCEPT ![t] = remembered \cup UNION {LoadKey(ev, p) : ev \in evs}]
    BY DEF Script
  <2>4. remembered \subseteq Key
    BY <1>0 DEF SendTypeOK
  <2> HIDE DEF evs, remembered
  <2> QED BY <1>0, <2>2, <2>3, <2>4 DEF SendTypeOK
<1>3. requests' \in SUBSET RequestType
  <2>1. \A r \in requests : r \in RequestType /\ [r EXCEPT !.tab = None] \in RequestType
    BY <1>0 DEF SendTypeOK, RequestType
  <2> QED BY <2>1 DEF Script, Orphaned
<1>4. sends' \in Nat /\ sends <= sends'
  <2>1. IsFiniteSet({"PageView", "ViewContent", "ViewCart", "Search"})
    <3>1. IsFiniteSet({"PageView"}) /\ IsFiniteSet({"ViewContent"})
          /\ IsFiniteSet({"ViewCart"}) /\ IsFiniteSet({"Search"})
      BY FS_Singleton
    <3>2. IsFiniteSet({"PageView"} \cup {"ViewContent"}) /\ IsFiniteSet({"ViewCart"} \cup {"Search"})
      BY <3>1, FS_Union
    <3>3. IsFiniteSet(({"PageView"} \cup {"ViewContent"}) \cup ({"ViewCart"} \cup {"Search"}))
      BY <3>2, FS_Union
    <3>4. {"PageView", "ViewContent", "ViewCart", "Search"}
            = ({"PageView"} \cup {"ViewContent"}) \cup ({"ViewCart"} \cup {"Search"})
      OBVIOUS
    <3> QED BY <3>3, <3>4
  <2>2. evs \subseteq {"PageView", "ViewContent", "ViewCart", "Search"}
    BY DEF LoadEvents
  <2>3. Cardinality(evs) \in Nat
    BY <2>1, <2>2, FS_Subset, FS_CardinalityType
  <2>4. sends' = sends + Cardinality(evs)
    BY DEF Script
  <2> HIDE DEF evs
  <2> QED BY <1>0, <2>3, <2>4 DEF SendTypeOK
<1>5. ck' \in [Tabs -> CheckoutType]
  <2> DEFINE binds == IF p.onePage THEN 0 ELSE 2
             checks == ChecksSurface(p, surface)
  <2>1. checks \in BOOLEAN
    BY DEF ChecksSurface, IsCheckoutFlow
  <2>2. binds \in 0..2
    OBVIOUS
  <2>3. NoCheckout \in CheckoutType
    <3>1. 0 \in 0..2
      OBVIOUS
    <3> QED BY <3>1 DEF NoCheckout, CheckoutType
  <2> HIDE DEF binds, checks
  <2>4. /\ [NoCheckout EXCEPT !.surface = surface] \in CheckoutType
        /\ [NoCheckout EXCEPT !.surface = surface, !.watching = TRUE,
                              !.binds = binds, !.checks = checks] \in CheckoutType
    <3>1. [NoCheckout EXCEPT !.surface = surface] \in CheckoutType
      BY <2>3 DEF CheckoutType
    <3>2. [NoCheckout EXCEPT !.surface = surface, !.watching = TRUE,
                             !.binds = binds, !.checks = checks] \in CheckoutType
      BY <2>1, <2>2, <2>3, ZenonT(60) DEF CheckoutType
    <3> QED BY <3>1, <3>2
  <2>5. LoadedCheckout(p, surface) \in CheckoutType
    BY <2>4 DEF LoadedCheckout, binds, checks
  <2> QED BY <1>0, <2>5 DEF Script, CheckoutTypeOK
<1>6. ShopTypeOK'
  <2>1. LoadedViews(p) \subseteq ViewType
    <3>1. /\ NoView \in ViewType
          /\ [NoView EXCEPT !.watched = shop.goods] \in ViewType
          /\ [NoView EXCEPT !.timer = TRUE] \in ViewType
      BY <1>0, ShopFields DEF NoView, ViewType
    <3>2. p.product # None => [NoView EXCEPT !.watched = {p.product}] \in ViewType
      BY DEF NoView, ViewType, PageType
    <3> QED BY <3>1, <3>2 DEF LoadedViews
  <2>2. NoCart \in CartType
    BY DEF NoCart, CartType
  <2>3. PICK v \in LoadedViews(p) : view' = [view EXCEPT ![t] = v]
    BY DEF Script
  <2>4. cart' = [cart EXCEPT ![t] = NoCart]
    BY DEF Script
  <2> QED BY <1>0, <2>1, <2>2, <2>3, <2>4 DEF ShopTypeOK
<1> QED BY <1>1, <1>2, <1>3, <1>4, <1>5, <1>6

\* Opening and closing pages keeps the types.
LEMMA PagesTypeOK ==
    ASSUME TypeOK, NEW t \in Tabs, LoadPage(t) \/ ThankYou(t) \/ CloseTab(t)
    PROVE  TypeOK'
<1>0. SendTypeOK /\ CheckoutTypeOK /\ ShopTypeOK /\ loads \in Nat
  BY DEF TypeOK
<1>1. CASE LoadPage(t)
  <2>1. PICK p \in PageType, surface \in BOOLEAN : Script(t, p, surface)
    BY <1>1, PagesType DEF LoadPage
  <2> QED BY <1>0, <1>1, <2>1, ScriptType DEF LoadPage, TypeOK, SendTypeOK, CheckoutTypeOK
<1>2. CASE ThankYou(t)
  <2> DEFINE p == [type |-> "thankyou", product |-> None, onePage |-> shop.onePage]
  <2>1. p \in PageType
    BY <1>0, ShopFields DEF PageType, PageTypes
  <2>2. Script(t, p, FALSE)
    BY <1>2 DEF ThankYou
  <2>3. order' \in OrderType /\ arrived' \in SUBSET Arrival
    <3>1. [order EXCEPT !.stage = "thankyou"] \in OrderType
      BY <1>0 DEF CheckoutTypeOK, OrderType
    <3> QED BY <1>0, <1>2, <3>1, SnapshotType, FallbackType DEF ThankYou
  <2>4. jar' \in [Slots -> Int \cup {None}]
    <3>1. PICK kept \in {jar, ClearMarkers("plugin")} : jar' = [kept EXCEPT ![Slot("tracker")] = None]
      BY <1>2 DEF ThankYou
    <3>2. kept \in [Slots -> Int \cup {None}]
      BY <1>0 DEF ClearMarkers, SendTypeOK
    <3> QED BY <3>1, <3>2
  <2> HIDE DEF p
  <2>5. /\ page' \in [Tabs -> PageType \cup {NoPage}]
        /\ once' \in [Tabs -> SUBSET Key]
        /\ requests' \in SUBSET RequestType
        /\ sends' \in Nat
        /\ ck' \in [Tabs -> CheckoutType]
        /\ ShopTypeOK'
    BY <2>1, <2>2, ScriptType
  <2> QED BY <1>0, <1>2, <2>3, <2>4, <2>5 DEF ThankYou, TypeOK, SendTypeOK, CheckoutTypeOK
<1>3. CASE CloseTab(t)
  <2>1. requests' \in SUBSET RequestType
    <3>1. \A r \in requests : r \in RequestType /\ [r EXCEPT !.tab = None] \in RequestType
      BY <1>0 DEF SendTypeOK, RequestType
    <3> QED BY <1>3, <3>1 DEF CloseTab, Orphaned
  <2>2. NoCheckout \in CheckoutType /\ NoView \in ViewType /\ NoCart \in CartType
    BY DEF NoCheckout, CheckoutType, NoView, ViewType, NoCart, CartType
  <2>3. /\ page' \in [Tabs -> PageType \cup {NoPage}]
        /\ once' \in [Tabs -> SUBSET Key]
    BY <1>0, <1>3 DEF CloseTab, SendTypeOK
  <2>4. /\ ck' \in [Tabs -> CheckoutType]
        /\ view' \in [Tabs -> ViewType]
        /\ cart' \in [Tabs -> CartType]
    BY <1>0, <1>3, <2>2 DEF CloseTab, CheckoutTypeOK, ShopTypeOK
  <2> QED BY <1>0, <1>3, <2>1, <2>3, <2>4 DEF CloseTab, TypeOK, SendTypeOK, CheckoutTypeOK, ShopTypeOK
<1> QED BY <1>1, <1>2, <1>3

\* The initial state has the declared types.
LEMMA TypeInit == Init => TypeOK
<1> SUFFICES ASSUME Init PROVE TypeOK
  OBVIOUS
<1>1. SendTypeOK
  BY DEF Init, SendInit, SendTypeOK, Slots
<1>2. CheckoutTypeOK
  BY DEF Init, CheckoutInit, CheckoutTypeOK, NoCheckout, CheckoutType, NoOrder, OrderType
<1>3. ShopTypeOK
  BY DEF Init, ShopInit, ShopTypeOK, NoView, ViewType, NoCart, CartType
<1> QED BY <1>1, <1>2, <1>3 DEF Init, TypeOK

\* Every step keeps the types.
LEMMA TypeNext ==
    ASSUME TypeOK, [Next]_vars
    PROVE  TypeOK'
<1>0. SendTypeOK /\ CheckoutTypeOK /\ ShopTypeOK /\ loads \in Nat
  BY DEF TypeOK
<1>1. CASE (Network \/ MarkerExpires) /\ UNCHANGED <<checkoutVars, shopVars, loads>>
  BY <1>0, <1>1, NetworkType DEF checkoutVars, shopVars, TypeOK, CheckoutTypeOK, ShopTypeOK
<1>2. CASE OrderAnswered /\ UNCHANGED <<shopVars, loads>>
  BY <1>0, <1>2, OrderAnsweredType DEF shopVars, TypeOK, ShopTypeOK
<1>3. ASSUME NEW t \in Tabs, LoadPage(t) \/ ThankYou(t) \/ CloseTab(t) PROVE TypeOK'
  BY <1>3, PagesTypeOK
<1>4. ASSUME NEW t \in Tabs, CheckoutActs(t) \/ OrderActs(t), UNCHANGED <<shopVars, loads>>
      PROVE  TypeOK'
  BY <1>0, <1>4, CheckoutActsType, OrderActsType DEF OrderActs, shopVars, TypeOK, ShopTypeOK
<1>5. ASSUME NEW t \in Tabs, ShopActs(t), UNCHANGED <<checkoutVars, loads>>
      PROVE  TypeOK'
  <2>1. SendTypeOK' /\ ShopTypeOK'
    <3>1. ASSUME NEW p \in shop.goods,
                 EntersView(t, p) \/ LeavesView(t, p) \/ DwellElapses(t, p) \/ LandingCta(t, p)
          PROVE  SendTypeOK' /\ ShopTypeOK'
      BY <1>0, <3>1, ViewsType, AddsType
    <3>2. ASSUME NEW p \in shop.goods, NEW kind \in {"single", "loop", "link"}, ClickAdd(t, kind, p)
          PROVE  SendTypeOK' /\ ShopTypeOK'
      BY <1>0, <3>2, AddsType
    <3>3. CASE ViewTimer(t)
      BY <1>0, <3>3, ViewTimerType
    <3>4. CASE SelectVariation(t)
      BY <1>0, <3>4, SelectVariationType
    <3>5. CASE AddedToCart(t) \/ AddFails(t)
      BY <1>0, <3>5, AddAnsweredType
    <3>6. ASSUME NEW k \in once[t], OnceExpires(t, k) PROVE SendTypeOK' /\ ShopTypeOK'
      BY <1>0, <3>6, OnceExpiresType
    <3>7. CASE \/ ClickRemove(t) \/ RemoveTimer(t) \/ RemovedFromCart(t) \/ RemoveFails(t)
               \/ PaymentChosen(t) \/ FormSubmitted(t)
      BY <1>0, <3>7, RemovalsType
    <3> QED BY <1>5, <3>1, <3>2, <3>3, <3>4, <3>5, <3>6, <3>7 DEF ShopActs
  <2> QED BY <1>0, <1>5, <2>1 DEF checkoutVars, TypeOK, CheckoutTypeOK
<1>6. CASE UNCHANGED vars
  BY <1>0, <1>6 DEF vars, sendVars, checkoutVars, shopVars, TypeOK, SendTypeOK, CheckoutTypeOK, ShopTypeOK
<1> QED BY <1>1, <1>2, <1>3, <1>4, <1>5, <1>6 DEF Next

\* Every reachable state of the tracker has the declared types.
THEOREM TypeCorrect == Spec => []TypeOK
BY TypeInit, TypeNext, PTL DEF Spec

-----------------------------------------------------------------------------
(* What a step is about.                                                    *)

\* A step of the network, the order or nobody; a page that opens or closes; a
\* handler of the checkout; another handler.
Elsewhere == UNCHANGED <<page, ck, view, cart, once>>
Opens(t) == \E p \in PageType, surface \in BOOLEAN : Script(t, p, surface)

LEMMA Steps ==
    ASSUME TypeOK, [Next]_vars
    PROVE  /\ shop' = shop
           /\ \/ Elsewhere
              \/ \E t \in Tabs : Opens(t)
              \/ \E t \in Tabs : CloseTab(t)
              \/ \E t \in Tabs : CheckoutActs(t) /\ UNCHANGED <<page, once, shopVars>>
              \/ \E t \in Tabs : ShopActs(t) /\ UNCHANGED <<page, checkoutVars>>
<1>0. SendTypeOK
  BY DEF TypeOK
<1>1. CASE (Network \/ MarkerExpires) /\ UNCHANGED <<checkoutVars, shopVars, loads>>
  <2>1. UNCHANGED <<shop, page, once>>
    BY <1>1 DEF Network, Returns, MarkerExpires, RelayRest, RelayAjax, Handle, Answer, LoseAnswer
  <2> QED BY <1>1, <2>1 DEF checkoutVars, shopVars, Elsewhere
<1>2. CASE OrderAnswered /\ UNCHANGED <<shopVars, loads>>
  BY <1>2 DEF OrderAnswered, shopVars, Elsewhere
<1>3. ASSUME NEW t \in Tabs, LoadPage(t) PROVE shop' = shop /\ Opens(t)
  BY <1>3, PagesType DEF LoadPage, Opens
<1>4. ASSUME NEW t \in Tabs, ThankYou(t) PROVE shop' = shop /\ Opens(t)
  <2>1. [type |-> "thankyou", product |-> None, onePage |-> shop.onePage] \in PageType
    BY <1>0, ShopFields DEF PageType, PageTypes
  <2> QED BY <1>4, <2>1 DEF ThankYou, Opens
<1>5. ASSUME NEW t \in Tabs, CloseTab(t) PROVE shop' = shop
  BY <1>5 DEF CloseTab
<1>6. ASSUME NEW t \in Tabs, CheckoutActs(t) PROVE UNCHANGED <<shop, page, once>>
  BY <1>6 DEF CheckoutActs, BindAgain, SurfaceCheck, DomChanges, DebounceEnds, FieldInput,
         CheckoutButton, SubmitCheckout, WooEvent, IdentifyBlur, CheckoutStep
<1>7. ASSUME NEW t \in Tabs, OrderActs(t), UNCHANGED <<shopVars, loads>>
      PROVE  shop' = shop /\ Elsewhere
  BY <1>7 DEF OrderActs, DraftOrder, PlaceOrder, sendVars, shopVars, Elsewhere
<1>8. ASSUME NEW t \in Tabs, ShopActs(t) PROVE UNCHANGED <<shop, page>>
  BY <1>8 DEF ShopActs, EntersView, LeavesView, DwellElapses, LandingCta, ClickAdd, ViewTimer,
         SelectVariation, AddedToCart, AddFails, OnceExpires, ClickRemove, RemoveTimer,
         RemovedFromCart, RemoveFails, PaymentChosen, FormSubmitted, ShopStep
<1>9. CASE UNCHANGED vars
  BY <1>9 DEF vars, sendVars, checkoutVars, shopVars, Elsewhere
<1> QED
  BY <1>1, <1>2, <1>3, <1>4, <1>5, <1>6, <1>7, <1>8, <1>9 DEF Next

-----------------------------------------------------------------------------
(* The checkout: OnePageWaits and SurfaceHasCheck.  The second needs that    *)
(* the observer watches until the checkout is reported.                      *)

Unreported(t, c) ==
    c.surface /\ ~c.sent /\ ~page[t].onePage /\ page[t].type # "thankyou"

Watched ==
    \A t \in Tabs : Reports(t, "InitiateCheckout") /\ ~ck[t].sent => ck[t].watching

CheckoutInv == OnePageWaits /\ SurfaceHasCheck /\ Watched

\* A handler of the checkout leaves the tab's state, but for what c says, as it
\* was; or it reports the checkout, on a one-page shop only after a touch.
CheckoutMove(t) ==
    \E c \in CheckoutType :
        /\ c.sent = ck[t].sent /\ c.watching = ck[t].watching
        /\ ck[t].intent => c.intent
        /\ \/ /\ ck' = [ck EXCEPT ![t] = c]
              /\ Unreported(t, c) => c.checks \/ c.debounce
           \/ /\ ck' = [ck EXCEPT ![t] = Sent(c)]
              /\ page[t].onePage => c.intent

\* How the ways to end a handler fit this form.
LEMMA KeepMoves ==
    ASSUME NEW t \in Tabs, NEW c \in CheckoutType,
           c.sent = ck[t].sent, c.watching = ck[t].watching, ck[t].intent => c.intent,
           Keep(t, c), Unreported(t, c) => c.checks \/ c.debounce
    PROVE  CheckoutMove(t)
BY DEF CheckoutMove, Keep

LEMMA SendOnceMoves ==
    ASSUME NEW t \in Tabs, NEW c \in CheckoutType, NEW sync \in BOOLEAN,
           c.sent = ck[t].sent, c.watching = ck[t].watching, ck[t].intent => c.intent,
           SendOnce(t, c, sync), page[t].onePage => c.intent
    PROVE  CheckoutMove(t)
<1>1. CASE page[t].type = "thankyou" \/ c.sent
  BY <1>1, KeepMoves DEF SendOnce, Unreported
<1>2. CASE ~(page[t].type = "thankyou" \/ c.sent)
  BY <1>2 DEF SendOnce, CheckoutMove
<1> QED BY <1>1, <1>2

LEMMA SendOnSurfaceMoves ==
    ASSUME NEW t \in Tabs, NEW c \in CheckoutType,
           c.sent = ck[t].sent, c.watching = ck[t].watching, ck[t].intent => c.intent,
           c.surface = ck[t].surface, SendOnSurface(t, c)
    PROVE  CheckoutMove(t)
<1>1. CASE page[t].onePage \/ page[t].type = "thankyou" \/ ~c.surface
  BY <1>1, KeepMoves DEF SendOnSurface, Unreported
<1>2. CASE ~(page[t].onePage \/ page[t].type = "thankyou" \/ ~c.surface)
  <2>1. HasCartData(t)
    BY <1>2 DEF HasCartData, Flow, IsCheckoutFlow
  <2>2. SendOnce(t, c, FALSE)
    BY <1>2, <2>1 DEF SendOnSurface, SendWhenReady
  <2> QED BY <1>2, <2>2, SendOnceMoves
<1> QED BY <1>1, <1>2

\* Every handler of the checkout has this form.
LEMMA CheckoutMoves ==
    ASSUME TypeOK, CheckoutInv, NEW t \in Tabs, CheckoutActs(t)
    PROVE  CheckoutMove(t)
<1> ck[t] \in CheckoutType
  BY DEF TypeOK, CheckoutTypeOK
<1>0. CheckoutStep(t)
  BY DEF CheckoutActs, BindAgain, SurfaceCheck, DomChanges, DebounceEnds, FieldInput,
         CheckoutButton, SubmitCheckout, WooEvent, IdentifyBlur
<1>1. /\ ~ck[t].sent => ck[t].watching
      /\ Unreported(t, ck[t]) => ck[t].checks \/ ck[t].debounce
  BY <1>0 DEF CheckoutStep, CheckoutInv, Watched, SurfaceHasCheck, Unreported
<1>2. CASE BindAgain(t)
  <2> DEFINE due == ck[t].checks \/ ChecksSurface(page[t], ck[t].surface)
             c == [ck[t] EXCEPT !.binds = @ - 1, !.checks = due]
  <2>1. due \in BOOLEAN /\ ck[t].binds - 1 \in 0..2 /\ (ck[t].checks => due)
    BY <1>2 DEF BindAgain, CheckoutType, ChecksSurface, IsCheckoutFlow
  <2>2. Keep(t, c)
    BY <1>2 DEF BindAgain
  <2> HIDE DEF due
  <2>3. c \in CheckoutType
    BY <2>1 DEF CheckoutType
  <2>4. /\ c.sent = ck[t].sent /\ c.watching = ck[t].watching /\ c.intent = ck[t].intent
        /\ c.surface = ck[t].surface /\ c.debounce = ck[t].debounce /\ c.checks = due
    BY DEF CheckoutType
  <2> HIDE DEF c
  <2> QED BY <1>1, <2>1, <2>2, <2>3, <2>4, KeepMoves DEF Unreported
<1>3. CASE SurfaceCheck(t)
  <2>1. PICK last \in BOOLEAN : SendOnSurface(t, [ck[t] EXCEPT !.checks = ~last])
    BY <1>3 DEF SurfaceCheck
  <2> DEFINE c == [ck[t] EXCEPT !.checks = ~last]
  <2>2. /\ c \in CheckoutType
        /\ c.sent = ck[t].sent /\ c.watching = ck[t].watching /\ c.intent = ck[t].intent
        /\ c.surface = ck[t].surface
    BY DEF CheckoutType
  <2> HIDE DEF c
  <2> QED BY <2>1, <2>2, SendOnSurfaceMoves DEF c
<1>4. CASE DomChanges(t)
  <2>1. PICK surface \in BOOLEAN :
          LET c == [ck[t] EXCEPT !.surface = surface]
          IN Keep(t, IF ~c.watching THEN c ELSE [c EXCEPT !.debounce = TRUE])
    BY <1>4 DEF DomChanges
  <2> DEFINE c == [ck[t] EXCEPT !.surface = surface]
             d == IF ~c.watching THEN c ELSE [c EXCEPT !.debounce = TRUE]
  <2>2. /\ c \in CheckoutType
        /\ c.sent = ck[t].sent /\ c.watching = ck[t].watching /\ c.intent = ck[t].intent
    BY DEF CheckoutType
  <2>3. Keep(t, d)
    BY <2>1
  <2> HIDE DEF c
  <2>4. /\ d \in CheckoutType
        /\ d.sent = c.sent /\ d.watching = c.watching /\ d.intent = c.intent
        /\ c.watching => d.debounce
    BY <2>2 DEF CheckoutType
  <2> HIDE DEF d
  <2> QED BY <1>1, <2>2, <2>3, <2>4, KeepMoves DEF Unreported
<1>5. CASE DebounceEnds(t)
  <2> DEFINE c == [ck[t] EXCEPT !.debounce = FALSE]
  <2>1. IF Flow(t) THEN SendOnSurface(t, c) ELSE Keep(t, c)
    BY <1>5 DEF DebounceEnds
  <2>2. /\ c \in CheckoutType
        /\ c.sent = ck[t].sent /\ c.watching = ck[t].watching /\ c.intent = ck[t].intent
        /\ c.surface = ck[t].surface
    BY DEF CheckoutType
  <2> HIDE DEF c
  <2> QED BY <2>1, <2>2, KeepMoves, SendOnSurfaceMoves DEF Unreported, Flow, IsCheckoutFlow
<1>6. /\ Touched(t) \in CheckoutType /\ Touched(t).intent
      /\ Touched(t).sent = ck[t].sent /\ Touched(t).watching = ck[t].watching
      /\ Touched(t).surface = ck[t].surface /\ Touched(t).checks = ck[t].checks
      /\ Touched(t).debounce = ck[t].debounce
  BY DEF Touched, CheckoutType
<1>7. CASE FieldInput(t) \/ CheckoutButton(t) \/ SubmitCheckout(t)
  <2>1. CASE Keep(t, Touched(t))
    BY <1>1, <1>6, <2>1, KeepMoves DEF Unreported
  <2>2. ASSUME NEW sync \in BOOLEAN, SendOnce(t, Touched(t), sync) PROVE CheckoutMove(t)
    BY <1>6, <2>2, SendOnceMoves
  <2> QED BY <1>7, <2>1, <2>2 DEF FieldInput, CheckoutButton, SubmitCheckout, SendWhenReady
<1>8. CASE WooEvent(t)
  BY <1>8, SendOnceMoves DEF WooEvent
<1>9. CASE IdentifyBlur(t)
  <2>1. ck' = [ck EXCEPT ![t] = ck[t]]
    BY <1>9 DEF IdentifyBlur, TypeOK, CheckoutTypeOK
  <2> QED BY <1>1, <2>1 DEF CheckoutMove
<1> QED
  BY <1>2, <1>3, <1>4, <1>5, <1>7, <1>8, <1>9 DEF CheckoutActs

\* Every step keeps the invariant.
LEMMA CheckoutNext ==
    ASSUME TypeOK, CheckoutInv, [Next]_vars
    PROVE  CheckoutInv'
<1> USE DEF CheckoutInv, OnePageWaits, SurfaceHasCheck, Watched, Reports, Enabled, Open
<1>0. shop' = shop /\ SendTypeOK /\ CheckoutTypeOK
  BY Steps DEF TypeOK
<1>1. CASE Elsewhere
  BY <1>0, <1>1 DEF Elsewhere
<1>2. ASSUME NEW t \in Tabs, NEW p \in PageType, NEW surface \in BOOLEAN, Script(t, p, surface)
      PROVE  CheckoutInv'
  <2>1. /\ page' = [page EXCEPT ![t] = p]
        /\ ck' = [ck EXCEPT ![t] = LoadedCheckout(p, surface)]
    BY <1>2 DEF Script
  <2>2. /\ ~LoadedCheckout(p, surface).sent
        /\ Enabled("InitiateCheckout") =>
              /\ LoadedCheckout(p, surface).watching
              /\ LoadedCheckout(p, surface).surface /\ ~p.onePage /\ p.type # "thankyou" =>
                    LoadedCheckout(p, surface).checks
    BY DEF LoadedCheckout, NoCheckout, ChecksSurface, IsCheckoutFlow
  <2>3. /\ page'[t] = p /\ ck'[t] = LoadedCheckout(p, surface)
        /\ \A u \in Tabs \ {t} : page'[u] = page[u] /\ ck'[u] = ck[u]
    BY <1>0, <2>1 DEF SendTypeOK, CheckoutTypeOK
  <2> QED BY <1>0, <2>2, <2>3
<1>3. ASSUME NEW t \in Tabs, CloseTab(t) PROVE CheckoutInv'
  <2>1. /\ page'[t] = NoPage /\ ck'[t] = NoCheckout
        /\ \A u \in Tabs \ {t} : page'[u] = page[u] /\ ck'[u] = ck[u]
    BY <1>0, <1>3 DEF CloseTab, SendTypeOK, CheckoutTypeOK
  <2> QED BY <1>0, <2>1 DEF NoPage, NoCheckout
<1>4. ASSUME NEW t \in Tabs, CheckoutActs(t), page' = page PROVE CheckoutInv'
  <2>1. PICK c \in CheckoutType :
          /\ c.sent = ck[t].sent /\ c.watching = ck[t].watching
          /\ ck[t].intent => c.intent
          /\ \/ /\ ck' = [ck EXCEPT ![t] = c]
                /\ Unreported(t, c) => c.checks \/ c.debounce
             \/ /\ ck' = [ck EXCEPT ![t] = Sent(c)]
                /\ page[t].onePage => c.intent
    BY <1>4, CheckoutMoves DEF CheckoutMove
  <2>2. \A u \in Tabs \ {t} : ck'[u] = ck[u]
    BY <1>0, <2>1 DEF CheckoutTypeOK
  <2>3. CASE ck' = [ck EXCEPT ![t] = c] /\ (Unreported(t, c) => c.checks \/ c.debounce)
    <3>1. ck'[t] = c
      BY <1>0, <2>3 DEF CheckoutTypeOK
    <3> QED BY <1>0, <1>4, <2>1, <2>2, <2>3, <3>1 DEF Unreported
  <2>4. CASE ck' = [ck EXCEPT ![t] = Sent(c)] /\ (page[t].onePage => c.intent)
    <3>1. ck'[t].sent /\ ck'[t].intent = c.intent
      BY <1>0, <2>4 DEF CheckoutTypeOK, Sent, CheckoutType
    <3> QED BY <1>0, <1>4, <2>2, <2>4, <3>1
  <2> QED BY <2>1, <2>3, <2>4
<1>5. CASE UNCHANGED <<page, checkoutVars>>
  BY <1>0, <1>5 DEF checkoutVars
<1> QED BY <1>1, <1>2, <1>3, <1>4, <1>5, Steps DEF Opens

LEMMA CheckoutStarts == Init => CheckoutInv
BY DEF Init, SendInit, CheckoutInit, CheckoutInv, OnePageWaits, SurfaceHasCheck, Watched,
       Reports, Open, NoPage, NoCheckout

\* On a one-page shop no checkout is reported before the customer touches it.
THEOREM OnePageShopWaits == Spec => []OnePageWaits
<1>1. CheckoutInv => OnePageWaits
  BY DEF CheckoutInv
<1>2. TypeOK /\ CheckoutInv /\ [Next]_vars => (TypeOK /\ CheckoutInv)'
  BY TypeNext, CheckoutNext
<1> QED BY <1>1, <1>2, TypeInit, CheckoutStarts, PTL DEF Spec

\* A checkout that shows and is not reported always has a check to come.
THEOREM SurfaceIsChecked == Spec => []SurfaceHasCheck
<1>1. CheckoutInv => SurfaceHasCheck
  BY DEF CheckoutInv
<1>2. TypeOK /\ CheckoutInv /\ [Next]_vars => (TypeOK /\ CheckoutInv)'
  BY TypeNext, CheckoutNext
<1> QED BY <1>1, <1>2, TypeInit, CheckoutStarts, PTL DEF Spec

=============================================================================
