-------------------------- MODULE TrackerCheckout --------------------------
(***************************************************************************)
(* InitiateCheckout: the handlers, timers and the observer of tracker.js   *)
(* that report a checkout once per page, and the order hooks of the plugin *)
(* (woo-order-hooks.php, frontend-tracking.php) that report it again from  *)
(* the server and clear the markers with the Purchase.                     *)
(***************************************************************************)
EXTENDS TrackerSend

VARIABLES
    ck,      \* per tab: the script's checkout state and the DOM it looks at
    order    \* the visitor's latest order

checkoutVars == <<ck, order>>

\* surface: checkout fields are in the DOM; sent: initiateCheckoutSent; intent:
\* the customer has touched the checkout; checks: checks of the surface are to
\* come; binds: how many of DOMContentLoaded and the 1.2 s timer are to come;
\* watching, debounce: the MutationObserver and its 150 ms timer.  The script
\* binds its handlers as it loads: checkoutIntentBound is always true, and in
\* one-page mode binding again does nothing.
CheckoutType == [surface : BOOLEAN, sent : BOOLEAN, intent : BOOLEAN, checks : BOOLEAN,
                 binds : 0..2, watching : BOOLEAN, debounce : BOOLEAN]
NoCheckout == [surface |-> FALSE, sent |-> FALSE, intent |-> FALSE, checks |-> FALSE,
               binds |-> 0, watching |-> FALSE, debounce |-> FALSE]

\* stage: where the order is; snap: the marker in the order's attribution
\* snapshot; sent: _buykorigw_initiate_checkout_sent; refused: the gateway's
\* answer to a fallback was a failure.
OrderType == [stage : {"none", "draft", "processed", "thankyou"}, no : Nat, attempt : Nat,
              tab : Tabs \cup {None}, snap : Int \cup {None},
              sent : BOOLEAN, refused : BOOLEAN]
NoOrder(n) == [stage |-> "none", no |-> n, attempt |-> 0, tab |-> None, snap |-> None,
               sent |-> FALSE, refused |-> FALSE]

CheckoutTypeOK ==
    /\ ck \in [Tabs -> CheckoutType]
    /\ order \in OrderType

CheckoutInit ==
    /\ ck = [t \in Tabs |-> NoCheckout]
    /\ order = NoOrder(0)

-----------------------------------------------------------------------------
(* When a checkout is reported *)

IsCheckoutFlow(type, surface) == type # "thankyou" /\ (type = "checkout" \/ surface)
Flow(t) == IsCheckoutFlow(page[t].type, ck[t].surface)

\* hasCheckoutCartData: cfg.cart is there on the cart page and with a checkout.
HasCartData(t) == page[t].type \in {"cart", "checkout"} \/ CfgProduct(t) # None \/ Flow(t)

Keep(t, c) == ck' = [ck EXCEPT ![t] = c] /\ UNCHANGED <<requests, sends, jar>>

\* What is still to come when the flag is set does nothing, and the observer
\* gives up.
Sent(c) == [c EXCEPT !.sent = TRUE, !.checks = FALSE, !.binds = 0,
                     !.watching = FALSE, !.debounce = FALSE]

\* sendInitiateCheckoutOnce: the tab's checkout state is c but for the flag.
SendOnce(t, c, sync) ==
    IF page[t].type = "thankyou" \/ c.sent
    THEN Keep(t, c)
    ELSE ck' = [ck EXCEPT ![t] = Sent(c)] /\ SendInitiateCheckout(t, sync)

\* sendInitiateCheckoutWhenReady: force, or both e-mail and phone are filled in.
SendWhenReady(t, c, force, sync) ==
    \E strong \in BOOLEAN :
        IF force \/ strong THEN SendOnce(t, c, sync) ELSE Keep(t, c)

\* Fault: the surface counts in one-page mode as well.
SendOnSurfaceAnyMode(t, c) ==
    IF page[t].type = "thankyou" \/ ~c.surface
    THEN Keep(t, c) ELSE SendWhenReady(t, c, HasCartData(t), FALSE)

\* sendInitiateCheckoutOnSurface
SendOnSurface(t, c) ==
    IF page[t].onePage \/ page[t].type = "thankyou" \/ ~c.surface
    THEN Keep(t, c) ELSE SendWhenReady(t, c, HasCartData(t), FALSE)

CheckoutStep(t) ==
    /\ Reports(t, "InitiateCheckout") /\ ~Busy(t)
    /\ UNCHANGED <<shop, page, once, arrived, attempt, late, lapsed, order>>

-----------------------------------------------------------------------------
(* Timers and the observer *)

\* scheduleCheckoutSurfaceChecks: two timers, on a page of the checkout flow.
\* The checks do the same: what counts is whether one is to come.
ChecksSurface(p, surface) == ~p.onePage /\ IsCheckoutFlow(p.type, surface)

\* Fault: nobody observes what comes after the page has loaded.
LoadedUnwatched(p, surface) ==
    IF ~Enabled("InitiateCheckout") THEN [NoCheckout EXCEPT !.surface = surface]
    ELSE [NoCheckout EXCEPT !.surface = surface, !.checks = ChecksSurface(p, surface)]

\* What the script sets up while it loads.
LoadedCheckout(p, surface) ==
    IF ~Enabled("InitiateCheckout") THEN [NoCheckout EXCEPT !.surface = surface]
    ELSE [NoCheckout EXCEPT !.surface = surface, !.watching = TRUE,
                            !.binds = IF p.onePage THEN 0 ELSE 2,
                            !.checks = ChecksSurface(p, surface)]

\* Fault: an interval in the place of the timer.
BindAgainAlways(t) ==
    /\ CheckoutStep(t)
    /\ Keep(t, [ck[t] EXCEPT !.binds = @ - 1])

\* DOMContentLoaded, the 1.2 s timer
BindAgain(t) ==
    /\ CheckoutStep(t) /\ ck[t].binds > 0
    /\ Keep(t, [ck[t] EXCEPT !.binds = @ - 1,
                             !.checks = @ \/ ChecksSurface(page[t], ck[t].surface)])

SurfaceCheck(t) ==
    /\ CheckoutStep(t) /\ ck[t].checks
    /\ \E last \in BOOLEAN : SendOnSurface(t, [ck[t] EXCEPT !.checks = ~last])

\* The page changes; the observer starts its timer anew.
DomChanges(t) ==
    /\ CheckoutStep(t)
    /\ \E surface \in BOOLEAN :
        LET c == [ck[t] EXCEPT !.surface = surface]
        IN Keep(t, IF ~c.watching THEN c ELSE [c EXCEPT !.debounce = TRUE])

DebounceEnds(t) ==
    /\ CheckoutStep(t) /\ ck[t].debounce
    /\ LET c == [ck[t] EXCEPT !.debounce = FALSE]
       IN IF Flow(t) THEN SendOnSurface(t, c) ELSE Keep(t, c)

-----------------------------------------------------------------------------
(* The customer *)

Touched(t) == [ck[t] EXCEPT !.intent = TRUE]

\* input, change and focusin on a billing field, or on any e-mail field
FieldInput(t) ==
    /\ CheckoutStep(t)
    /\ SendWhenReady(t, Touched(t), HasCartData(t), FALSE)

CheckoutButton(t) ==
    /\ CheckoutStep(t)
    /\ SendWhenReady(t, Touched(t), HasCartData(t), TRUE)

\* place-order click, submit: synchronous, so that the event leaves before the
\* page does
SubmitCheckout(t) ==
    /\ CheckoutStep(t) /\ ck[t].surface
    /\ SendOnce(t, Touched(t), TRUE)

\* init_checkout and updated_checkout of WooCommerce's script
WooEvent(t) ==
    /\ CheckoutStep(t) /\ ck[t].surface
    /\ ~page[t].onePage
    /\ SendOnce(t, ck[t], FALSE)

\* Leaving a valid e-mail or phone field sends Identify, each time.
IdentifyBlur(t) ==
    /\ CheckoutStep(t) /\ Acts(t)
    /\ Enabled("Identify")
    /\ SendEvents(t, <<"Identify">>, FALSE)
    /\ UNCHANGED <<jar, ck>>

-----------------------------------------------------------------------------
(* The order hooks *)

Waits(t) == order.stage = "processed" /\ order.tab = t

\* The attribution snapshot is saved once, when the order is first stored; the
\* block checkout stores a draft before the order is placed.
Snapshot == IF Markers = {} THEN {None} ELSE Markers
DraftOrder(t) ==
    /\ shop.blocks /\ order.stage # "draft" /\ order.tab = None
    /\ Open(t) /\ ck[t].surface
    /\ \E snap \in Snapshot :
        order' = [NoOrder(order.no + 1) EXCEPT !.stage = "draft", !.snap = snap]
    /\ UNCHANGED <<sendVars, ck>>

\* The id, and where it comes from: the snapshot, the request's cookie, the order.
FallbackId(o, marker) ==
    IF o.snap # None THEN <<o.snap, "snapshot">>
    ELSE IF marker # None THEN <<marker, "cookie">> ELSE <<-o.no, "order">>

\* Fault: a marker in the browser counts as an event the gateway has.
FallbackTrustsMarker(o, marker) ==
    IF o.sent \/ marker # None \/ ~Enabled("InitiateCheckout")
    THEN order' = o /\ UNCHANGED arrived
    ELSE \E got \in BOOLEAN :
        /\ order' = [o EXCEPT !.sent = got, !.refused = @ \/ ~got]
        /\ arrived' = arrived \cup
               {[id |-> i[1], attempt |-> o.attempt, from |-> i[2]] :
                    i \in IF got THEN {FallbackId(o, marker)} ELSE {}}

\* buykorigw_send_order_initiate_checkout_fallback; that a marker is there is no
\* reason not to send.  got: the gateway took it; ok: and said so.
Fallback(o, marker) ==
    IF o.sent \/ ~Enabled("InitiateCheckout") THEN order' = o /\ UNCHANGED arrived
    ELSE \E got, ok \in BOOLEAN :
        /\ ok => got
        /\ order' = [o EXCEPT !.sent = ok, !.refused = @ \/ ~ok]
        /\ arrived' = arrived \cup
               {[id |-> i[1], attempt |-> o.attempt, from |-> i[2]] :
                    i \in IF got THEN {FallbackId(o, marker)} ELSE {}}

\* The request that places the order: snapshot and fallback (not in the block
\* checkout), then buykorigw_track_purchase, which sends the Purchase and
\* clears the markers with the answer.  The script has seen the click.
PlaceOrder(t) ==
    /\ Open(t) /\ ck[t].surface /\ ~Busy(t)
    /\ Enabled("InitiateCheckout") => ck[t].sent
    /\ order.tab = None /\ (shop.blocks => order.stage = "draft")
    /\ \E snap \in Snapshot :
        LET o == [(IF shop.blocks THEN order ELSE [NoOrder(order.no + 1) EXCEPT !.snap = snap])
                  EXCEPT !.stage = "processed", !.attempt = attempt, !.tab = t]
        IN IF shop.blocks THEN order' = o /\ UNCHANGED arrived ELSE Fallback(o, snap)
    /\ UNCHANGED <<shop, page, jar, once, requests, sends, attempt, late, lapsed, ck>>

\* The answer of that request clears the plugin's markers, if the Purchase is
\* switched on (the order is a new one: it was not tracked before).
OrderAnswered ==
    /\ order.stage = "processed" /\ order.tab # None
    /\ order' = [order EXCEPT !.tab = None]
    /\ IF Enabled("Purchase") THEN jar' = ClearMarkers("plugin") /\ attempt' = attempt + 1
       ELSE UNCHANGED <<jar, attempt>>
    /\ UNCHANGED <<shop, page, once, requests, arrived, sends, late, lapsed, ck>>
=============================================================================
