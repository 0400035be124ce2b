------------------------------ MODULE Tracker ------------------------------
(***************************************************************************)
(* The browser tracker as a whole: a visitor opens pages in tabs that      *)
(* share cookies, each page runs the script, timers and calls go on while  *)
(* the visitor acts, and an order is placed and shown.                     *)
(***************************************************************************)
EXTENDS TrackerCheckout, TrackerShop

CONSTANT
    MaxLoads      \* bound: pages opened

VARIABLE loads    \* pages opened so far

vars == <<sendVars, checkoutVars, shopVars, loads>>

TypeOK == SendTypeOK /\ CheckoutTypeOK /\ ShopTypeOK /\ loads \in Nat

Init == SendInit /\ CheckoutInit /\ ShopInit /\ loads = 0

-----------------------------------------------------------------------------
(* A page loads *)

\* The pages a visitor may open: in a standard shop one-page mode is for a
\* checkout embedded in the front page or in a product page.
Pages ==
    {p \in PageType :
        /\ p.type \in shop.pages \ {"thankyou"}
        /\ p.product \in IF p.type = "product" THEN shop.goods ELSE {None}
        /\ shop.onePage => p.onePage
        /\ p.onePage => shop.onePage \/ p.type \in {"product", "checkout"}}

\* What the script sends while it loads, and the eventOnce keys it asks for.
LoadKey(ev, p) ==
    IF ev = "PageView" THEN {[name |-> "PageView", item |-> None, path |-> PathOf(p)]}
    ELSE IF ev = "ViewContent"
         THEN {[name |-> "ViewContent", item |-> p.product, path |-> PathOf(p)]}
         ELSE {}
LoadEvents(p, remembered) ==
    {ev \in {"PageView", "ViewContent", "ViewCart", "Search"} :
        /\ Enabled(ev)
        /\ ev = "PageView" => p.type \notin {"thankyou", "checkout"}
        /\ ev = "ViewContent" => p.type = "product" /\ ~p.onePage
        /\ ev = "ViewCart" => p.type = "cart"
        /\ ev = "Search" => p.type = "search"
        /\ LoadKey(ev, p) \cap remembered = {}}

\* The script runs from start to end.  Without sessionStorage eventOnce has
\* forgotten what it sent on the last page.
Script(t, p, surface) ==
    LET remembered == IF shop.storage THEN once[t] ELSE {}
        evs == LoadEvents(p, remembered)
    IN /\ page' = [page EXCEPT ![t] = p]
       /\ once' = [once EXCEPT ![t] =
                      remembered \cup UNION {LoadKey(ev, p) : ev \in evs}]
       /\ requests' = Orphaned(t)
       /\ sends' = sends + Cardinality(evs)
       /\ ck' = [ck EXCEPT ![t] = LoadedCheckout(p, surface)]
       /\ \E v \in LoadedViews(p) : view' = [view EXCEPT ![t] = v]
       /\ cart' = [cart EXCEPT ![t] = NoCart]

\* The tab stays while it waits for the order, and for a removal's next turn.
Leaves(t) ==
    /\ t \in shop.tabs /\ ~Busy(t) /\ ~Waits(t)
    /\ cart[t].clicked = "no"

LoadPage(t) ==
    /\ Leaves(t) /\ loads < MaxLoads
    /\ \E p \in Pages, surface \in BOOLEAN :
        /\ p.onePage /\ ~shop.onePage => surface
        /\ Script(t, p, surface)
    /\ loads' = loads + 1
    /\ UNCHANGED <<shop, jar, arrived, attempt, late, lapsed, order>>

\* The thank-you page: the server tries the fallback again, and a Purchase that
\* failed, whose cookies only leave a site that buffers its output; then the
\* script clears the markers.
ThankYou(t) ==
    /\ Leaves(t) /\ loads < MaxLoads
    /\ order.stage \in {"processed", "thankyou"} /\ order.tab = None
    /\ \E marker \in Snapshot : Fallback([order EXCEPT !.stage = "thankyou"], marker)
    /\ \E kept \in {jar} \cup (IF Enabled("Purchase") THEN {ClearMarkers("plugin")} ELSE {}) :
           jar' = [kept EXCEPT ![Slot("tracker")] = None]
    /\ Script(t, [type |-> "thankyou", product |-> None, onePage |-> shop.onePage], FALSE)
    /\ attempt' = attempt + 1
    /\ loads' = loads + 1
    /\ UNCHANGED <<shop, late, lapsed>>

CloseTab(t) ==
    /\ Leaves(t) /\ Open(t)
    /\ page' = [page EXCEPT ![t] = NoPage]
    /\ requests' = Orphaned(t)
    /\ ck' = [ck EXCEPT ![t] = NoCheckout]
    /\ view' = [view EXCEPT ![t] = NoView]
    /\ cart' = [cart EXCEPT ![t] = NoCart]
    /\ once' = [once EXCEPT ![t] = {}]
    /\ UNCHANGED <<shop, jar, arrived, sends, attempt, late, lapsed, order, loads>>

-----------------------------------------------------------------------------
CheckoutActs(t) ==
    \/ BindAgain(t) \/ SurfaceCheck(t)
    \/ DomChanges(t) \/ DebounceEnds(t)
    \/ FieldInput(t) \/ CheckoutButton(t) \/ SubmitCheckout(t) \/ WooEvent(t)
    \/ IdentifyBlur(t)

OrderActs(t) ==
    \/ order.no < shop.orders /\ DraftOrder(t)
    \/ (shop.blocks \/ order.no < shop.orders) /\ PlaceOrder(t)

ShopActs(t) ==
    \/ \E p \in shop.goods :
        \/ EntersView(t, p) \/ LeavesView(t, p) \/ DwellElapses(t, p)
        \/ LandingCta(t, p)
        \/ \E kind \in {"single", "loop", "link"} : ClickAdd(t, kind, p)
    \/ ViewTimer(t) \/ SelectVariation(t)
    \/ AddedToCart(t) \/ AddFails(t)
    \/ \E k \in once[t] : OnceExpires(t, k)
    \/ ClickRemove(t) \/ RemoveTimer(t) \/ RemovedFromCart(t) \/ RemoveFails(t)
    \/ PaymentChosen(t) \/ FormSubmitted(t)

Next ==
    \/ (Network \/ MarkerExpires) /\ UNCHANGED <<checkoutVars, shopVars, loads>>
    \/ OrderAnswered /\ UNCHANGED <<shopVars, loads>>
    \/ \E t \in Tabs :
        \/ LoadPage(t) \/ ThankYou(t) \/ CloseTab(t)
        \/ (CheckoutActs(t) \/ OrderActs(t)) /\ UNCHANGED <<shopVars, loads>>
        \/ ShopActs(t) /\ UNCHANGED <<checkoutVars, loads>>

Spec == Init /\ [][Next]_vars

-----------------------------------------------------------------------------
(* Properties *)

\* One checkout is one InitiateCheckout: whatever the pages, their retries and
\* the order's snapshot send between two clearings of the markers carries one id,
\* unless the marker ran out meanwhile or a late answer had put an old id back.
\* Left out is an order placed after its marker was cleared: the fallback then
\* uses the order's own id, or the cookie its thank-you page comes with.
OneIdPerAttempt ==
    \A a, b \in {x \in arrived : x.from \in {"page", "snapshot"} /\ x.id \notin late} :
        ~shop.blocks /\ a.attempt = b.attempt /\ a.attempt \notin lapsed => a.id = b.id

\* Two checkouts have two ids, where the tracker and the plugin clear the same
\* cookie: unless a late answer puts an id back, or an order without a snapshot
\* takes the cookie that is there when its thank-you page is opened.
NoStaleId ==
    \A a, b \in {x \in arrived : x.from # "cookie" /\ x.id \notin late} :
        shop.sameDomain /\ ~shop.blocks /\ a.id = b.id => a.attempt = b.attempt

\* In one-page mode nothing is reported before the customer touches the checkout.
OnePageWaits ==
    \A t \in Tabs : page[t].onePage /\ ck[t].sent => ck[t].intent

\* Once the thank-you page is shown the gateway has the order's checkout, unless
\* it refused it.
FallbackCovers ==
    order.stage = "thankyou" /\ Enabled("InitiateCheckout") /\ ~order.refused
        => \E a \in arrived : a.attempt = order.attempt

\* An add the click reported is not reported again by WooCommerce's answer.
AddOnce ==
    \A t \in Tabs :
        cart[t].adding # None /\ cart[t].adding.key # None
            => Remembers(t, AddKey(t, ConfirmedId(t, cart[t].adding.product)))

\* The flag that is meant to drop the second report of a removal may drop the
\* only report of the next: but each event of WooCommerce costs one removal of the
\* same page its report at most, so where WooCommerce tells of none, as on the
\* classic cart page, none is lost (removeFiredViaJQ).
OneLossPerAnswer == \A t \in Tabs : cart[t].missed <= cart[t].told

\* A checkout that shows on a standard page and is not reported is not forgotten:
\* a check is to come, whenever the fields came and went.
SurfaceHasCheck ==
    \A t \in Tabs :
        /\ Reports(t, "InitiateCheckout") /\ ck[t].surface /\ ~ck[t].sent
        /\ ~page[t].onePage /\ page[t].type # "thankyou"
        => ck[t].checks \/ ck[t].debounce

\* What is in view has its timer or has had its second: no other card's coming
\* and going takes the report away.
ViewHasTimer ==
    \A t \in Tabs : view[t].visible \subseteq view[t].dwell \cup view[t].elapsed
=============================================================================
