---------------------------- MODULE TrackerShop ----------------------------
(***************************************************************************)
(* The other handlers of tracker.js: ViewContent by observing what is in   *)
(* view, AddToCart by the click and again by WooCommerce's answer,         *)
(* RemoveFromCart with the flag that is meant to drop the second report,   *)
(* AddPaymentInfo and Lead.                                                *)
(***************************************************************************)
EXTENDS TrackerSend

CONSTANT Variable    \* products whose page has a variations form

ASSUME VariableAssumption == Variable \subseteq Products

VARIABLES
    view,    \* per tab: the elements an IntersectionObserver watches
    cart     \* per tab: the cart controls and the flags of their handlers

shopVars == <<view, cart>>

\* watched, visible: elements (by product) observed, and half in view; dwell:
\* those whose 1 s timer runs; elapsed: those that have been in view as long;
\* timer: the 1.2 s timer of a product page with nothing to observe.
ViewType == [watched : SUBSET Products, visible : SUBSET Products,
             dwell : SUBSET Products, elapsed : SUBSET Products, timer : BOOLEAN]
NoView == [watched |-> {}, visible |-> {}, dwell |-> {}, elapsed |-> {}, timer |-> FALSE]

\* An add under way; key: what the click reported it under and nothing has
\* undone since (the key's two seconds, another selection).
AddType == [product : Products, key : Key \cup {None}]

\* clicked: the removal whose setTimeout(0) is to come, and whether an event
\* will tell of it; answers: those events to come; flag: removeFiredViaJQ;
\* told: the removals of this page that such an event told of, and so reported;
\* missed: those that nothing reported.
CartType == [variation : Variations \cup {None}, adding : AddType \cup {None},
             clicked : {"no", "confirmed", "silent"}, answers : Nat, flag : BOOLEAN,
             told : Nat, missed : Nat, paid : BOOLEAN]
NoCart == [variation |-> None, adding |-> None, clicked |-> "no", answers |-> 0,
           flag |-> FALSE, told |-> 0, missed |-> 0, paid |-> FALSE]

ShopTypeOK ==
    /\ view \in [Tabs -> ViewType]
    /\ cart \in [Tabs -> CartType]

ShopInit ==
    /\ view = [t \in Tabs |-> NoView]
    /\ cart = [t \in Tabs |-> NoCart]

ShopStep(t, ev) ==
    /\ Reports(t, ev) /\ ~Busy(t)
    /\ UNCHANGED <<shop, page, arrived, late, lapsed>>

Quiet == UNCHANGED <<once, jar, attempt, requests, sends>>

\* if (!eventOnce(k)) return; sendEvent(ev)
SendUnlessRemembered(t, k, ev) ==
    /\ IF Remembers(t, k) THEN UNCHANGED <<once, requests, sends>>
       ELSE once' = Remember(t, {k}) /\ SendEvents(t, <<ev>>, FALSE)
    /\ UNCHANGED <<jar, attempt>>

-----------------------------------------------------------------------------
(* ViewContent *)

ViewKey(t, p) ==
    [name |-> IF page[t].product # None THEN "ViewContent" ELSE "ViewContentCard",
     item |-> p, path |-> Path(t)]

\* What the script sets up while it loads: in one-page mode it waits until the
\* product section, or a product card, has been in view.
LoadedViews(p) ==
    IF ~p.onePage \/ ~Enabled("ViewContent") THEN {NoView}
    ELSE IF p.product = None THEN {[NoView EXCEPT !.watched = shop.goods]}
    ELSE {[NoView EXCEPT !.watched = {p.product}], [NoView EXCEPT !.timer = TRUE]}

\* At least half of the element is in view; when it passes three quarters the
\* timer starts anew.
EntersView(t, p) ==
    /\ ShopStep(t, "ViewContent") /\ p \in view[t].watched
    /\ view' = [view EXCEPT ![t].visible = @ \cup {p}, ![t].dwell = @ \cup {p}]
    /\ UNCHANGED cart /\ Quiet

\* Fault: one timer for all cards.
LeavesViewOneTimer(t, p) ==
    /\ ShopStep(t, "ViewContent") /\ p \in view[t].visible
    /\ view' = [view EXCEPT ![t].visible = @ \ {p}, ![t].elapsed = @ \ {p}, ![t].dwell = {}]
    /\ UNCHANGED cart /\ Quiet

LeavesView(t, p) ==
    /\ ShopStep(t, "ViewContent") /\ p \in view[t].visible
    /\ view' = [view EXCEPT ![t].visible = @ \ {p}, ![t].elapsed = @ \ {p},
                            ![t].dwell = IF p \in view[t].watched THEN @ \ {p} ELSE @]
    /\ UNCHANGED cart /\ Quiet

\* The product section is observed no more, whatever became of the report; a
\* card only when this timer reported it.
DwellElapses(t, p) ==
    LET k == ViewKey(t, p)
        over == page[t].product # None \/ ~Remembers(t, k)
    IN /\ ShopStep(t, "ViewContent") /\ p \in view[t].dwell
       /\ SendUnlessRemembered(t, k, "ViewContent")
       /\ view' = [view EXCEPT ![t].dwell = @ \ {p}, ![t].elapsed = @ \cup {p},
                               ![t].watched = IF over THEN @ \ {p} ELSE @]
       /\ UNCHANGED cart

ViewTimer(t) ==
    /\ ShopStep(t, "ViewContent") /\ view[t].timer
    /\ SendUnlessRemembered(t, ViewKey(t, page[t].product), "ViewContent")
    /\ view' = [view EXCEPT ![t].timer = FALSE]
    /\ UNCHANGED cart

\* found_variation, or the selection is taken back
SelectVariation(t) ==
    /\ Open(t) /\ Acts(t) /\ page[t].product \in Variable
    /\ \E v \in Variations \cup {None} :
        /\ v # cart[t].variation
        /\ cart' = [cart EXCEPT ![t].variation = v,
                                ![t].adding = IF @ = None THEN None ELSE [@ EXCEPT !.key = None]]
        /\ IF v = None \/ ~Enabled("ViewContent") THEN Quiet
           ELSE SendUnlessRemembered(t,
                    [name |-> "ViewContentVar", item |-> v, path |-> Path(t)], "ViewContent")
    /\ UNCHANGED <<shop, page, arrived, late, lapsed, view>>

-----------------------------------------------------------------------------
(* AddToCart *)

AddKey(t, id) == [name |-> "AddToCart", item |-> id, path |-> Path(t)]

\* Fault: the answer is reported under the button's product.
ConfirmedButton(t, p) == p

\* What the click handler and the added_to_cart handler take for the product.
ClickedId(t, kind, p) ==
    IF cart[t].variation # None THEN cart[t].variation
    ELSE IF page[t].product \in Variable THEN None
    ELSE IF CfgProduct(t) # None THEN CfgProduct(t)
    ELSE IF kind = "single" THEN None ELSE p    \* the form's button has no data-product_id
ConfirmedId(t, p) == IF cart[t].variation # None THEN cart[t].variation ELSE p

\* A report of an add starts a new checkout: it clears the markers first.
ReportAdd(t, k) ==
    IF Remembers(t, k) THEN Quiet
    ELSE /\ once' = Remember(t, {k})
         /\ jar' = ClearMarkers("tracker")
         /\ attempt' = attempt + 1
         /\ SendEvents(t, <<"AddToCart">>, FALSE)

\* kind: the form's button of a product page, which a theme may send by AJAX; a
\* loop button that adds by AJAX; a loop button that is a link.
ClickAdd(t, kind, p) ==
    LET id == ClickedId(t, kind, p)
        reported == kind # "loop" /\ id # None
        chosen == page[t].product \in Variable => cart[t].variation # None
        adds == kind = "loop" \/ (kind = "single" /\ chosen)
    IN /\ ShopStep(t, "AddToCart") /\ Acts(t)
       /\ kind = "single" => page[t].product = p
       /\ cart[t].adding = None
       /\ IF reported THEN ReportAdd(t, AddKey(t, id)) ELSE Quiet
       /\ cart' = [cart EXCEPT ![t].adding =
                      IF ~adds THEN None
                      ELSE [product |-> p, key |-> IF reported THEN AddKey(t, id) ELSE None]]
       /\ UNCHANGED view

\* WooCommerce's script tells that the cart has it.
AddedToCart(t) ==
    /\ ShopStep(t, "AddToCart") /\ cart[t].adding # None
    /\ ReportAdd(t, AddKey(t, ConfirmedId(t, cart[t].adding.product)))
    /\ cart' = [cart EXCEPT ![t].adding = None]
    /\ UNCHANGED view

AddFails(t) ==
    /\ ShopStep(t, "AddToCart") /\ cart[t].adding # None
    /\ cart' = [cart EXCEPT ![t].adding = None]
    /\ UNCHANGED view /\ Quiet

\* A call-to-action of a landing page
LandingCta(t, p) ==
    /\ ShopStep(t, "AddToCart") /\ Acts(t) /\ page[t].onePage
    /\ ReportAdd(t, [name |-> "AddToCartIntent", item |-> p, path |-> Path(t)])
    /\ UNCHANGED shopVars

\* The seconds or minutes eventOnce remembers a key are over.
OnceExpires(t, k) ==
    /\ shop.storage /\ k \in once[t]
    /\ once' = [once EXCEPT ![t] = @ \ {k}]
    /\ cart' = IF cart[t].adding # None /\ cart[t].adding.key = k
               THEN [cart EXCEPT ![t].adding.key = None] ELSE cart
    /\ UNCHANGED <<shop, page, jar, requests, arrived, sends, attempt, late, lapsed, view>>

-----------------------------------------------------------------------------
(* RemoveFromCart *)

\* The click handler waits a turn before it looks at the flag.
ClickRemove(t) ==
    /\ ShopStep(t, "RemoveFromCart") /\ Acts(t)
    /\ cart[t].clicked = "no"
    /\ \/ cart' = [cart EXCEPT ![t].clicked = "confirmed", ![t].answers = @ + 1]
       \/ cart' = [cart EXCEPT ![t].clicked = "silent"]
    /\ UNCHANGED view /\ Quiet

\* No event is to tell of the removal, and the flag drops the click's report.
Misses(t) == cart[t].clicked = "silent" /\ cart[t].flag

\* Fault: the flag is left standing.
RemoveTimerKeepsFlag(t) ==
    /\ ShopStep(t, "RemoveFromCart") /\ cart[t].clicked # "no"
    /\ cart' = [cart EXCEPT ![t].clicked = "no",
                            ![t].missed = IF Misses(t) THEN @ + 1 ELSE @]
    /\ SendEvents(t, IF cart[t].flag THEN <<>> ELSE <<"RemoveFromCart">>, FALSE)
    /\ UNCHANGED <<once, jar, attempt, view>>

\* classic: a link with an address, for which the call is synchronous
RemoveTimer(t) ==
    /\ ShopStep(t, "RemoveFromCart") /\ cart[t].clicked # "no"
    /\ cart' = [cart EXCEPT ![t].clicked = "no", ![t].flag = FALSE,
                            ![t].missed = IF Misses(t) THEN @ + 1 ELSE @]
    /\ IF cart[t].flag THEN UNCHANGED <<requests, sends>>
       ELSE \E classic \in BOOLEAN : SendEvents(t, <<"RemoveFromCart">>, classic)
    /\ UNCHANGED <<once, jar, attempt, view>>

\* removed_from_cart, wc-blocks_removed_from_cart
RemovedFromCart(t) ==
    /\ ShopStep(t, "RemoveFromCart") /\ cart[t].answers > 0
    /\ cart' = [cart EXCEPT ![t].answers = @ - 1, ![t].flag = TRUE,
                            ![t].told = @ + 1]
    /\ SendEvents(t, <<"RemoveFromCart">>, FALSE)
    /\ UNCHANGED <<once, jar, attempt, view>>

RemoveFails(t) ==
    /\ ShopStep(t, "RemoveFromCart") /\ cart[t].answers > 0
    /\ cart' = [cart EXCEPT ![t].answers = @ - 1]
    /\ UNCHANGED view /\ Quiet

-----------------------------------------------------------------------------
(* AddPaymentInfo and Lead *)

PaymentChosen(t) ==
    /\ ShopStep(t, "AddPaymentInfo") /\ Acts(t)
    /\ page[t].type = "checkout"
    /\ IF cart[t].paid THEN UNCHANGED <<requests, sends>>
       ELSE SendEvents(t, <<"AddPaymentInfo">>, FALSE)
    /\ cart' = [cart EXCEPT ![t].paid = TRUE]
    /\ UNCHANGED <<once, jar, attempt, view>>

\* Any form but the checkout's, the cart's, a search or a login
FormSubmitted(t) ==
    /\ ShopStep(t, "Lead") /\ Acts(t)
    /\ SendEvents(t, <<"Lead">>, FALSE)
    /\ UNCHANGED <<once, jar, attempt, shopVars>>
=============================================================================
