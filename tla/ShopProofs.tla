----------------------------- MODULE ShopProofs -----------------------------
(***************************************************************************)
(* Theorems about the tracker's other handlers (TrackerShop) and about the *)
(* fallback of an order, on top of the types proved in TrackerProofs.      *)
(***************************************************************************)
EXTENDS TrackerProofs

-----------------------------------------------------------------------------
(* ViewHasTimer                                                             *)

LEMMA ViewStarts == Init => ViewHasTimer
BY DEF Init, ShopInit, ViewHasTimer, NoView

\* Every step keeps the invariant.
LEMMA ViewNext ==
    ASSUME TypeOK, ViewHasTimer, [Next]_vars
    PROVE  ViewHasTimer'
<1> USE DEF ViewHasTimer
<1>0. view \in [Tabs -> ViewType]
  BY DEF TypeOK, ShopTypeOK
<1>1. ASSUME NEW t \in Tabs, NEW v, view' = [view EXCEPT ![t] = v],
             v.visible \subseteq v.dwell \cup v.elapsed
      PROVE  ViewHasTimer'
  BY <1>0, <1>1
<1>2. ASSUME NEW t \in Tabs, Opens(t) PROVE ViewHasTimer'
  <2>1. PICK p \in PageType : \E v \in LoadedViews(p) : view' = [view EXCEPT ![t] = v]
    BY <1>2 DEF Opens, Script
  <2>2. \A v \in LoadedViews(p) : v.visible = {}
    BY DEF LoadedViews, NoView
  <2> QED BY <1>1, <2>1, <2>2
<1>3. ASSUME NEW t \in Tabs, CloseTab(t) PROVE ViewHasTimer'
  BY <1>1, <1>3 DEF CloseTab, NoView
<1>4. ASSUME NEW t \in Tabs, ShopActs(t) PROVE ViewHasTimer'
  <2>0. view[t] \in ViewType
    BY <1>0
  <2>1. ASSUME NEW p \in shop.goods, EntersView(t, p) PROVE ViewHasTimer'
    BY <1>0, <2>0, <2>1 DEF EntersView, ViewType
  <2>2. ASSUME NEW p \in shop.goods, LeavesView(t, p) PROVE ViewHasTimer'
    BY <1>0, <2>0, <2>2 DEF LeavesView, ViewType
  <2>3. ASSUME NEW p \in shop.goods, DwellElapses(t, p) PROVE ViewHasTimer'
    BY <1>0, <2>0, <2>3 DEF DwellElapses, ViewType
  <2>4. CASE ViewTimer(t)
    BY <1>0, <2>0, <2>4 DEF ViewTimer, ViewType
  <2>5. CASE view' = view
    BY <2>5
  <2> QED
    BY <1>4, <2>1, <2>2, <2>3, <2>4, <2>5
    DEF ShopActs, LandingCta, ClickAdd, SelectVariation, AddedToCart, AddFails, OnceExpires,
        ClickRemove, RemoveTimer, RemovedFromCart, RemoveFails, PaymentChosen, FormSubmitted, shopVars
<1>5. CASE view' = view
  BY <1>5
<1> QED BY <1>2, <1>3, <1>4, <1>5, Steps DEF Elsewhere, shopVars

\* What is in view has its timer or has had its second.
THEOREM ViewIsTimed == Spec => []ViewHasTimer
<1>1. TypeOK /\ ViewHasTimer /\ [Next]_vars => (TypeOK /\ ViewHasTimer)'
  BY TypeNext, ViewNext
<1> QED BY <1>1, TypeInit, ViewStarts, PTL DEF Spec

-----------------------------------------------------------------------------
(* The cart handlers: what a step leaves of a tab's cart.                   *)

\* The handlers of the cart, apart from the removals'
AddActs(t) ==
    \/ SelectVariation(t) \/ AddedToCart(t) \/ AddFails(t)
    \/ \E p \in shop.goods, kind \in {"single", "loop", "link"} : ClickAdd(t, kind, p)
    \/ \E k \in once[t] : OnceExpires(t, k)
RemoveActs(t) == ClickRemove(t) \/ RemoveTimer(t) \/ RemovedFromCart(t) \/ RemoveFails(t)

\* A step opens or closes a page, is one of those handlers, notes that payment
\* was chosen, or leaves the carts alone.
LEMMA CartSteps ==
    ASSUME TypeOK, [Next]_vars
    PROVE  \/ \E t \in Tabs : (Opens(t) \/ CloseTab(t)) /\ cart' = [cart EXCEPT ![t] = NoCart]
           \/ \E t \in Tabs : RemoveActs(t)
           \/ \E t \in Tabs : AddActs(t)
           \/ \E t \in Tabs : PaymentChosen(t)
           \/ cart' = cart
<1>1. ASSUME NEW t \in Tabs, Opens(t) \/ CloseTab(t) PROVE cart' = [cart EXCEPT ![t] = NoCart]
  BY <1>1 DEF Opens, Script, CloseTab
<1>2. ASSUME NEW t \in Tabs, ShopActs(t)
      PROVE  RemoveActs(t) \/ AddActs(t) \/ PaymentChosen(t) \/ cart' = cart
  BY <1>2
  DEF ShopActs, EntersView, LeavesView, DwellElapses, LandingCta, ViewTimer, FormSubmitted,
      shopVars, AddActs, RemoveActs
<1> QED BY <1>1, <1>2, Steps DEF Elsewhere, shopVars

-----------------------------------------------------------------------------
(* OneLossPerAnswer.  An answer that has not cost a report yet is one whose *)
(* flag is still up.                                                        *)

Dropping(c) == IF c.flag THEN 1 ELSE 0
Accounted(c) == c.missed + Dropping(c) <= c.told

RemovalInv == \A t \in Tabs : Accounted(cart[t])

LEMMA RemovalAccounted ==
    ASSUME ShopTypeOK, NEW t \in Tabs, Accounted(cart[t]), RemovalStep(t)
    PROVE  Accounted(cart'[t])
<1> DEFINE c == cart[t]
           d == cart'[t]
<1>0. c \in CartType /\ c.told \in Nat /\ c.missed \in Nat /\ Accounted(c)
  BY DEF ShopTypeOK, CartType
<1>1. CASE d = [c EXCEPT !.clicked = "confirmed", !.answers = @ + 1] \/ d = [c EXCEPT !.clicked = "silent"]
  BY <1>0, <1>1 DEF Accounted, Dropping, CartType
<1>2. CASE d = [c EXCEPT !.clicked = "no", !.flag = FALSE,
                         !.missed = IF Misses(t) THEN @ + 1 ELSE @]
  BY <1>0, <1>2 DEF Accounted, Dropping, CartType, Misses
<1>3. CASE d = [c EXCEPT !.answers = @ - 1, !.flag = TRUE, !.told = @ + 1]
  BY <1>0, <1>3 DEF Accounted, Dropping, CartType
<1>4. CASE d = [c EXCEPT !.answers = @ - 1]
  BY <1>0, <1>4 DEF Accounted, Dropping, CartType
<1> QED BY <1>1, <1>2, <1>3, <1>4 DEF RemovalStep

\* The handlers of an add do not touch the tally.
LEMMA AddsKeepTally ==
    ASSUME TypeOK, NEW t \in Tabs, AddActs(t) \/ PaymentChosen(t), NEW u \in Tabs
    PROVE  /\ cart'[u].told = cart[u].told /\ cart'[u].missed = cart[u].missed
           /\ cart'[u].flag <=> cart[u].flag
<1> USE DEF CartType
<1>0. cart \in [Tabs -> CartType]
  BY DEF TypeOK, ShopTypeOK
<1>1. ASSUME NEW a, cart' = [cart EXCEPT ![t].adding = a]
      PROVE  /\ cart'[u].told = cart[u].told /\ cart'[u].missed = cart[u].missed
             /\ cart'[u].flag <=> cart[u].flag
  BY <1>0, <1>1
<1>2. CASE SelectVariation(t)
  BY <1>0, <1>2 DEF SelectVariation
<1>3. CASE AddedToCart(t) \/ AddFails(t)
  BY <1>1, <1>3 DEF AddedToCart, AddFails
<1>4. ASSUME NEW p, NEW kind, ClickAdd(t, kind, p) PROVE \E a : cart' = [cart EXCEPT ![t].adding = a]
  BY <1>4 DEF ClickAdd
<1>5. ASSUME NEW k, OnceExpires(t, k)
      PROVE  cart' = cart \/ \E a : cart' = [cart EXCEPT ![t].adding = a]
  BY <1>5 DEF OnceExpires
<1>6. CASE PaymentChosen(t)
  BY <1>0, <1>6 DEF PaymentChosen
<1> QED BY <1>0, <1>1, <1>2, <1>3, <1>4, <1>5, <1>6 DEF AddActs

LEMMA RemovalNext ==
    ASSUME TypeOK, RemovalInv, [Next]_vars
    PROVE  RemovalInv'
<1> USE DEF RemovalInv
<1>0. ShopTypeOK /\ cart \in [Tabs -> CartType]
  BY DEF TypeOK, ShopTypeOK
<1>1. ASSUME NEW t \in Tabs, cart' = [cart EXCEPT ![t] = NoCart] PROVE RemovalInv'
  BY <1>0, <1>1 DEF NoCart, Accounted, Dropping
<1>2. ASSUME NEW t \in Tabs, RemoveActs(t) PROVE RemovalInv'
  <2>1. Accounted(cart'[t])
    BY <1>0, <1>2, RemovalSteps, RemovalAccounted DEF RemoveActs
  <2>2. \A u \in Tabs \ {t} : cart'[u] = cart[u]
    BY <1>0, <1>2, RemovalSteps DEF RemoveActs
  <2> QED BY <2>1, <2>2
<1>3. ASSUME NEW t \in Tabs, AddActs(t) \/ PaymentChosen(t) PROVE RemovalInv'
  BY <1>3, AddsKeepTally DEF Accounted, Dropping
<1>4. CASE cart' = cart
  BY <1>4
<1> QED BY <1>1, <1>2, <1>3, <1>4, CartSteps

LEMMA RemovalStarts == Init => RemovalInv
BY DEF Init, ShopInit, RemovalInv, Accounted, Dropping, NoCart

\* However clicks, timers and events interleave, a page loses no more reports of
\* removals than WooCommerce's events told of, so none where they tell of none.
THEOREM LossesHaveAnswers == Spec => []OneLossPerAnswer
<1>1. TypeOK /\ RemovalInv => OneLossPerAnswer
  BY DEF TypeOK, ShopTypeOK, CartType, RemovalInv, Accounted, Dropping, OneLossPerAnswer
<1>2. TypeOK /\ RemovalInv /\ [Next]_vars => (TypeOK /\ RemovalInv)'
  BY TypeNext, RemovalNext
<1> QED BY <1>1, <1>2, TypeInit, RemovalStarts, PTL DEF Spec

-----------------------------------------------------------------------------
(* AddOnce.  The key the click reported is the one WooCommerce's answer      *)
(* will be reported under, and eventOnce still remembers it.                *)

Kept(a, t) ==
    a # None /\ a.key # None
        => Remembers(t, a.key) /\ a.key = AddKey(t, ConfirmedId(t, a.product))
AddInv == \A t \in Tabs : Kept(cart[t].adding, t)

LEMMA AddStarts == Init => AddInv
BY DEF Init, ShopInit, AddInv, Kept, NoCart

\* No handler forgets a key, but for its end.
LEMMA OnceGrows ==
    ASSUME TypeOK, NEW t \in Tabs, AddActs(t) \/ PaymentChosen(t) \/ ShopActs(t),
           ~\E k \in once[t] : OnceExpires(t, k)
    PROVE  \A u \in Tabs : once[u] \subseteq once'[u]
<1>0. once \in [Tabs -> SUBSET Key]
  BY DEF TypeOK, SendTypeOK
<1>1. ASSUME NEW keys, once' = Remember(t, keys) PROVE \A u \in Tabs : once[u] \subseteq once'[u]
  BY <1>0, <1>1 DEF Remember
<1>2. ASSUME NEW k, NEW ev, SendUnlessRemembered(t, k, ev)
      PROVE  \A u \in Tabs : once[u] \subseteq once'[u]
  BY <1>1, <1>2 DEF SendUnlessRemembered
<1>3. ASSUME NEW k, ReportAdd(t, k) PROVE \A u \in Tabs : once[u] \subseteq once'[u]
  BY <1>1, <1>3 DEF ReportAdd, Quiet
<1>4. ASSUME NEW p, EntersView(t, p) \/ LeavesView(t, p) \/ DwellElapses(t, p) \/ LandingCta(t, p)
      PROVE  \A u \in Tabs : once[u] \subseteq once'[u]
  BY <1>2, <1>3, <1>4 DEF EntersView, LeavesView, DwellElapses, LandingCta, Quiet
<1>5. ASSUME NEW p, NEW kind, ClickAdd(t, kind, p) PROVE \A u \in Tabs : once[u] \subseteq once'[u]
  BY <1>3, <1>5 DEF ClickAdd, Quiet
<1>6. CASE ViewTimer(t) \/ SelectVariation(t)
  BY <1>2, <1>6 DEF ViewTimer, SelectVariation, Quiet
<1>7. CASE AddedToCart(t) \/ AddFails(t)
  BY <1>3, <1>7 DEF AddedToCart, AddFails, Quiet
<1>8. CASE \/ ClickRemove(t) \/ RemoveTimer(t) \/ RemovedFromCart(t) \/ RemoveFails(t)
           \/ PaymentChosen(t) \/ FormSubmitted(t)
  BY <1>8 DEF ClickRemove, RemoveTimer, RemovedFromCart, RemoveFails, PaymentChosen,
              FormSubmitted, Quiet
<1> QED BY <1>4, <1>5, <1>6, <1>7, <1>8 DEF AddActs, ShopActs

\* A click that reports and adds remembers the key of the answer.
LEMMA ClickKeeps ==
    ASSUME TypeOK, NEW t \in Tabs, NEW p \in shop.goods, NEW kind \in {"single", "loop", "link"},
           ClickAdd(t, kind, p)
    PROVE  Kept(cart[t].adding, t)'
<1> DEFINE id == ClickedId(t, kind, p)
           reported == kind # "loop" /\ id # None
           chosen == page[t].product \in Variable => cart[t].variation # None
           adds == kind = "loop" \/ (kind = "single" /\ chosen)
           a == IF ~adds THEN None
                ELSE [product |-> p, key |-> IF reported THEN AddKey(t, id) ELSE None]
<1>0. cart \in [Tabs -> CartType] /\ once \in [Tabs -> SUBSET Key] /\ page' = page
  BY DEF TypeOK, ShopTypeOK, SendTypeOK, ClickAdd, ShopStep
<1>1. /\ IF reported THEN ReportAdd(t, AddKey(t, id)) ELSE Quiet
      /\ cart' = [cart EXCEPT ![t].adding = a]
      /\ kind = "single" => page[t].product = p
  BY DEF ClickAdd
<1>2. cart'[t].adding = a /\ cart'[t].variation = cart[t].variation
  BY <1>0, <1>1 DEF CartType
<1>3. CASE adds /\ reported
  <2>1. kind = "single" /\ page[t].product = p /\ id # None
    BY <1>1, <1>3
  <2>2. id = ConfirmedId(t, p)
    BY <1>3, <2>1 DEF ClickedId, ConfirmedId, CfgProduct
  <2>3. AddKey(t, id) \in once'[t]
    BY <1>0, <1>1, <1>3 DEF ReportAdd, Remembers, Remember, Quiet
  <2>4. AddKey(t, ConfirmedId(t, p))' = AddKey(t, id)
    BY <1>0, <1>2, <2>2 DEF AddKey, ConfirmedId, Path
  <2>5. a.product = p /\ a.key = AddKey(t, id)
    BY <1>3
  <2> HIDE DEF a, id
  <2> QED BY <1>2, <2>3, <2>4, <2>5 DEF Kept, Remembers
<1>4. CASE ~(adds /\ reported)
  <2>1. a = None \/ a.key = None
    BY <1>4
  <2> HIDE DEF a
  <2> QED BY <1>2, <2>1 DEF Kept
<1> QED BY <1>3, <1>4

LEMMA AddNext ==
    ASSUME TypeOK, AddInv, [Next]_vars
    PROVE  AddInv'
<1>0. /\ cart \in [Tabs -> CartType] /\ once \in [Tabs -> SUBSET Key]
      /\ page \in [Tabs -> PageType \cup {NoPage}]
  BY DEF TypeOK, ShopTypeOK, SendTypeOK
\* A tab whose add, choice and path stay, and whose keys grow
<1>1. ASSUME NEW u \in Tabs, cart'[u].adding = cart[u].adding,
             cart'[u].variation = cart[u].variation, page'[u] = page[u],
             once[u] \subseteq once'[u]
      PROVE  Kept(cart[u].adding, u)'
  BY <1>1 DEF AddInv, Kept, Remembers, AddKey, ConfirmedId, Path
\* A tab whose add is over, or reported under no key
<1>2. ASSUME NEW u \in Tabs, cart'[u].adding = None \/ cart'[u].adding.key = None
      PROVE  Kept(cart[u].adding, u)'
  BY <1>2 DEF Kept
<1>3. ASSUME NEW t \in Tabs, Opens(t) \/ CloseTab(t) PROVE AddInv'
  <2>1. cart' = [cart EXCEPT ![t] = NoCart]
    BY <1>3 DEF Opens, Script, CloseTab
  <2>2. \A u \in Tabs \ {t} :
           cart'[u] = cart[u] /\ page'[u] = page[u] /\ once'[u] = once[u]
    BY <1>0, <1>3, <2>1 DEF Opens, Script, CloseTab
  <2>3. cart'[t].adding = None
    BY <1>0, <2>1 DEF NoCart
  <2> QED BY <1>1, <1>2, <2>2, <2>3 DEF AddInv
<1>4. ASSUME NEW t \in Tabs, ShopActs(t), page' = page PROVE AddInv'
  <2>1. ASSUME NEW a, cart' = [cart EXCEPT ![t].adding = a]
        PROVE  /\ cart'[t].adding = a /\ cart'[t].variation = cart[t].variation
               /\ \A u \in Tabs \ {t} : cart'[u] = cart[u]
    BY <1>0, <2>1 DEF CartType
  <2>2. ASSUME \A u \in Tabs : /\ cart'[u].adding = cart[u].adding
                               /\ cart'[u].variation = cart[u].variation,
               ~\E k \in once[t] : OnceExpires(t, k)
        PROVE  AddInv'
    BY <1>1, <1>4, <2>2, OnceGrows DEF AddInv
  <2>3. ASSUME \A u \in Tabs \ {t} : cart'[u] = cart[u],
               ~\E k \in once[t] : OnceExpires(t, k), Kept(cart[t].adding, t)'
        PROVE  AddInv'
    BY <1>1, <1>4, <2>3, OnceGrows DEF AddInv
  <2>4. ASSUME NEW k \in once[t], OnceExpires(t, k) PROVE AddInv'
    <3>1. once' = [once EXCEPT ![t] = @ \ {k}]
      BY <2>4 DEF OnceExpires
    <3>2. \A u \in Tabs \ {t} : cart'[u] = cart[u] /\ once'[u] = once[u]
      BY <1>0, <2>4, <3>1 DEF OnceExpires
    <3>3. \A u \in Tabs \ {t} : Kept(cart[u].adding, u)'
      BY <1>1, <1>4, <3>2
    <3>4. CASE cart[t].adding # None /\ cart[t].adding.key = k
      <4>1. cart[t].adding \in AddType
        BY <1>0, <3>4 DEF CartType
      <4>2. cart'[t].adding.key = None
        BY <1>0, <2>4, <3>4, <4>1 DEF OnceExpires, AddType, CartType
      <4> QED BY <1>2, <3>3, <4>2 DEF AddInv
    <3>5. CASE ~(cart[t].adding # None /\ cart[t].adding.key = k)
      <4>1. cart' = cart
        BY <2>4, <3>5 DEF OnceExpires
      <4>2. once'[t] = once[t] \ {k}
        BY <1>0, <3>1
      <4>3. Kept(cart[t].adding, t)'
        BY <1>4, <3>5, <4>1, <4>2 DEF AddInv, Kept, Remembers, AddKey, ConfirmedId, Path
      <4> QED BY <3>3, <4>3 DEF AddInv
    <3> QED BY <3>4, <3>5
  <2>5. CASE ~\E k \in once[t] : OnceExpires(t, k)
    <3>1. CASE SelectVariation(t)
      <4>1. cart[t].adding \in AddType \cup {None}
        BY <1>0 DEF CartType
      <4>2. /\ cart'[t].adding = IF cart[t].adding = None THEN None
                                 ELSE [cart[t].adding EXCEPT !.key = None]
            /\ \A u \in Tabs \ {t} : cart'[u] = cart[u]
        BY <1>0, <3>1 DEF SelectVariation, CartType
      <4>3. cart'[t].adding = None \/ cart'[t].adding.key = None
        BY <4>1, <4>2 DEF AddType
      <4> QED BY <1>2, <2>3, <2>5, <4>2, <4>3
    <3>2. CASE AddedToCart(t) \/ AddFails(t)
      <4>1. cart' = [cart EXCEPT ![t].adding = None]
        BY <3>2 DEF AddedToCart, AddFails
      <4> QED BY <1>2, <2>1, <2>3, <2>5, <4>1
    <3>3. ASSUME NEW p \in shop.goods, NEW kind \in {"single", "loop", "link"}, ClickAdd(t, kind, p)
          PROVE  AddInv'
      <4>1. PICK a : cart' = [cart EXCEPT ![t].adding = a]
        BY <3>3 DEF ClickAdd
      <4>2. \A u \in Tabs \ {t} : cart'[u] = cart[u]
        BY <2>1, <4>1
      <4>3. Kept(cart[t].adding, t)'
        BY <3>3, ClickKeeps
      <4> QED BY <2>3, <2>5, <4>2, <4>3
    <3>4. CASE RemoveActs(t) \/ PaymentChosen(t)
      <4>1. \A u \in Tabs : /\ cart'[u].adding = cart[u].adding
                            /\ cart'[u].variation = cart[u].variation
        <5>1. CASE RemoveActs(t)
          <6>1. RemovalStep(t) /\ cart' = [cart EXCEPT ![t] = cart'[t]]
            BY <5>1, RemovalSteps DEF RemoveActs, TypeOK
          <6>2. cart'[t].adding = cart[t].adding /\ cart'[t].variation = cart[t].variation
            <7>1. {"adding", "variation"} \subseteq DOMAIN cart[t]
              BY <1>0 DEF CartType
            <7> QED BY <6>1, <7>1 DEF RemovalStep
          <6>3. \A u \in Tabs \ {t} : cart'[u] = cart[u]
            BY <1>0, <6>1
          <6> QED BY <6>2, <6>3
        <5>2. CASE PaymentChosen(t)
          BY <1>0, <5>2 DEF PaymentChosen, CartType
        <5> QED BY <3>4, <5>1, <5>2
      <4> QED BY <2>2, <2>5, <4>1
    <3>5. CASE cart' = cart
      BY <2>2, <2>5, <3>5
    <3> QED
      BY <1>4, <2>5, <3>1, <3>2, <3>3, <3>4, <3>5
      DEF ShopActs, EntersView, LeavesView, DwellElapses, LandingCta, ViewTimer, FormSubmitted,
          shopVars, RemoveActs
  <2> QED BY <2>4, <2>5
<1>5. CASE UNCHANGED <<page, once, cart>>
  BY <1>5 DEF AddInv, Kept, Remembers, AddKey, ConfirmedId, Path
<1> QED BY <1>3, <1>4, <1>5, Steps DEF Elsewhere, shopVars

\* What the click reported, WooCommerce's answer does not report again.
THEOREM AddReportedOnce == Spec => []AddOnce
<1>1. AddInv => AddOnce
  BY DEF AddInv, Kept, AddOnce
<1>2. TypeOK /\ AddInv /\ [Next]_vars => (TypeOK /\ AddInv)'
  BY TypeNext, AddNext
<1> QED BY <1>1, <1>2, TypeInit, AddStarts, PTL DEF Spec

-----------------------------------------------------------------------------
(* FallbackCovers.  An order is marked as sent only when the gateway has its *)
(* checkout, and at the thank-you page it is marked unless it was refused.  *)

Has(o) == \E a \in arrived : a.attempt = o.attempt

FallbackInv ==
    /\ order.stage \in {"none", "draft"} => ~order.sent
    /\ order.sent => Has(order)
    /\ order.stage = "thankyou" /\ Enabled("InitiateCheckout") /\ ~order.refused => order.sent

LEMMA FallbackStarts == Init => FallbackInv
BY DEF Init, CheckoutInit, FallbackInv, NoOrder

\* What a step makes of the order and of what has arrived.
LEMMA OrderSteps ==
    ASSUME TypeOK, [Next]_vars
    PROVE  /\ shop' = shop
           /\ \/ \E t \in Tabs : DraftOrder(t) \/ PlaceOrder(t) \/ ThankYou(t)
              \/ OrderAnswered
              \/ order' = order /\ arrived \subseteq arrived'
<1>1. shop' = shop
  BY Steps
<1>2. CASE (Network \/ MarkerExpires) /\ UNCHANGED <<checkoutVars, shopVars, loads>>
  BY <1>2 DEF Network, Returns, MarkerExpires, RelayRest, RelayAjax, Handle, Answer, LoseAnswer,
              checkoutVars
<1>3. ASSUME NEW t \in Tabs, LoadPage(t) \/ CloseTab(t) PROVE UNCHANGED <<order, arrived>>
  BY <1>3 DEF LoadPage, CloseTab
<1>4. ASSUME NEW t \in Tabs, CheckoutActs(t) PROVE UNCHANGED <<order, arrived>>
  BY <1>4 DEF CheckoutActs, BindAgain, SurfaceCheck, DomChanges, DebounceEnds, FieldInput,
         CheckoutButton, SubmitCheckout, WooEvent, IdentifyBlur, CheckoutStep
<1>5. ASSUME NEW t \in Tabs, ShopActs(t) PROVE UNCHANGED arrived
  BY <1>5 DEF ShopActs, EntersView, LeavesView, DwellElapses, LandingCta, ClickAdd, ViewTimer,
         SelectVariation, AddedToCart, AddFails, OnceExpires, ClickRemove, RemoveTimer,
         RemovedFromCart, RemoveFails, PaymentChosen, FormSubmitted, ShopStep
<1>6. CASE UNCHANGED vars
  BY <1>6 DEF vars, sendVars, checkoutVars
<1> QED BY <1>1, <1>2, <1>3, <1>4, <1>5, <1>6 DEF Next, OrderActs, checkoutVars

\* The fallback of an order that was marked rightly marks it rightly, and leaves
\* it marked or refused.
LEMMA FallbackMarks ==
    ASSUME NEW o \in OrderType, NEW marker, Fallback(o, marker), o.sent => Has(o), shop' = shop
    PROVE  /\ order'.sent => Has(order)'
           /\ order'.stage = o.stage
           /\ Enabled("InitiateCheckout")' /\ ~order'.refused => order'.sent
<1>1. CASE o.sent \/ ~Enabled("InitiateCheckout")
  BY <1>1 DEF Fallback, Has, Enabled
<1>2. CASE ~(o.sent \/ ~Enabled("InitiateCheckout"))
  <2>1. PICK got \in BOOLEAN, ok \in BOOLEAN :
          /\ ok => got
          /\ order' = [o EXCEPT !.sent = ok, !.refused = @ \/ ~ok]
          /\ arrived' = arrived \cup
                 {[id |-> i[1], attempt |-> o.attempt, from |-> i[2]] :
                      i \in IF got THEN {FallbackId(o, marker)} ELSE {}}
    BY <1>2 DEF Fallback
  <2>2. /\ order'.sent <=> ok
        /\ order'.stage = o.stage /\ order'.attempt = o.attempt
    BY <2>1 DEF OrderType
  <2>3. order'.refused <=> (o.refused \/ ~ok)
    BY <2>1, Zenon DEF OrderType
  <2>4. got => [id |-> FallbackId(o, marker)[1], attempt |-> o.attempt,
                from |-> FallbackId(o, marker)[2]] \in arrived'
    BY <2>1
  <2>5. ok => Has(order)'
    BY <2>1, <2>2, <2>4 DEF Has
  <2> QED BY <2>2, <2>3, <2>5
<1> QED BY <1>1, <1>2

LEMMA FallbackNext ==
    ASSUME TypeOK, FallbackInv, [Next]_vars
    PROVE  FallbackInv'
<1>0. SendTypeOK /\ CheckoutTypeOK /\ order \in OrderType /\ shop' = shop
  BY OrderSteps DEF TypeOK, CheckoutTypeOK
<1>1. CASE order' = order /\ arrived \subseteq arrived'
  BY <1>0, <1>1 DEF FallbackInv, Has, Enabled
<1>2. CASE OrderAnswered
  <2>1. /\ order'.stage = "processed" /\ order'.attempt = order.attempt
        /\ order'.sent <=> order.sent
        /\ arrived' = arrived
    BY <1>0, <1>2 DEF OrderAnswered, OrderType
  <2> QED BY <2>1 DEF FallbackInv, Has
<1>3. ASSUME NEW t \in Tabs, DraftOrder(t) PROVE FallbackInv'
  <2>1. order'.stage = "draft" /\ ~order'.sent
    BY <1>3 DEF DraftOrder, NoOrder
  <2> QED BY <2>1 DEF FallbackInv
<1>4. ASSUME NEW t \in Tabs, PlaceOrder(t) PROVE FallbackInv'
  <2>1. PICK snap \in Snapshot :
          LET o == [(IF shop.blocks THEN order ELSE [NoOrder(order.no + 1) EXCEPT !.snap = snap])
                    EXCEPT !.stage = "processed", !.attempt = attempt, !.tab = t]
          IN IF shop.blocks THEN order' = o /\ UNCHANGED arrived ELSE Fallback(o, snap)
    BY <1>4 DEF PlaceOrder
  <2> DEFINE q == IF shop.blocks THEN order ELSE [NoOrder(order.no + 1) EXCEPT !.snap = snap]
             o == [q EXCEPT !.stage = "processed", !.attempt = attempt, !.tab = t]
  <2>2. q \in OrderType
    BY <1>0, NewOrderType, SnapshotType DEF OrderType
  <2>3. ~q.sent
    BY <1>0, <1>4 DEF PlaceOrder, FallbackInv, NoOrder
  <2> HIDE DEF q
  <2>4. o \in OrderType /\ ~o.sent /\ o.stage = "processed"
    BY <1>0, <2>2, <2>3 DEF OrderType, SendTypeOK
  <2>5. order' = o \/ Fallback(o, snap)
    BY <2>1 DEF q
  <2> HIDE DEF o
  <2>6. order'.stage = "processed" /\ (order'.sent => Has(order)')
    BY <1>0, <2>4, <2>5, FallbackMarks
  <2> QED BY <2>6 DEF FallbackInv
<1>5. ASSUME NEW t \in Tabs, ThankYou(t) PROVE FallbackInv'
  <2> DEFINE o == [order EXCEPT !.stage = "thankyou"]
  <2>1. \E marker \in Snapshot : Fallback(o, marker)
    BY <1>5 DEF ThankYou
  <2>2. o \in OrderType /\ o.stage = "thankyou" /\ o.attempt = order.attempt /\ (o.sent <=> order.sent)
    BY <1>0 DEF OrderType
  <2> HIDE DEF o
  <2>3. o.sent => Has(o)
    BY <2>2 DEF FallbackInv, Has
  <2>4. /\ order'.sent => Has(order)'
        /\ order'.stage = "thankyou"
        /\ Enabled("InitiateCheckout")' /\ ~order'.refused => order'.sent
    BY <1>0, <2>1, <2>2, <2>3, FallbackMarks
  <2> QED BY <2>4 DEF FallbackInv
<1> QED BY <1>1, <1>2, <1>3, <1>4, <1>5, OrderSteps

\* A thank-you page is shown only for an order whose checkout the gateway has,
\* or has refused.
THEOREM FallbackCoversOrder == Spec => []FallbackCovers
<1>1. FallbackInv => FallbackCovers
  BY DEF FallbackInv, Has, FallbackCovers
<1>2. TypeOK /\ FallbackInv /\ [Next]_vars => (TypeOK /\ FallbackInv)'
  BY TypeNext, FallbackNext
<1> QED BY <1>1, <1>2, TypeInit, FallbackStarts, PTL DEF Spec

=============================================================================
