------------------------------ MODULE IdProofs ------------------------------
(***************************************************************************)
(* The event id of a checkout: where the tracker and the plugin clear the  *)
(* same cookie, no id is carried from one checkout to the next.  TLC looks *)
(* at two tabs and two orders; this is for any number of both.  And seen   *)
(* from the checkout: between two clearings of the markers one id is       *)
(* carried, in every shop without the block checkout, whatever domains the *)
(* cookies are set for.                                                    *)
(***************************************************************************)
EXTENDS TrackerProofs

\* Calls, reports of pages and snapshots, the marker, and the order's snapshot
\* carry an id for an attempt.
Carries(i, n) ==
    \/ \E r \in requests : r.ev = "InitiateCheckout" /\ r.id = i /\ r.attempt = n
    \/ \E a \in arrived : a.from \in {"page", "snapshot"} /\ a.id = i /\ a.attempt = n
    \/ i \in Markers /\ n = attempt
    \/ i = order.snap /\ n = order.attempt

Old(i) == 1 <= i /\ i <= sends

\* Every id was given out; the same one belongs to one attempt, unless a late
\* answer put it back.
OldIds == \A i \in Int, n \in Nat : Carries(i, n) => Old(i)
OneAttempt ==
    \A i \in Int : \A m, n \in Nat : Carries(i, m) /\ Carries(i, n) => m = n \/ i \in late

\* An order's own id is below zero, and the next order has another.
OrderIds ==
    /\ order.stage \in {"processed", "thankyou"} => order.no >= 1
    /\ \A a \in arrived :
        a.from = "order" =>
            /\ a.id <= -1 /\ -a.id <= order.no
            /\ -a.id = order.no => a.attempt = order.attempt
    /\ \A a, b \in arrived :
        a.from = "order" /\ b.from = "order" /\ a.id = b.id => a.attempt = b.attempt

OneCookie == shop.sameDomain /\ ~shop.blocks
IdInv == OneCookie => jar["plugin"] = None /\ OldIds /\ OneAttempt /\ OrderIds

-----------------------------------------------------------------------------
(* What a step may add to the ids that are carried.                         *)

NoneAdded == \A i \in Int, n \in Nat : Carries(i, n)' => Carries(i, n)

\* An id is given out for this attempt, or one that a late answer puts back.
New(i, n) ==
    \/ i = sends + 1 /\ sends + 1 <= sends' /\ n = attempt
    \/ Old(i) /\ i \in late'

LEMMA IdsKept ==
    ASSUME TypeOK, TypeOK', OldIds, OneAttempt, sends <= sends', late \subseteq late',
           \A i \in Int, n \in Nat : Carries(i, n)' => Carries(i, n) \/ New(i, n)
    PROVE  OldIds' /\ OneAttempt'
<1>0. sends \in Nat /\ sends' \in Nat
  BY DEF TypeOK, SendTypeOK
<1>1. OldIds'
  BY <1>0 DEF OldIds, Old, New
<1>2. ASSUME NEW i \in Int, NEW m \in Nat, NEW n \in Nat, Carries(i, m)', Carries(i, n)'
      PROVE  m = n \/ i \in late'
  <2>1. (Carries(i, m) \/ New(i, m)) /\ (Carries(i, n) \/ New(i, n))
    BY <1>2
  <2>2. CASE i \in late'
    BY <2>2
  <2>3. CASE Carries(i, m) /\ Carries(i, n)
    BY <2>3 DEF OneAttempt
  <2>4. CASE i \notin late' /\ ~(Carries(i, m) /\ Carries(i, n))
    BY <1>0, <2>1, <2>4 DEF New, OldIds, Old
  <2> QED BY <2>2, <2>3, <2>4
<1> QED BY <1>1, <1>2 DEF OneAttempt

\* The markers, where the tracker and the plugin name one cookie
LEMMA OneMarker ==
    ASSUME TypeOK, OneCookie, jar["plugin"] = None
    PROVE  /\ Slot("tracker") = "tracker" /\ Slot("plugin") = "tracker"
           /\ Markers = {jar["tracker"]} \ {None}
           /\ \A i \in Int : i # None
BY TrackerAssumption DEF OneCookie, Slot, Slots, Markers, TypeOK, SendTypeOK

\* Writing the cookie, and what is carried by it then
LEMMA CookieWritten ==
    ASSUME TypeOK, OneCookie, jar["plugin"] = None, NEW i \in Int \cup {None},
           jar' = [jar EXCEPT !["tracker"] = i]
    PROVE  jar'["plugin"] = None /\ Markers' = {i} \ {None}
<1>1. jar'["plugin"] = None /\ jar'["tracker"] = i
  BY DEF TypeOK, SendTypeOK, Slots
<1> QED BY <1>1 DEF Markers, Slots

-----------------------------------------------------------------------------
(* The steps.                                                               *)

\* The calls under way for an InitiateCheckout are those there were.
SameCalls ==
    \A s \in requests' : s.ev = "InitiateCheckout" =>
        \E r \in requests : r.ev = s.ev /\ r.id = s.id /\ r.attempt = s.attempt

\* Nothing but calls and cookies changes, and no cookie is set.
LEMMA Neutral ==
    ASSUME TypeOK, TypeOK', OneCookie, IdInv, SameCalls, UNCHANGED <<shop, arrived, order>>,
           sends <= sends', late \subseteq late',
           UNCHANGED <<jar, attempt>> \/ jar' = [jar EXCEPT !["tracker"] = None]
    PROVE  IdInv'
<1>1. jar'["plugin"] = None /\ (Markers' = {} \/ (Markers' = Markers /\ attempt' = attempt))
  <2>1. CASE UNCHANGED <<jar, attempt>>
    <3>1. jar["plugin"] = None
      BY DEF IdInv
    <3> QED BY <2>1, <3>1 DEF Markers
  <2>2. CASE jar' = [jar EXCEPT !["tracker"] = None]
    <3>1. jar'["plugin"] = None /\ jar'["tracker"] = None
      BY <2>2 DEF IdInv, TypeOK, SendTypeOK, Slots
    <3>2. Markers' = {}
      BY <3>1 DEF Markers, Slots
    <3> QED BY <3>1, <3>2
  <2> QED BY <2>1, <2>2
<1>2. ASSUME NEW i \in Int, NEW n \in Nat, Carries(i, n)' PROVE Carries(i, n)
  BY <1>1, <1>2 DEF Carries, SameCalls
<1>3. OldIds' /\ OneAttempt'
  BY <1>2, IdsKept DEF IdInv
<1> QED BY <1>1, <1>3 DEF IdInv, OneCookie, OrderIds

\* Another event is no InitiateCheckout.
LEMMA SendsOther ==
    ASSUME TypeOK, NEW t \in Tabs, NEW ev \in EventNames \ {"InitiateCheckout"},
           NEW sync \in BOOLEAN, SendEvents(t, <<ev>>, sync)
    PROVE  SameCalls /\ sends <= sends'
<1>1. ASSUME NEW s \in Requests(t, <<ev>>, sync) PROVE s.ev # "InitiateCheckout"
  BY <1>1 DEF Requests, Request
<1> QED BY <1>1 DEF SendEvents, SameCalls, TypeOK, SendTypeOK

ShopSends ==
    /\ SameCalls /\ sends <= sends'
    /\ \/ UNCHANGED <<jar, attempt>>
       \/ jar' = ClearMarkers("tracker") /\ attempt' = attempt + 1

\* A handler of the shop sends no InitiateCheckout, and clears the marker at most.
LEMMA ShopKeepsIds ==
    ASSUME TypeOK, NEW t \in Tabs, ShopActs(t)
    PROVE  ShopSends /\ UNCHANGED <<shop, arrived, late, lapsed>>
<1>0. UNCHANGED <<shop, arrived, late, lapsed>> /\ sends \in Nat
  BY DEF TypeOK, SendTypeOK, ShopActs, EntersView, LeavesView, DwellElapses, LandingCta, ClickAdd,
         ViewTimer, SelectVariation, AddedToCart, AddFails, OnceExpires, ClickRemove, RemoveTimer,
         RemovedFromCart, RemoveFails, PaymentChosen, FormSubmitted, ShopStep
<1> SUFFICES ShopSends
  BY <1>0
<1>1. ASSUME UNCHANGED <<jar, attempt, requests, sends>> PROVE ShopSends
  BY <1>0, <1>1 DEF ShopSends, SameCalls
<1>2. ASSUME NEW k, SendUnlessRemembered(t, k, "ViewContent") PROVE ShopSends
  <2>1. CASE UNCHANGED <<jar, attempt>> /\ SendEvents(t, <<"ViewContent">>, FALSE)
    BY <2>1, SendsOther DEF ShopSends, EventNames
  <2> QED BY <1>1, <1>2, <2>1 DEF SendUnlessRemembered
<1>3. ASSUME NEW k, ReportAdd(t, k) PROVE ShopSends
  <2>1. CASE /\ jar' = ClearMarkers("tracker") /\ attempt' = attempt + 1
             /\ SendEvents(t, <<"AddToCart">>, FALSE)
    BY <2>1, SendsOther DEF ShopSends, EventNames
  <2> QED BY <1>1, <1>3, <2>1 DEF ReportAdd, Quiet
<1>4. ASSUME NEW p, EntersView(t, p) \/ LeavesView(t, p) \/ DwellElapses(t, p) \/ LandingCta(t, p)
      PROVE  ShopSends
  <2>1. CASE EntersView(t, p) \/ LeavesView(t, p)
    BY <1>1, <2>1 DEF EntersView, LeavesView, Quiet
  <2>2. CASE DwellElapses(t, p)
    BY <1>2, <2>2 DEF DwellElapses
  <2>3. CASE LandingCta(t, p)
    BY <1>3, <2>3 DEF LandingCta
  <2> QED BY <1>4, <2>1, <2>2, <2>3
<1>5. ASSUME NEW p, NEW kind, ClickAdd(t, kind, p) PROVE ShopSends
  BY <1>1, <1>3, <1>5 DEF ClickAdd, Quiet
<1>6. CASE ViewTimer(t)
  BY <1>2, <1>6 DEF ViewTimer
<1>7. CASE SelectVariation(t)
  BY <1>1, <1>2, <1>7 DEF SelectVariation, Quiet
<1>8. CASE AddedToCart(t)
  BY <1>3, <1>8 DEF AddedToCart
<1>9. CASE AddFails(t) \/ ClickRemove(t) \/ RemoveFails(t)
  BY <1>1, <1>9 DEF AddFails, ClickRemove, RemoveFails, Quiet
<1>10. ASSUME NEW k, OnceExpires(t, k) PROVE ShopSends
  BY <1>1, <1>10 DEF OnceExpires
<1>11. CASE RemoveTimer(t) \/ RemovedFromCart(t) \/ PaymentChosen(t) \/ FormSubmitted(t)
  <2>1. UNCHANGED <<jar, attempt>>
    BY <1>11 DEF RemoveTimer, RemovedFromCart, PaymentChosen, FormSubmitted
  <2>2. \/ UNCHANGED <<requests, sends>>
        \/ \E ev \in {"RemoveFromCart", "AddPaymentInfo", "Lead"}, sync \in BOOLEAN :
              SendEvents(t, <<ev>>, sync)
    BY <1>11 DEF RemoveTimer, RemovedFromCart, PaymentChosen, FormSubmitted
  <2>3. ASSUME NEW ev \in {"RemoveFromCart", "AddPaymentInfo", "Lead"}, NEW sync \in BOOLEAN,
               SendEvents(t, <<ev>>, sync)
        PROVE  SameCalls /\ sends <= sends'
    <3>1. ev \in EventNames \ {"InitiateCheckout"}
      BY DEF EventNames
    <3> QED BY <2>3, <3>1, SendsOther
  <2> QED BY <1>1, <2>1, <2>2, <2>3 DEF ShopSends
<1> QED
  BY <1>4, <1>5, <1>6, <1>7, <1>8, <1>9, <1>10, <1>11 DEF ShopActs

-----------------------------------------------------------------------------
(* The network.                                                             *)

\* A relayed call reports the id it carries, for the attempt it carries.
LEMMA HandleCarries ==
    ASSUME TypeOK, NEW r \in requests, NEW got \in BOOLEAN,
           NEW ok \in BOOLEAN, Handle(r, got, ok), order' = order
    PROVE  /\ UNCHANGED <<shop, jar, attempt, sends, late, lapsed>>
           /\ NoneAdded
           /\ \A a \in arrived' : a \in arrived \/ a.from = "page"
<1>1. SameCalls
  BY DEF Handle, AfterFailure, SameCalls, TypeOK, SendTypeOK, RequestType
<1>2. Markers' = Markers /\ UNCHANGED <<shop, jar, attempt, sends, late, lapsed>>
  BY DEF Handle, Markers
<1>3. \A a \in arrived' :
         \/ a \in arrived
         \/ a.from = "page" /\ a.id = r.id /\ a.attempt = r.attempt /\ r.ev = "InitiateCheckout"
  <2> DEFINE new == [id |-> r.id, attempt |-> r.attempt, from |-> "page"]
  <2>1. new.from = "page" /\ new.id = r.id /\ new.attempt = r.attempt
    OBVIOUS
  <2> HIDE DEF new
  <2>2. arrived' = arrived \cup IF got /\ r.ev = "InitiateCheckout" THEN {new} ELSE {}
    BY DEF Handle, new
  <2> QED BY <2>1, <2>2
<1>4. ASSUME NEW i \in Int, NEW n \in Nat, Carries(i, n)' PROVE Carries(i, n)
  BY <1>1, <1>2, <1>3, <1>4 DEF Carries, SameCalls
<1> QED BY <1>2, <1>3, <1>4 DEF NoneAdded

LEMMA HandleKeepsIds ==
    ASSUME TypeOK, TypeOK', OneCookie, IdInv, NEW r \in requests, NEW got \in BOOLEAN,
           NEW ok \in BOOLEAN, Handle(r, got, ok), order' = order
    PROVE  IdInv'
<1>1. sends <= sends' /\ late \subseteq late' /\ UNCHANGED <<shop, jar>>
  BY HandleCarries DEF TypeOK, SendTypeOK
<1>2. OldIds' /\ OneAttempt'
  BY <1>1, HandleCarries, IdsKept DEF IdInv, NoneAdded
<1>3. OrderIds'
  BY HandleCarries DEF IdInv, OrderIds
<1> QED BY <1>1, <1>2, <1>3 DEF IdInv, OneCookie

\* The marker is set: to an id carried for this attempt, to the next id, or to
\* one whose checkout is over, which is late then.
LEMMA MarkKeepsIds ==
    ASSUME TypeOK, TypeOK', OneCookie, IdInv, NEW i \in Int,
           UNCHANGED <<shop, arrived, order, attempt>>, sends <= sends', late \subseteq late',
           jar' = [jar EXCEPT !["tracker"] = i],
           \A s \in requests' : s.ev = "InitiateCheckout" =>
               \/ \E r \in requests : r.ev = s.ev /\ r.id = s.id /\ r.attempt = s.attempt
               \/ s.id = i /\ s.attempt = attempt,
           Carries(i, attempt) \/ New(i, attempt)
    PROVE  IdInv'
<1>1. jar'["plugin"] = None /\ Markers' \subseteq {i}
  BY CookieWritten DEF IdInv
<1>2. ASSUME NEW j \in Int, NEW n \in Nat, Carries(j, n)' PROVE Carries(j, n) \/ New(j, n)
  <2>1. CASE \E s \in requests' : s.ev = "InitiateCheckout" /\ s.id = j /\ s.attempt = n
    BY <2>1 DEF Carries
  <2>2. CASE j \in Markers' /\ n = attempt'
    BY <1>1, <2>2
  <2>3. CASE \E a \in arrived' : a.from \in {"page", "snapshot"} /\ a.id = j /\ a.attempt = n
    BY <2>3 DEF Carries
  <2>4. CASE j = order'.snap /\ n = order'.attempt
    BY <2>4 DEF Carries
  <2> QED BY <1>2, <2>1, <2>2, <2>3, <2>4 DEF Carries
<1>3. OldIds' /\ OneAttempt'
  BY <1>2, IdsKept DEF IdInv
<1> QED BY <1>1, <1>3 DEF IdInv, OneCookie, OrderIds

\* The network and the clock
LEMMA NetworkKeepsIds ==
    ASSUME TypeOK, TypeOK', OneCookie, IdInv, Network \/ MarkerExpires, order' = order
    PROVE  IdInv'
<1>0. sends \in Nat /\ attempt \in Nat /\ requests \subseteq RequestType
  BY DEF TypeOK, SendTypeOK
<1>1. CASE MarkerExpires
  <2>1. \E s \in Slots : jar[s] # None /\ jar' = [jar EXCEPT ![s] = None]
    BY <1>1 DEF MarkerExpires
  <2>2. jar' = [jar EXCEPT !["tracker"] = None]
    BY <2>1 DEF IdInv, Slots
  <2>3. SameCalls /\ UNCHANGED <<shop, arrived, sends, late>>
    BY <1>1 DEF MarkerExpires, SameCalls
  <2> QED BY <1>0, <2>2, <2>3, Neutral
<1>2. ASSUME NEW r \in requests, RelayRest(r) \/ RelayAjax(r) PROVE IdInv'
  BY <1>2, HandleKeepsIds DEF RelayRest, RelayAjax
<1>3. ASSUME NEW r \in requests, LoseAnswer(r) PROVE IdInv'
  <2>1. SameCalls
    BY <1>0, <1>3 DEF LoseAnswer, AfterFailure, SameCalls, RequestType
  <2> QED BY <1>0, <1>3, <2>1, Neutral DEF LoseAnswer
<1>4. ASSUME NEW r \in requests, Answer(r) PROVE IdInv'
  <2>1. UNCHANGED <<shop, arrived, sends, attempt>> /\ requests' = requests \ {r}
    BY <1>4 DEF Answer
  <2>2. SameCalls
    BY <2>1 DEF SameCalls
  <2>3. CASE r.ev # "InitiateCheckout"
    BY <1>0, <1>4, <2>1, <2>2, <2>3, Neutral DEF Answer
  <2>4. CASE r.ev = "InitiateCheckout"
    <3>1. /\ jar' = [jar EXCEPT !["tracker"] = r.id]
          /\ late' = IF r.attempt = attempt THEN late ELSE late \cup {r.id}
      BY <1>4, <2>4 DEF Answer, MarkSent, Slot, OneCookie
    <3>2. Carries(r.id, r.attempt) /\ r.id \in Int /\ r.attempt \in Nat
      BY <1>0, <2>4 DEF Carries, RequestType
    <3>3. Old(r.id)
      BY <3>2 DEF IdInv, OldIds
    <3>4. Carries(r.id, attempt) \/ New(r.id, attempt)
      BY <3>1, <3>2, <3>3 DEF New
    <3>5. sends <= sends' /\ late \subseteq late'
      BY <1>0, <2>1, <3>1
    <3>6. \A s \in requests' : s.ev = "InitiateCheckout" =>
             \E q \in requests : q.ev = s.ev /\ q.id = s.id /\ q.attempt = s.attempt
      BY <2>2 DEF SameCalls
    <3> QED BY <2>1, <3>1, <3>2, <3>4, <3>5, <3>6, MarkKeepsIds
  <2> QED BY <2>3, <2>4
<1> QED BY <1>1, <1>2, <1>3, <1>4 DEF Network, Returns

-----------------------------------------------------------------------------
(* The checkout.                                                            *)

\* A handler of the checkout sends an InitiateCheckout at most.
LEMMA CheckoutSends ==
    ASSUME NEW t \in Tabs, CheckoutActs(t)
    PROVE  /\ UNCHANGED <<shop, arrived, attempt, late, order>>
           /\ \/ UNCHANGED <<requests, sends, jar>>
              \/ \E sync \in BOOLEAN : SendInitiateCheckout(t, sync)
              \/ SendEvents(t, <<"Identify">>, FALSE) /\ UNCHANGED jar
<1>0. CheckoutStep(t)
  BY DEF CheckoutActs, BindAgain, SurfaceCheck, DomChanges, DebounceEnds, FieldInput,
         CheckoutButton, SubmitCheckout, WooEvent, IdentifyBlur
<1> DEFINE Goal == UNCHANGED <<requests, sends, jar>>
                   \/ \E sync \in BOOLEAN : SendInitiateCheckout(t, sync)
<1>1. ASSUME NEW c, Keep(t, c) PROVE Goal
  BY <1>1 DEF Keep
<1>2. ASSUME NEW c, NEW sync \in BOOLEAN, SendOnce(t, c, sync) PROVE Goal
  BY <1>1, <1>2 DEF SendOnce
<1> HIDE DEF Goal
<1>3. ASSUME NEW c, NEW sync \in BOOLEAN, NEW force, SendWhenReady(t, c, force, sync) PROVE Goal
  BY <1>1, <1>2, <1>3 DEF SendWhenReady
<1>4. ASSUME NEW c, SendOnSurface(t, c) PROVE Goal
  BY <1>1, <1>3, <1>4 DEF SendOnSurface
<1>5. CASE BindAgain(t)
  <2>1. Goal
    BY <1>1, <1>5 DEF BindAgain
  <2> QED BY <1>0, <2>1 DEF CheckoutStep, Goal
<1>6. CASE SurfaceCheck(t)
  <2>1. Goal
    BY <1>4, <1>6 DEF SurfaceCheck
  <2> QED BY <1>0, <2>1 DEF CheckoutStep, Goal
<1>7. CASE DomChanges(t) \/ DebounceEnds(t)
  <2>1. Goal
    BY <1>1, <1>4, <1>7 DEF DomChanges, DebounceEnds
  <2> QED BY <1>0, <2>1 DEF CheckoutStep, Goal
<1>8. CASE FieldInput(t) \/ CheckoutButton(t) \/ SubmitCheckout(t) \/ WooEvent(t)
  <2>1. Goal
    BY <1>2, <1>3, <1>8 DEF FieldInput, CheckoutButton, SubmitCheckout, WooEvent
  <2> QED BY <1>0, <2>1 DEF CheckoutStep, Goal
<1>9. CASE IdentifyBlur(t)
  BY <1>0, <1>9 DEF CheckoutStep, IdentifyBlur
<1> QED BY <1>5, <1>6, <1>7, <1>8, <1>9 DEF CheckoutActs

LEMMA CheckoutKeepsIds ==
    ASSUME TypeOK, TypeOK', OneCookie, IdInv, NEW t \in Tabs, CheckoutActs(t)
    PROVE  IdInv'
<1>0. /\ UNCHANGED <<shop, arrived, attempt, late, order>>
      /\ sends \in Nat /\ attempt \in Nat /\ requests \subseteq RequestType
  BY CheckoutSends DEF TypeOK, SendTypeOK
<1>1. CASE UNCHANGED <<requests, sends, jar>>
  <2>1. SameCalls
    BY <1>1 DEF SameCalls
  <2> QED BY <1>0, <1>1, <2>1, Neutral
<1>2. CASE SendEvents(t, <<"Identify">>, FALSE) /\ UNCHANGED jar
  BY <1>0, <1>2, SendsOther, Neutral DEF EventNames
<1>3. ASSUME NEW sync \in BOOLEAN, SendInitiateCheckout(t, sync) PROVE IdInv'
  <2>1. PICK id \in IF Markers = {} THEN {sends + 1} ELSE Markers :
          /\ requests' = requests \cup {Request(t, "InitiateCheckout", sends + 1, id, sync)}
          /\ sends' = sends + 1
          /\ jar' = MarkSent("tracker", id)
    BY <1>3 DEF SendInitiateCheckout
  <2>2. id \in Int
    BY <1>0, <2>1 DEF Markers, TypeOK, SendTypeOK
  <2>3. Carries(id, attempt) \/ New(id, attempt)
    BY <1>0, <2>1 DEF Carries, New
  <2>4. jar' = [jar EXCEPT !["tracker"] = id]
    BY <2>1 DEF MarkSent, Slot
  <2>5. \A s \in requests' : s.ev = "InitiateCheckout" =>
            \/ \E r \in requests : r.ev = s.ev /\ r.id = s.id /\ r.attempt = s.attempt
            \/ s.id = id /\ s.attempt = attempt
    BY <2>1 DEF Request
  <2>6. sends <= sends' /\ late \subseteq late'
    BY <1>0, <2>1
  <2> QED BY <1>0, <2>2, <2>3, <2>4, <2>5, <2>6, MarkKeepsIds
<1> QED BY <1>1, <1>2, <1>3, CheckoutSends

-----------------------------------------------------------------------------
(* The order.                                                               *)

\* What a fallback adds to what has arrived.
LEMMA FallbackReports ==
    ASSUME NEW o \in OrderType, NEW marker \in Int \cup {None}, Fallback(o, marker)
    PROVE  /\ order'.snap = o.snap /\ order'.attempt = o.attempt /\ order'.no = o.no
           /\ order'.stage = o.stage
           /\ \A a \in arrived' :
                 \/ a \in arrived
                 \/ a.from = "snapshot" /\ a.id = o.snap /\ a.attempt = o.attempt
                 \/ a.from = "cookie"
                 \/ a.from = "order" /\ a.id = -o.no /\ a.attempt = o.attempt
<1>1. CASE order' = o /\ UNCHANGED arrived
  BY <1>1
<1>2. ASSUME NEW got \in BOOLEAN, NEW ok \in BOOLEAN,
             order' = [o EXCEPT !.sent = ok, !.refused = @ \/ ~ok],
             arrived' = arrived \cup
                 {[id |-> i[1], attempt |-> o.attempt, from |-> i[2]] :
                      i \in IF got THEN {FallbackId(o, marker)} ELSE {}}
      PROVE  /\ order'.snap = o.snap /\ order'.attempt = o.attempt /\ order'.no = o.no
             /\ order'.stage = o.stage
             /\ \A a \in arrived' :
                   \/ a \in arrived
                   \/ a.from = "snapshot" /\ a.id = o.snap /\ a.attempt = o.attempt
                   \/ a.from = "cookie"
                   \/ a.from = "order" /\ a.id = -o.no /\ a.attempt = o.attempt
  <2>1. /\ order'.snap = o.snap /\ order'.attempt = o.attempt /\ order'.no = o.no
        /\ order'.stage = o.stage
    BY <1>2 DEF OrderType
  <2> DEFINE i == FallbackId(o, marker)
             new == [id |-> i[1], attempt |-> o.attempt, from |-> i[2]]
  <2>2. \/ i[1] = o.snap /\ i[2] = "snapshot"
        \/ i[2] = "cookie"
        \/ i[1] = -o.no /\ i[2] = "order"
    BY DEF FallbackId
  <2>3. new.id = i[1] /\ new.attempt = o.attempt /\ new.from = i[2]
    OBVIOUS
  <2>4. \A a \in arrived' : a \in arrived \/ a = new
    BY <1>2
  <2> HIDE DEF new, i
  <2> QED BY <2>1, <2>2, <2>3, <2>4
<1> QED BY <1>1, <1>2 DEF Fallback

\* An order is placed: its snapshot is the marker of this attempt.
LEMMA PlaceCarries ==
    ASSUME TypeOK, ~shop.blocks, NEW t \in Tabs, PlaceOrder(t)
    PROVE  /\ UNCHANGED <<shop, jar, requests, sends, attempt, late, lapsed>>
           /\ order'.attempt = attempt /\ order'.no = order.no + 1
           /\ NoneAdded
           /\ \A a \in arrived' :
                 \/ a \in arrived
                 \/ a.from \in {"snapshot", "cookie"}
                 \/ a.from = "order" /\ a.id = -(order.no + 1) /\ a.attempt = attempt
<1>0. /\ UNCHANGED <<shop, jar, requests, sends, attempt, late, lapsed>>
      /\ sends \in Nat /\ attempt \in Nat /\ order.no \in Nat /\ \A i \in Int : i # None
  BY TrackerAssumption
  DEF PlaceOrder, TypeOK, SendTypeOK, CheckoutTypeOK, OrderType
<1>1. PICK snap \in Snapshot :
        LET o == [(IF shop.blocks THEN order ELSE [NoOrder(order.no + 1) EXCEPT !.snap = snap])
                  EXCEPT !.stage = "processed", !.attempt = attempt, !.tab = t]
        IN IF shop.blocks THEN order' = o /\ UNCHANGED arrived ELSE Fallback(o, snap)
  BY DEF PlaceOrder
<1> DEFINE q == [NoOrder(order.no + 1) EXCEPT !.snap = snap]
           o == [q EXCEPT !.stage = "processed", !.attempt = attempt, !.tab = t]
<1>2. snap \in Int \cup {None} /\ (snap \in Int => snap \in Markers)
  BY <1>0, SnapshotType DEF TypeOK, Snapshot
<1>3. q \in OrderType /\ q.snap = snap /\ q.no = order.no + 1
  BY <1>0, <1>2, NewOrderType DEF TypeOK, OrderType, NoOrder
<1> HIDE DEF q
<1>4. o \in OrderType /\ o.snap = snap /\ o.no = order.no + 1 /\ o.attempt = attempt
  BY <1>0, <1>3 DEF OrderType
<1>5. Fallback(o, snap)
  BY <1>0, <1>1 DEF q
<1> HIDE DEF o
<1>6. /\ order'.snap = snap /\ order'.attempt = attempt /\ order'.no = order.no + 1
      /\ \A a \in arrived' :
            \/ a \in arrived
            \/ a.from = "snapshot" /\ a.id = snap /\ a.attempt = attempt
            \/ a.from = "cookie"
            \/ a.from = "order" /\ a.id = -(order.no + 1) /\ a.attempt = attempt
  BY <1>2, <1>4, <1>5, FallbackReports
<1>7. ASSUME NEW i \in Int, NEW n \in Nat, Carries(i, n)' PROVE Carries(i, n)
  <2>1. Markers' = Markers
    BY <1>0 DEF Markers
  <2>2. CASE \E r \in requests' : r.ev = "InitiateCheckout" /\ r.id = i /\ r.attempt = n
    BY <1>0, <2>2 DEF Carries
  <2>3. CASE \E a \in arrived' : a.from \in {"page", "snapshot"} /\ a.id = i /\ a.attempt = n
    BY <1>2, <1>6, <2>3 DEF Carries
  <2>4. CASE i \in Markers' /\ n = attempt'
    BY <1>0, <2>1, <2>4 DEF Carries
  <2>5. CASE i = order'.snap /\ n = order'.attempt
    BY <1>2, <1>6, <2>5 DEF Carries
  <2> QED BY <1>7, <2>2, <2>3, <2>4, <2>5 DEF Carries
<1> QED BY <1>0, <1>6, <1>7 DEF NoneAdded

LEMMA PlaceKeepsIds ==
    ASSUME TypeOK, TypeOK', OneCookie, IdInv, NEW t \in Tabs, PlaceOrder(t)
    PROVE  IdInv'
<1>0. /\ ~shop.blocks /\ UNCHANGED <<shop, jar>> /\ order.no \in Nat
      /\ sends <= sends' /\ late \subseteq late'
  BY PlaceCarries DEF OneCookie, TypeOK, SendTypeOK, CheckoutTypeOK, OrderType
<1>1. OldIds' /\ OneAttempt'
  BY <1>0, PlaceCarries, IdsKept DEF IdInv, NoneAdded
<1>2. OrderIds'
  <2>1. \A a \in arrived : a.from = "order" => a.id \in Int
    BY DEF TypeOK, SendTypeOK, Arrival
  <2> QED BY <1>0, <2>1, PlaceCarries DEF IdInv, OrderIds
<1> QED BY <1>0, <1>1, <1>2 DEF IdInv, OneCookie

\* Its answer, and its thank-you page, clear the marker.
LEMMA AnsweredKeepsIds ==
    ASSUME TypeOK, TypeOK', OneCookie, IdInv, OrderAnswered
    PROVE  IdInv'
<1>0. /\ UNCHANGED <<shop, requests, arrived, sends, late>> /\ sends \in Nat
      /\ order'.snap = order.snap /\ order'.attempt = order.attempt /\ order'.no = order.no
      /\ order'.stage = order.stage
  BY DEF OrderAnswered, TypeOK, SendTypeOK, CheckoutTypeOK, OrderType
<1>1. jar'["plugin"] = None /\ (Markers' = {} \/ (Markers' = Markers /\ attempt' = attempt))
  <2>1. CASE UNCHANGED <<jar, attempt>>
    <3>1. jar["plugin"] = None
      BY DEF IdInv
    <3> QED BY <2>1, <3>1 DEF Markers
  <2>2. CASE jar' = [jar EXCEPT !["tracker"] = None]
    <3>1. jar'["plugin"] = None /\ jar'["tracker"] = None
      BY <2>2 DEF IdInv, TypeOK, SendTypeOK, Slots
    <3>2. Markers' = {}
      BY <3>1 DEF Markers, Slots
    <3> QED BY <3>1, <3>2
  <2>3. Slot("plugin") = "tracker"
    BY DEF Slot, OneCookie
  <2>4. UNCHANGED <<jar, attempt>> \/ jar' = ClearMarkers("plugin")
    BY DEF OrderAnswered
  <2> QED BY <2>1, <2>2, <2>3, <2>4 DEF ClearMarkers
<1>2. ASSUME NEW i \in Int, NEW n \in Nat, Carries(i, n)' PROVE Carries(i, n)
  BY <1>0, <1>1, <1>2 DEF Carries
<1>3. sends <= sends' /\ late \subseteq late'
  BY <1>0
<1>4. OldIds' /\ OneAttempt'
  BY <1>2, <1>3, IdsKept DEF IdInv
<1> QED BY <1>0, <1>1, <1>4 DEF IdInv, OneCookie, OrderIds

\* Calls that go on without their page are the same calls.
LEMMA OrphansAreCalls ==
    ASSUME TypeOK, NEW t \in Tabs, requests' = Orphaned(t)
    PROVE  SameCalls
<1>1. \A r \in requests : LET o == [r EXCEPT !.tab = None]
                          IN o.ev = r.ev /\ o.id = r.id /\ o.attempt = r.attempt
  BY DEF TypeOK, SendTypeOK, RequestType
<1> QED BY <1>1 DEF Orphaned, SameCalls

\* What the thank-you page's fallback carries, the order carried.
LEMMA ThankYouCarries ==
    ASSUME TypeOK, NEW t \in Tabs, ThankYou(t)
    PROVE  /\ UNCHANGED <<shop, late, lapsed>> /\ sends <= sends' /\ attempt' = attempt + 1
           /\ order.stage \in {"processed", "thankyou"}
           /\ order'.attempt = order.attempt /\ order'.no = order.no
           /\ \E kept \in {jar, ClearMarkers("plugin")} : jar' = [kept EXCEPT ![Slot("tracker")] = None]
           /\ \A i \in Int, n \in Nat :
                 Carries(i, n)' => Carries(i, n) \/ (i \in Markers' /\ n = attempt')
           /\ \A a \in arrived' :
                 \/ a \in arrived
                 \/ a.from \in {"snapshot", "cookie"}
                 \/ a.from = "order" /\ a.id = -order.no /\ a.attempt = order.attempt
<1> DEFINE thanks == [type |-> "thankyou", product |-> None, onePage |-> shop.onePage]
           o == [order EXCEPT !.stage = "thankyou"]
<1>0. /\ UNCHANGED <<shop, late, lapsed>> /\ requests' = Orphaned(t)
      /\ order.stage \in {"processed", "thankyou"} /\ attempt' = attempt + 1
      /\ \E kept \in {jar, ClearMarkers("plugin")} : jar' = [kept EXCEPT ![Slot("tracker")] = None]
      /\ \A i \in Int : i # None
  BY TrackerAssumption DEF ThankYou, Script
<1>1. SameCalls
  BY <1>0, OrphansAreCalls
<1>2. sends <= sends'
  <2>1. thanks \in PageType
    BY ShopFields DEF TypeOK, PageType, PageTypes
  <2> QED BY <2>1, ScriptType DEF ThankYou
<1>4. PICK marker \in Snapshot : Fallback(o, marker)
  BY DEF ThankYou
<1>5. /\ o \in OrderType /\ o.snap = order.snap /\ o.attempt = order.attempt /\ o.no = order.no
      /\ marker \in Int \cup {None}
  BY SnapshotType DEF TypeOK, CheckoutTypeOK, OrderType
<1> HIDE DEF o
<1>6. /\ order'.snap = order.snap /\ order'.attempt = order.attempt /\ order'.no = order.no
      /\ \A a \in arrived' :
            \/ a \in arrived
            \/ a.from = "snapshot" /\ a.id = order.snap /\ a.attempt = order.attempt
            \/ a.from = "cookie"
            \/ a.from = "order" /\ a.id = -order.no /\ a.attempt = order.attempt
  BY <1>4, <1>5, FallbackReports
<1>7. ASSUME NEW i \in Int, NEW n \in Nat, Carries(i, n)'
      PROVE  Carries(i, n) \/ (i \in Markers' /\ n = attempt')
  <2>1. CASE \E r \in requests' : r.ev = "InitiateCheckout" /\ r.id = i /\ r.attempt = n
    BY <1>1, <2>1 DEF Carries, SameCalls
  <2>2. CASE \E a \in arrived' : a.from \in {"page", "snapshot"} /\ a.id = i /\ a.attempt = n
    BY <1>6, <2>2 DEF Carries
  <2>3. CASE i = order'.snap /\ n = order'.attempt
    BY <1>6, <2>3 DEF Carries
  <2> QED BY <1>7, <2>1, <2>2, <2>3 DEF Carries
<1> QED BY <1>0, <1>2, <1>6, <1>7

LEMMA ThankYouKeepsIds ==
    ASSUME TypeOK, TypeOK', OneCookie, IdInv, NEW t \in Tabs, ThankYou(t)
    PROVE  IdInv'
<1>1. jar'["plugin"] = None /\ Markers' = {}
  <2>1. PICK kept \in {jar, ClearMarkers("plugin")} : jar' = [kept EXCEPT ![Slot("tracker")] = None]
    BY DEF ThankYou
  <2>2. kept = jar \/ kept = [jar EXCEPT !["tracker"] = None]
    BY <2>1 DEF ClearMarkers, Slot, OneCookie
  <2>3. kept["plugin"] = None /\ kept \in [Slots -> Int \cup {None}]
    BY <2>2 DEF IdInv, TypeOK, SendTypeOK, Slots
  <2>4. jar'["plugin"] = None /\ jar'["tracker"] = None
    BY <2>1, <2>3 DEF Slot, Slots
  <2> QED BY <2>4 DEF Markers, Slots
<1>2. \A i \in Int, n \in Nat : Carries(i, n)' => Carries(i, n)
  BY <1>1, ThankYouCarries
<1>3. shop' = shop /\ sends <= sends' /\ late \subseteq late'
  BY ThankYouCarries
<1>4. OldIds' /\ OneAttempt'
  BY <1>2, <1>3, IdsKept DEF IdInv
<1>5. OrderIds'
  <2>1. order.no \in Nat /\ order.no >= 1
    BY ThankYouCarries DEF TypeOK, CheckoutTypeOK, OrderType, IdInv, OrderIds
  <2>2. /\ order'.attempt = order.attempt /\ order'.no = order.no
        /\ \A a \in arrived' :
              \/ a \in arrived
              \/ a.from \in {"snapshot", "cookie"}
              \/ a.from = "order" /\ a.id = -order.no /\ a.attempt = order.attempt
    BY ThankYouCarries
  <2> QED BY <2>1, <2>2 DEF IdInv, OrderIds
<1> QED BY <1>1, <1>3, <1>4, <1>5 DEF IdInv, OneCookie

-----------------------------------------------------------------------------
LEMMA IdStarts == Init => IdInv
<1> SUFFICES ASSUME Init PROVE IdInv
  OBVIOUS
<1>1. jar["plugin"] = None /\ Markers = {} /\ requests = {} /\ arrived = {} /\ order = NoOrder(0)
  BY DEF Init, SendInit, CheckoutInit, Slots, Markers
<1>2. order.snap = None /\ order.stage = "none" /\ \A i \in Int : i # None
  BY <1>1, TrackerAssumption DEF NoOrder
<1>3. \A i \in Int : \A n : ~Carries(i, n)
  BY <1>1, <1>2 DEF Carries
<1> QED BY <1>1, <1>2, <1>3 DEF IdInv, OldIds, OneAttempt, OrderIds

\* Every step keeps the invariant.
LEMMA IdNext ==
    ASSUME TypeOK, TypeOK', IdInv, [Next]_vars
    PROVE  IdInv'
<1>0. shop' = shop /\ sends \in Nat
  BY Steps DEF TypeOK, SendTypeOK
<1> SUFFICES ASSUME OneCookie PROVE IdInv'
  BY <1>0 DEF IdInv, OneCookie
<1>1. CASE (Network \/ MarkerExpires) /\ UNCHANGED <<checkoutVars, shopVars, loads>>
  BY <1>1, NetworkKeepsIds DEF checkoutVars
<1>2. CASE OrderAnswered
  BY <1>2, AnsweredKeepsIds
<1>3. ASSUME NEW t \in Tabs, LoadPage(t) PROVE IdInv'
  <2>1. PICK p \in PageType, surface \in BOOLEAN : Script(t, p, surface)
    BY <1>3, PagesType DEF LoadPage
  <2>2. SameCalls /\ sends <= sends'
    BY <2>1, OrphansAreCalls, ScriptType DEF Script
  <2>3. UNCHANGED <<shop, jar, arrived, attempt, late, order>>
    BY <1>3 DEF LoadPage
  <2> QED BY <2>2, <2>3, Neutral
<1>4. ASSUME NEW t \in Tabs, ThankYou(t) PROVE IdInv'
  BY <1>4, ThankYouKeepsIds
<1>5. ASSUME NEW t \in Tabs, CloseTab(t) PROVE IdInv'
  <2>1. SameCalls
    BY <1>5, OrphansAreCalls DEF CloseTab
  <2>2. UNCHANGED <<shop, jar, arrived, attempt, late, order, sends>>
    BY <1>5 DEF CloseTab
  <2> QED BY <1>0, <2>1, <2>2, Neutral
<1>6. ASSUME NEW t \in Tabs, CheckoutActs(t) PROVE IdInv'
  BY <1>6, CheckoutKeepsIds
<1>7. ASSUME NEW t \in Tabs, DraftOrder(t) \/ PlaceOrder(t) PROVE IdInv'
  BY <1>7, PlaceKeepsIds DEF DraftOrder, OneCookie
<1>8. ASSUME NEW t \in Tabs, ShopActs(t), UNCHANGED checkoutVars PROVE IdInv'
  <2>1. ClearMarkers("tracker") = [jar EXCEPT !["tracker"] = None]
    BY DEF ClearMarkers, Slot
  <2> QED BY <1>8, <2>1, ShopKeepsIds, Neutral DEF checkoutVars, ShopSends
<1>9. CASE UNCHANGED vars
  <2>1. SameCalls /\ UNCHANGED <<shop, jar, arrived, attempt, late, order, sends>>
    BY <1>9 DEF vars, sendVars, checkoutVars, SameCalls
  <2> QED BY <1>0, <2>1, Neutral
<1> QED BY <1>1, <1>2, <1>3, <1>4, <1>5, <1>6, <1>7, <1>8, <1>9 DEF Next, OrderActs

\* No id is used for two checkouts.
LEMMA IdsTell ==
    ASSUME TypeOK, IdInv
    PROVE  NoStaleId
<1> SUFFICES ASSUME OneCookie,
                    NEW a \in {x \in arrived : x.from # "cookie" /\ x.id \notin late},
                    NEW b \in {x \in arrived : x.from # "cookie" /\ x.id \notin late},
                    a.id = b.id
             PROVE  a.attempt = b.attempt
  BY DEF NoStaleId, OneCookie
<1>1. /\ a \in arrived /\ b \in arrived /\ a \in Arrival /\ b \in Arrival
      /\ order.no \in Nat /\ sends \in Nat
  BY DEF TypeOK, SendTypeOK, CheckoutTypeOK, OrderType
<1>2. CASE a.from \in {"page", "snapshot"} /\ b.from \in {"page", "snapshot"}
  <2>1. Carries(a.id, a.attempt) /\ Carries(a.id, b.attempt)
    BY <1>1, <1>2 DEF Carries
  <2> QED BY <1>1, <2>1 DEF IdInv, OneAttempt, Arrival
<1>3. \A x \in {a, b} : x.from \in {"page", "snapshot"} => x.id >= 1
  BY <1>1 DEF Carries, IdInv, OldIds, Old, Arrival
<1> QED BY <1>1, <1>2, <1>3 DEF IdInv, OrderIds, Arrival

\* Two checkouts have two ids, for any number of tabs, orders and pages, but for
\* the ids NoStaleId leaves out.
THEOREM IdsAreFresh == Spec => []NoStaleId
<1>1. TypeOK /\ IdInv => NoStaleId
  BY IdsTell
<1>2. TypeOK /\ IdInv /\ [Next]_vars => (TypeOK /\ IdInv)'
  BY TypeNext, IdNext
<1> QED BY <1>1, <1>2, TypeInit, IdStarts, PTL DEF Spec

-----------------------------------------------------------------------------
(* One id a checkout.                                                       *)

\* What is carried is carried for this attempt or an earlier one.
Past ==
    /\ \A i \in Int, n \in Nat : Carries(i, n) => n <= attempt
    /\ order.attempt <= attempt
    /\ \A n \in lapsed : n <= attempt

\* An attempt that carries an id has its marker, until that runs out.
Marked ==
    attempt \notin lapsed /\ Markers = {} => \A i \in Int : ~Carries(i, attempt)

OneId ==
    \A i, j \in Int : \A n \in Nat :
        Carries(i, n) /\ Carries(j, n) => i = j \/ i \in late \/ j \in late \/ n \in lapsed

AttemptInv == ~shop.blocks => Past /\ Marked /\ OneId

-----------------------------------------------------------------------------
(* The two kinds of steps: within an attempt, and to the next one.          *)

\* An id put back late, or the first of this attempt
Added(i, n) ==
    /\ n = attempt
    /\ i \in late' \/ (i = sends + 1 /\ Markers = {})

LEMMA WithinAttempt ==
    ASSUME TypeOK, TypeOK', Past, Marked, OneId,
           UNCHANGED <<shop, attempt, lapsed>>, late \subseteq late',
           order'.attempt <= attempt,
           \A i \in Int, n \in Nat : Carries(i, n)' => Carries(i, n) \/ Added(i, n),
           Markers' = {} => Markers = {} /\ NoneAdded
    PROVE  Past' /\ Marked' /\ OneId'
<1>0. attempt \in Nat /\ lapsed \subseteq Nat /\ sends \in Nat
  BY DEF TypeOK, SendTypeOK
<1>1. Past'
  BY <1>0 DEF Past, Added
<1>2. Marked'
  BY <1>0 DEF Marked, NoneAdded
<1>3. ASSUME NEW i \in Int, NEW j \in Int, NEW n \in Nat, Carries(i, n)', Carries(j, n)'
      PROVE  i = j \/ i \in late' \/ j \in late' \/ n \in lapsed'
  <2>1. (Carries(i, n) \/ Added(i, n)) /\ (Carries(j, n) \/ Added(j, n))
    BY <1>3
  <2>2. CASE Carries(i, n) /\ Carries(j, n)
    BY <2>2 DEF OneId
  <2>3. CASE Added(i, n) /\ Added(j, n)
    BY <2>3 DEF Added
  <2>4. CASE Markers = {} /\ n = attempt
    BY <1>0, <2>1, <2>2, <2>4 DEF Marked, Added
  <2>5. CASE (Added(i, n) \/ Added(j, n)) /\ ~(Markers = {} /\ n = attempt)
    BY <2>1, <2>5 DEF Added
  <2> QED BY <2>1, <2>2, <2>3, <2>4, <2>5
<1> QED BY <1>1, <1>2, <1>3 DEF OneId

\* At most one of two cookies is left when one of them is cleared.
LEMMA OneLeft ==
    ASSUME NEW kept \in [Slots -> Int \cup {None}], NEW w \in Slots,
           jar' = [kept EXCEPT ![Slot(w)] = None]
    PROVE  \A i, j \in Markers' : i = j
<1>1. Slot(w) \in Slots
  BY DEF Slot, Slots
<1>2. PICK s \in Slots : \A q \in Slots : q # s => jar'[q] = None
  BY <1>1 DEF Slots
<1> QED BY <1>2 DEF Markers

LEMMA NextAttempt ==
    ASSUME TypeOK, TypeOK', Past, OneId, attempt' = attempt + 1,
           UNCHANGED <<shop, late, lapsed>>, order'.attempt <= attempt,
           \A i, j \in Markers' : i = j,
           \A i \in Int, n \in Nat :
               Carries(i, n)' => Carries(i, n) \/ (i \in Markers' /\ n = attempt')
    PROVE  Past' /\ Marked' /\ OneId'
<1>0. attempt \in Nat /\ lapsed \subseteq Nat /\ order'.attempt \in Nat
  BY DEF TypeOK, SendTypeOK, CheckoutTypeOK, OrderType
<1>1. Past'
  BY <1>0 DEF Past
<1>2. \A i \in Int : ~Carries(i, attempt + 1)
  BY <1>0 DEF Past
<1>3. Marked'
  BY <1>0, <1>2 DEF Marked
<1>4. OneId'
  BY <1>0, <1>2 DEF OneId
<1> QED BY <1>1, <1>3, <1>4

-----------------------------------------------------------------------------
(* The steps.                                                               *)

\* Calls change and nothing is carried that was not, or the marker is cleared.
LEMMA NeutralAttempt ==
    ASSUME TypeOK, TypeOK', ~shop.blocks, AttemptInv, SameCalls,
           UNCHANGED <<shop, arrived, order, late, lapsed>>,
           \/ UNCHANGED <<jar, attempt>>
           \/ jar' = ClearMarkers("tracker") /\ attempt' = attempt + 1
    PROVE  AttemptInv'
<1>0. attempt \in Nat /\ jar \in [Slots -> Int \cup {None}] /\ Past /\ Marked /\ OneId
  BY DEF TypeOK, SendTypeOK, AttemptInv
<1>1. CASE UNCHANGED <<jar, attempt>>
  <2>1. Markers' = Markers
    BY <1>1 DEF Markers
  <2>2. NoneAdded
    BY <1>1, <2>1 DEF NoneAdded, Carries, SameCalls
  <2>3. late \subseteq late' /\ order'.attempt <= attempt
    BY <1>0 DEF Past
  <2> QED BY <1>0, <1>1, <2>1, <2>2, <2>3, WithinAttempt DEF NoneAdded, AttemptInv
<1>2. CASE jar' = ClearMarkers("tracker") /\ attempt' = attempt + 1
  <2>1. \A i, j \in Markers' : i = j
    BY <1>0, <1>2, OneLeft DEF ClearMarkers, Slots
  <2>2. \A i \in Int, n \in Nat :
           Carries(i, n)' => Carries(i, n) \/ (i \in Markers' /\ n = attempt')
    BY DEF Carries, SameCalls
  <2>3. order'.attempt <= attempt
    BY <1>0 DEF Past
  <2> QED BY <1>0, <1>2, <2>1, <2>2, <2>3, NextAttempt DEF AttemptInv
<1> QED BY <1>1, <1>2

\* The marker is set to i.
LEMMA MarkAttempt ==
    ASSUME TypeOK, TypeOK', ~shop.blocks, AttemptInv, NEW i \in Int, NEW w \in Slots,
           UNCHANGED <<shop, arrived, order, attempt, lapsed>>, late \subseteq late',
           jar' = MarkSent(w, i),
           \A s \in requests' : s.ev = "InitiateCheckout" =>
               \/ \E r \in requests : r.ev = s.ev /\ r.id = s.id /\ r.attempt = s.attempt
               \/ s.id = i /\ s.attempt = attempt,
           Carries(i, attempt) \/ Added(i, attempt)
    PROVE  AttemptInv'
<1>0. /\ attempt \in Nat /\ jar \in [Slots -> Int \cup {None}] /\ i # None
      /\ Past /\ Marked /\ OneId
  BY TrackerAssumption DEF TypeOK, SendTypeOK, AttemptInv
<1>1. i \in Markers' /\ Markers' \subseteq Markers \cup {i}
  BY <1>0 DEF MarkSent, Slot, Slots, Markers
<1>2. ASSUME NEW j \in Int, NEW n \in Nat, Carries(j, n)' PROVE Carries(j, n) \/ Added(j, n)
  <2>1. CASE \E s \in requests' : s.ev = "InitiateCheckout" /\ s.id = j /\ s.attempt = n
    BY <2>1 DEF Carries
  <2>2. CASE j \in Markers' /\ n = attempt'
    BY <1>1, <2>2 DEF Carries
  <2>3. CASE \E a \in arrived' : a.from \in {"page", "snapshot"} /\ a.id = j /\ a.attempt = n
    BY <2>3 DEF Carries
  <2>4. CASE j = order'.snap /\ n = order'.attempt
    BY <2>4 DEF Carries
  <2> QED BY <1>2, <2>1, <2>2, <2>3, <2>4 DEF Carries
<1>3. order'.attempt <= attempt
  BY <1>0 DEF Past
<1> QED BY <1>0, <1>1, <1>2, <1>3, WithinAttempt DEF AttemptInv

LEMMA NetworkAttempt ==
    ASSUME TypeOK, TypeOK', ~shop.blocks, AttemptInv, Network, order' = order
    PROVE  AttemptInv'
<1>0. attempt \in Nat /\ requests \subseteq RequestType /\ Past /\ Marked /\ OneId
  BY DEF TypeOK, SendTypeOK, AttemptInv
<1>1. ASSUME NEW r \in requests, RelayRest(r) \/ RelayAjax(r) PROVE AttemptInv'
  <2>1. PICK got \in BOOLEAN, ok \in BOOLEAN : Handle(r, got, ok)
    BY <1>1 DEF RelayRest, RelayAjax
  <2>2. UNCHANGED <<shop, jar, attempt, late, lapsed>> /\ NoneAdded
    BY <2>1, HandleCarries
  <2>3. Markers' = Markers /\ late \subseteq late' /\ order'.attempt <= attempt
    BY <1>0, <2>2 DEF Markers, Past
  <2> QED BY <1>0, <2>2, <2>3, WithinAttempt DEF NoneAdded, AttemptInv
<1>2. ASSUME NEW r \in requests, LoseAnswer(r) PROVE AttemptInv'
  <2>1. SameCalls
    BY <1>0, <1>2 DEF LoseAnswer, AfterFailure, SameCalls, RequestType
  <2> QED BY <1>2, <2>1, NeutralAttempt DEF LoseAnswer
<1>3. ASSUME NEW r \in requests, Answer(r) PROVE AttemptInv'
  <2>1. UNCHANGED <<shop, arrived, attempt, lapsed>> /\ requests' = requests \ {r}
    BY <1>3 DEF Answer
  <2>2. SameCalls
    BY <2>1 DEF SameCalls
  <2>3. CASE r.ev # "InitiateCheckout"
    BY <1>3, <2>1, <2>2, <2>3, NeutralAttempt DEF Answer
  <2>4. CASE r.ev = "InitiateCheckout"
    <3>1. /\ jar' = MarkSent("plugin", r.id)
          /\ late' = IF r.attempt = attempt THEN late ELSE late \cup {r.id}
      BY <1>3, <2>4 DEF Answer
    <3>2. Carries(r.id, r.attempt) /\ r.id \in Int
      BY <1>0, <2>4 DEF Carries, RequestType
    <3>3. Carries(r.id, attempt) \/ Added(r.id, attempt)
      BY <3>1, <3>2 DEF Added
    <3>4. late \subseteq late' /\ "plugin" \in Slots
      BY <3>1 DEF Slots
    <3>5. \A s \in requests' : s.ev = "InitiateCheckout" =>
             \E q \in requests : q.ev = s.ev /\ q.id = s.id /\ q.attempt = s.attempt
      BY <2>2 DEF SameCalls
    <3> QED BY <2>1, <3>1, <3>2, <3>3, <3>4, <3>5, MarkAttempt
  <2> QED BY <2>3, <2>4
<1> QED BY <1>1, <1>2, <1>3 DEF Network, Returns

\* The marker runs out: this attempt has lapsed.
LEMMA ExpiryAttempt ==
    ASSUME TypeOK, TypeOK', ~shop.blocks, AttemptInv, MarkerExpires, order' = order
    PROVE  AttemptInv'
<1>0. /\ UNCHANGED <<shop, requests, arrived, attempt, late>> /\ attempt \in Nat
      /\ lapsed' = lapsed \cup {attempt} /\ Past /\ Marked /\ OneId
  BY DEF MarkerExpires, TypeOK, SendTypeOK, AttemptInv
<1>1. Markers' \subseteq Markers
  BY DEF MarkerExpires, Markers, TypeOK, SendTypeOK
<1>2. ASSUME NEW i \in Int, NEW n \in Nat, Carries(i, n)' PROVE Carries(i, n)
  BY <1>0, <1>1, <1>2 DEF Carries
<1> QED BY <1>0, <1>2 DEF AttemptInv, Past, Marked, OneId

LEMMA CheckoutAttempt ==
    ASSUME TypeOK, TypeOK', ~shop.blocks, AttemptInv, NEW t \in Tabs, CheckoutActs(t)
    PROVE  AttemptInv'
<1>0. /\ UNCHANGED <<shop, arrived, attempt, late, order, lapsed>>
      /\ sends \in Nat /\ attempt \in Nat
  BY CheckoutSends DEF TypeOK, SendTypeOK, CheckoutActs, BindAgain, SurfaceCheck, DomChanges,
     DebounceEnds, FieldInput, CheckoutButton, SubmitCheckout, WooEvent, IdentifyBlur, CheckoutStep
<1>1. CASE UNCHANGED <<requests, sends, jar>>
  <2>1. SameCalls
    BY <1>1 DEF SameCalls
  <2> QED BY <1>0, <1>1, <2>1, NeutralAttempt
<1>2. CASE SendEvents(t, <<"Identify">>, FALSE) /\ UNCHANGED jar
  BY <1>0, <1>2, SendsOther, NeutralAttempt DEF EventNames
<1>3. ASSUME NEW sync \in BOOLEAN, SendInitiateCheckout(t, sync) PROVE AttemptInv'
  <2>1. PICK id \in IF Markers = {} THEN {sends + 1} ELSE Markers :
          /\ requests' = requests \cup {Request(t, "InitiateCheckout", sends + 1, id, sync)}
          /\ sends' = sends + 1
          /\ jar' = MarkSent("tracker", id)
    BY <1>3 DEF SendInitiateCheckout
  <2>2. id \in Int /\ "tracker" \in Slots
    BY <1>0, <2>1 DEF Markers, TypeOK, SendTypeOK, Slots
  <2>3. Carries(id, attempt) \/ Added(id, attempt)
    BY <1>0, <2>1 DEF Carries, Added
  <2>4. \A s \in requests' : s.ev = "InitiateCheckout" =>
            \/ \E r \in requests : r.ev = s.ev /\ r.id = s.id /\ r.attempt = s.attempt
            \/ s.id = id /\ s.attempt = attempt
    BY <2>1 DEF Request
  <2> QED BY <1>0, <2>1, <2>2, <2>3, <2>4, MarkAttempt
<1> QED BY <1>1, <1>2, <1>3, CheckoutSends

\* The order: placed, answered, shown.
LEMMA OrderAttempt ==
    ASSUME TypeOK, TypeOK', ~shop.blocks, AttemptInv, NEW t \in Tabs,
           PlaceOrder(t) \/ OrderAnswered \/ ThankYou(t)
    PROVE  AttemptInv'
<1>0. /\ attempt \in Nat /\ jar \in [Slots -> Int \cup {None}] /\ order.attempt <= attempt
      /\ Past /\ Marked /\ OneId
  BY DEF TypeOK, SendTypeOK, AttemptInv, Past
<1>1. CASE PlaceOrder(t)
  <2>1. UNCHANGED <<shop, jar, attempt, late, lapsed>> /\ order'.attempt = attempt /\ NoneAdded
    BY <1>1, PlaceCarries
  <2>2. Markers' = Markers /\ late \subseteq late' /\ order'.attempt <= attempt
    BY <1>0, <2>1 DEF Markers
  <2> QED BY <1>0, <2>1, <2>2, WithinAttempt DEF NoneAdded, AttemptInv
<1>2. CASE OrderAnswered /\ UNCHANGED <<jar, attempt>>
  <2>1. /\ UNCHANGED <<shop, requests, arrived, late, lapsed>>
        /\ order'.snap = order.snap /\ order'.attempt = order.attempt
    BY <1>2 DEF OrderAnswered, TypeOK, CheckoutTypeOK, OrderType
  <2>2. NoneAdded
    BY <1>2, <2>1 DEF NoneAdded, Carries, Markers
  <2>3. Markers' = Markers /\ late \subseteq late' /\ order'.attempt <= attempt
    BY <1>0, <1>2, <2>1 DEF Markers
  <2> QED BY <1>0, <1>2, <2>1, <2>2, <2>3, WithinAttempt DEF NoneAdded, AttemptInv
<1>3. CASE OrderAnswered /\ Enabled("Purchase")
  <2>1. /\ UNCHANGED <<shop, requests, arrived, late, lapsed>> /\ attempt' = attempt + 1
        /\ jar' = ClearMarkers("plugin")
        /\ order'.snap = order.snap /\ order'.attempt = order.attempt
    BY <1>3 DEF OrderAnswered, TypeOK, CheckoutTypeOK, OrderType
  <2>2. \A i, j \in Markers' : i = j
    BY <1>0, <2>1, OneLeft DEF ClearMarkers, Slots
  <2>3. \A i \in Int, n \in Nat :
           Carries(i, n)' => Carries(i, n) \/ (i \in Markers' /\ n = attempt')
    BY <2>1 DEF Carries
  <2> QED BY <1>0, <2>1, <2>2, <2>3, NextAttempt DEF AttemptInv
<1>4. CASE ThankYou(t)
  <2>1. PICK kept \in {jar, ClearMarkers("plugin")} : jar' = [kept EXCEPT ![Slot("tracker")] = None]
    BY <1>4 DEF ThankYou
  <2>2. kept \in [Slots -> Int \cup {None}] /\ "tracker" \in Slots
    BY <1>0, <2>1 DEF ClearMarkers, Slot, Slots
  <2>3. \A i, j \in Markers' : i = j
    BY <2>1, <2>2, OneLeft
  <2>4. /\ UNCHANGED <<shop, late, lapsed>> /\ attempt' = attempt + 1
        /\ order'.attempt = order.attempt
        /\ \A i \in Int, n \in Nat :
              Carries(i, n)' => Carries(i, n) \/ (i \in Markers' /\ n = attempt')
    BY <1>4, ThankYouCarries
  <2> QED BY <1>0, <2>3, <2>4, NextAttempt DEF AttemptInv
<1> QED BY <1>1, <1>2, <1>3, <1>4 DEF OrderAnswered

-----------------------------------------------------------------------------
LEMMA AttemptStarts == Init => AttemptInv
<1> SUFFICES ASSUME Init PROVE AttemptInv
  OBVIOUS
<1>1. /\ Markers = {} /\ requests = {} /\ arrived = {} /\ order = NoOrder(0)
      /\ attempt = 0 /\ lapsed = {}
  BY DEF Init, SendInit, CheckoutInit, Slots, Markers
<1>2. order.snap = None /\ order.attempt = 0 /\ \A i \in Int : i # None
  BY <1>1, TrackerAssumption DEF NoOrder
<1>3. \A i \in Int : \A n : ~Carries(i, n)
  BY <1>1, <1>2 DEF Carries
<1> QED BY <1>1, <1>2, <1>3 DEF AttemptInv, Past, Marked, OneId

\* Every step keeps the invariant.
LEMMA AttemptNext ==
    ASSUME TypeOK, TypeOK', AttemptInv, [Next]_vars
    PROVE  AttemptInv'
<1>0. shop' = shop
  BY Steps
<1> SUFFICES ASSUME ~shop.blocks PROVE AttemptInv'
  BY <1>0 DEF AttemptInv
<1>1. CASE (Network \/ MarkerExpires) /\ UNCHANGED <<checkoutVars, shopVars, loads>>
  BY <1>1, NetworkAttempt, ExpiryAttempt DEF checkoutVars
<1>2. ASSUME NEW t \in Tabs, LoadPage(t) \/ CloseTab(t) PROVE AttemptInv'
  <2>1. requests' = Orphaned(t) /\ UNCHANGED <<shop, jar, arrived, attempt, late, lapsed, order>>
    BY <1>2 DEF LoadPage, Script, CloseTab
  <2>2. SameCalls
    BY <2>1, OrphansAreCalls
  <2> QED BY <2>1, <2>2, NeutralAttempt
<1>3. ASSUME NEW t \in Tabs, CheckoutActs(t) PROVE AttemptInv'
  BY <1>3, CheckoutAttempt
<1>4. ASSUME NEW t \in Tabs, DraftOrder(t) \/ PlaceOrder(t) \/ ThankYou(t) PROVE AttemptInv'
  BY <1>4, OrderAttempt DEF DraftOrder
<1>5. CASE OrderAnswered
  <2>1. order.tab \in Tabs
    BY <1>5 DEF OrderAnswered, TypeOK, CheckoutTypeOK, OrderType
  <2> QED BY <1>5, <2>1, OrderAttempt
<1>6. ASSUME NEW t \in Tabs, ShopActs(t), UNCHANGED checkoutVars PROVE AttemptInv'
  BY <1>6, ShopKeepsIds, NeutralAttempt DEF checkoutVars, ShopSends
<1>7. CASE UNCHANGED vars
  <2>1. SameCalls /\ UNCHANGED <<shop, jar, arrived, attempt, late, lapsed, order>>
    BY <1>7 DEF vars, sendVars, checkoutVars, SameCalls
  <2> QED BY <2>1, NeutralAttempt
<1> QED BY <1>1, <1>2, <1>3, <1>4, <1>5, <1>6, <1>7 DEF Next, OrderActs

\* What pages and snapshots report of one attempt carries one id, for any number
\* of tabs, pages, calls and orders.
THEOREM AttemptHasOneId == Spec => []OneIdPerAttempt
<1>1. TypeOK /\ AttemptInv => OneIdPerAttempt
  BY DEF TypeOK, SendTypeOK, Arrival, AttemptInv, OneId, Carries, OneIdPerAttempt
<1>2. TypeOK /\ AttemptInv /\ [Next]_vars => (TypeOK /\ AttemptInv)'
  BY TypeNext, AttemptNext
<1> QED BY <1>1, <1>2, TypeInit, AttemptStarts, PTL DEF Spec

=============================================================================
