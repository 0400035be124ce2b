---------------------------- MODULE TrackerSend ----------------------------
(***************************************************************************)
(* How the shop's browser script (assets/js/tracker.js) sends an event:    *)
(* the event id, the marker cookie that keeps one id for a checkout, the   *)
(* REST call with its AJAX fallback, and the WordPress handlers that relay *)
(* the event and set the marker again with their answer.  TrackerCheckout  *)
(* and TrackerShop hold the handlers that send; Tracker puts them together.*)
(* What an event carries besides its name and id is left out.              *)
(***************************************************************************)
EXTENDS Integers, FiniteSets, Sequences

CONSTANTS
    Tabs,        \* tabs of one browser: they share cookies, not sessionStorage
    Products,    \* products of the shop
    Variations,  \* variations a product page lets the customer choose
    Shops,       \* the settings of a shop a run looks at
    None         \* no tab, no id, no product

EventNames == {"PageView", "ViewContent", "AddToCart", "InitiateCheckout", "ViewCart",
               "RemoveFromCart", "AddPaymentInfo", "Lead", "Search", "Identify", "Purchase"}

PageTypes == {"product", "cart", "checkout", "thankyou", "search", "other"}

\* onePage: the tracking mode the plugin resolved for the page
PageType == [type : PageTypes, product : Products \cup {None}, onePage : BOOLEAN]
NoPage == [type |-> "closed", product |-> None, onePage |-> FALSE]

\* cfg: the events switched on, one-page mode, whether the tracker and the
\* plugin name the same cookie domain, whether sessionStorage and fetch work,
\* whether the checkout is the block checkout, and what the visitor uses.
\* acts and orders are bounds: so many events are sent before the visitor stops
\* acting, and so many orders are placed.
\* (Identify has no switch: it stands for a visitor who fills in those fields;
\* the Purchase is the server's.)
ShopType == [events : SUBSET EventNames, onePage : BOOLEAN, sameDomain : BOOLEAN,
             storage : BOOLEAN, fetch : BOOLEAN, blocks : BOOLEAN, tabs : SUBSET Tabs,
             pages : SUBSET PageTypes, goods : SUBSET Products,
             acts : Nat, orders : Nat]

ASSUME TrackerAssumption ==
    /\ None \notin Tabs /\ None \notin Int
    /\ None \notin Products /\ None \notin Variations
    /\ Shops \subseteq ShopType

VARIABLES
    shop,      \* the settings, chosen once
    page,      \* per tab: what is loaded
    jar,       \* the cookie _buykorigw_ic_event_id, per domain it is set for
    once,      \* per tab: the keys eventOnce remembers
    requests,  \* calls under way that matter to anyone
    arrived,   \* InitiateCheckout events the gateway has
    sends,     \* events sent so far; also the source of fresh ids
    attempt,   \* how often the markers were cleared: a clearing ends a checkout
    late,      \* ids a late answer marked again after they were cleared
    lapsed     \* attempts in which the marker ran out after its 20 minutes

sendVars == <<shop, page, jar, once, requests, arrived, sends, attempt, late, lapsed>>

Slots == {"tracker", "plugin"}
Key == [name : {"PageView", "ViewContent", "ViewContentVar", "ViewContentCard",
                "AddToCart", "AddToCartIntent"},
        item : Products \cup Variations \cup {None},
        path : Products \cup PageTypes]
RequestType ==
    [ev : EventNames, trig : Nat, id : Int, attempt : Nat, tab : Tabs \cup {None},
     via : {"rest", "ajax"}, sync : BOOLEAN, relayed : BOOLEAN]

\* from: sent by a page, or by the server for an order, with the id of the
\* order's snapshot, of the request's cookie, or of the order itself.
Arrival == [id : Int, attempt : Nat, from : {"page", "snapshot", "cookie", "order"}]

SendTypeOK ==
    /\ shop \in Shops
    /\ page \in [Tabs -> PageType \cup {NoPage}]
    /\ jar \in [Slots -> Int \cup {None}]
    /\ once \in [Tabs -> SUBSET Key]
    /\ requests \in SUBSET RequestType
    /\ arrived \in SUBSET Arrival
    /\ sends \in Nat /\ attempt \in Nat
    /\ late \in SUBSET Int /\ lapsed \in SUBSET Nat

SendInit ==
    /\ shop \in Shops
    /\ page = [t \in Tabs |-> NoPage]
    /\ jar = [s \in Slots |-> None]
    /\ once = [t \in Tabs |-> {}]
    /\ requests = {} /\ arrived = {}
    /\ sends = 0 /\ attempt = 0
    /\ late = {} /\ lapsed = {}

Enabled(ev) == ev \in shop.events
Open(t) == page[t].type # "closed"
Reports(t, ev) == Enabled(ev) /\ Open(t)

\* currentPathKey: a product page is known by its product.
PathOf(p) == IF p.product # None THEN p.product ELSE p.type
Path(t) == PathOf(page[t])

\* cfg.product: the plugin tells the page's product only for ViewContent.
CfgProduct(t) == IF Enabled("ViewContent") THEN page[t].product ELSE None

-----------------------------------------------------------------------------
(* Cookies and sessionStorage *)

\* The tracker drops the first label of a host with three or more, the plugin
\* only "www.": on a shop below another domain they write two cookies.
Slot(writer) == IF shop.sameDomain THEN "tracker" ELSE writer

\* A page and PHP read the cookie that is listed first, the older one of two.
Markers == {jar[s] : s \in Slots} \ {None}

\* Fault: the page leaves it to the answer to set the marker.
MarkSentLater(writer, id) ==
    IF writer = "plugin" THEN [jar EXCEPT ![Slot(writer)] = id] ELSE jar
\* Fault: only the time is cleared (_buykorigw_ic_sent), the id stays.
ClearTimeOnly(writer) == jar

MarkSent(writer, id) == [jar EXCEPT ![Slot(writer)] = id]
ClearMarkers(writer) == [jar EXCEPT ![Slot(writer)] = None]

\* eventOnce: a key passes when it is not remembered, and is remembered then.
Remembers(t, k) == k \in once[t]
Remember(t, keys) == [once EXCEPT ![t] = @ \cup keys]

\* The marker cookie reaches the end of its 20 minutes.
MarkerExpires ==
    /\ \E s \in Slots : jar[s] # None /\ jar' = [jar EXCEPT ![s] = None]
    /\ lapsed' = lapsed \cup {attempt}
    /\ UNCHANGED <<shop, page, once, requests, arrived, sends, attempt, late>>

-----------------------------------------------------------------------------
(* sendEvent *)

\* A synchronous call stops every handler of its tab.
Busy(t) == \E r \in requests : r.tab = t /\ r.sync
Acts(t) == sends < shop.acts /\ ~Busy(t)

Request(t, ev, n, id, sync) ==
    [ev |-> ev, trig |-> n, id |-> id, attempt |-> IF ev = "InitiateCheckout" THEN attempt ELSE 0,
     tab |-> t, via |-> IF sync \/ shop.fetch THEN "rest" ELSE "ajax",
     sync |-> sync, relayed |-> FALSE]

\* Every event but InitiateCheckout gets an id of its own.  Nothing depends on
\* what becomes of such a call, except that a synchronous one stops the page:
\* only that one is kept.
Requests(t, evs, sync) ==
    IF sync THEN {Request(t, evs[i], sends + i, sends + i, sync) : i \in 1..Len(evs)} ELSE {}
SendEvents(t, evs, sync) ==
    /\ requests' = requests \cup Requests(t, evs, sync)
    /\ sends' = sends + Len(evs)

\* InitiateCheckout repeats the id of the marker; the marker is written before
\* the call, whatever becomes of it.
SendInitiateCheckout(t, sync) ==
    \E id \in IF Markers = {} THEN {sends + 1} ELSE Markers :
        /\ requests' = requests \cup {Request(t, "InitiateCheckout", sends + 1, id, sync)}
        /\ sends' = sends + 1
        /\ jar' = MarkSent("tracker", id)

\* What a page leaves behind: calls go on (keepalive), nobody waits for them.
Orphaned(t) == {IF r.tab = t THEN [r EXCEPT !.tab = None] ELSE r : r \in requests}

-----------------------------------------------------------------------------
(* The WordPress handlers and their answers *)

\* A failed asynchronous REST call is sent again through AJAX with the same id,
\* if the page that waits for the answer is still there.
AfterFailure(r) ==
    (requests \ {r}) \cup
        IF r.via = "rest" /\ ~r.sync /\ r.tab # None
        THEN {[r EXCEPT !.via = "ajax", !.relayed = FALSE]} ELSE {}

\* A handler relays the call; a success is then on its way to the browser.
Handle(r, got, ok) ==
    /\ ~r.relayed
    /\ requests' = IF ok THEN (requests \ {r}) \cup {[r EXCEPT !.relayed = TRUE]}
                   ELSE AfterFailure(r)
    /\ arrived' = arrived \cup
           IF got /\ r.ev = "InitiateCheckout"
           THEN {[id |-> r.id, attempt |-> r.attempt, from |-> "page"]} ELSE {}
    /\ UNCHANGED <<shop, page, jar, once, sends, attempt, late, lapsed>>

\* buykorigw_rest_track_event waits for the gateway: a refusal or a gateway
\* that does not answer is a failure, perhaps after the gateway took the event.
RelayRest(r) ==
    \E got, ok \in BOOLEAN :
        /\ r.via = "rest" /\ (ok => got)
        /\ Handle(r, got, ok)

\* buykorigw_ajax_track_event does not wait: unless it refuses the call it
\* answers "ok", whether or not the gateway got the event.
RelayAjax(r) ==
    \E got, ok \in BOOLEAN :
        /\ r.via = "ajax" /\ (got => ok)
        /\ Handle(r, got, ok)

\* The answer to an InitiateCheckout that was relayed sets the marker again.
Answer(r) ==
    /\ r.relayed
    /\ requests' = requests \ {r}
    /\ IF r.ev = "InitiateCheckout"
       THEN /\ jar' = MarkSent("plugin", r.id)
            /\ late' = IF r.attempt = attempt THEN late ELSE late \cup {r.id}
       ELSE UNCHANGED <<jar, late>>
    /\ UNCHANGED <<shop, page, once, arrived, sends, attempt, lapsed>>

\* The answer is lost.
LoseAnswer(r) ==
    /\ r.relayed
    /\ requests' = AfterFailure(r)
    /\ UNCHANGED <<shop, page, jar, once, arrived, sends, attempt, late, lapsed>>

Returns == \E r \in requests : RelayRest(r) \/ RelayAjax(r) \/ Answer(r)
Network == Returns \/ \E r \in requests : LoseAnswer(r)
=============================================================================
