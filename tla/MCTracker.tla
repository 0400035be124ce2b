----------------------------- MODULE MCTracker -----------------------------
(* The tracker in the shops whose behaviours differ.                        *)
EXTENDS Tracker, TLC

CONSTANTS t1, t2, p1, p2, v1

Base == [events |-> {}, onePage |-> FALSE, sameDomain |-> TRUE, storage |-> TRUE,
         fetch |-> TRUE, blocks |-> FALSE, tabs |-> {t1}, pages |-> {"checkout"},
         goods |-> {p1}, acts |-> 2, orders |-> 1]

Classic   == [Base EXCEPT !.events = {"InitiateCheckout", "Purchase"}]
TwoTabs   == [Classic EXCEPT !.tabs = {t1, t2}, !.onePage = TRUE, !.orders = 2]
Landing   == [Classic EXCEPT !.events = @ \cup {"AddToCart"}, !.onePage = TRUE,
                             !.storage = FALSE, !.pages = {"other"}]
Blocks    == [Classic EXCEPT !.events = @ \cup {"Identify"}, !.blocks = TRUE, !.fetch = FALSE]
Untracked == [Base EXCEPT !.events = {"InitiateCheckout"}, !.orders = 2]
Subdomain == [Classic EXCEPT !.sameDomain = FALSE]
Cards     == [Base EXCEPT !.events = {"PageView", "ViewContent"}, !.onePage = TRUE,
                          !.pages = {"product", "other"}, !.goods = {p1, p2}]
Product   == [Base EXCEPT !.events = {"ViewContent", "AddToCart"}, !.pages = {"product"},
                            !.goods = {p1, p2}]
Private   == [Base EXCEPT !.events = {"AddToCart"}, !.pages = {"product", "other"},
                            !.goods = {p1, p2}, !.storage = FALSE, !.acts = 3]
Removals  == [Base EXCEPT !.events = {"RemoveFromCart", "ViewCart", "AddPaymentInfo", "Lead", "Search"},
                          !.pages = {"cart", "checkout", "search"}, !.acts = 5]
AllShops == {Classic, TwoTabs, Landing, Blocks, Untracked, Subdomain, Cards, Product, Private,
             Removals}
=============================================================================
