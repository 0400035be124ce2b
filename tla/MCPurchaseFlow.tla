--------------------------- MODULE MCPurchaseFlow ---------------------------
(* PurchaseFlow with two slots; each run says what may run in which.        *)
EXTENDS PurchaseFlow, TLC

CONSTANTS s1, s2

TwoSlots == {s1, s2}

InSlots(first, second) == s1 :> first @@ s2 :> second

\* Handlers that confirm or end a held order.
Deciders == {"confirm", "bulk", "woo", "cancel", "auto_confirm", "expire"}

AllKinds     == InSlots(KindNames, KindNames)
\* Decisions race each other; status reports come one at a time.
OrderKinds   == InSlots(Deciders \cup {"hold"}, Deciders \cup {"status"})
\* Reports race each other.
ReportKinds  == InSlots({"hold", "woo", "status"}, {"status"})

=============================================================================
