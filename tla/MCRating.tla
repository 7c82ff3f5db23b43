----------------------------- MODULE MCRating -----------------------------
(* A small instance of Rating for TLC: all catalogues of up to two of these *)
(* offerings.                                                               *)
EXTENDS Rating

Offer(sellable, group, scope, unit, amount, price) ==
    [sellable |-> sellable, group |-> group, scope |-> scope, unit |-> unit,
     amount |-> amount, price |-> price]

NoScope == [n \in {} |-> {}]

Offerings ==
    {Offer(TRUE, 1, NoScope, "volume", 2, 3),
     Offer(TRUE, 1, [n \in {"slice"} |-> {1, 2}], "volume", 4, 2),
     Offer(TRUE, 1, [n \in {"roaming"} |-> {TRUE}], "units", 1, 5),
     Offer(TRUE, 2, NoScope, "time", 3, 4),
     Offer(FALSE, 2, NoScope, "volume", 1, 1),
     Offer(TRUE, 2, NoScope, "none", 0, 2)}

MCCatalogs == UNION {[1..n -> Offerings] : n \in 0..2}

MCRequests ==
    [slice : {Absent, 1}, home : {Absent, "A"}, serving : {Absent, "A", "B"}]

MCGroups == <<1, 2>>

MCUsedReports == [volume : {0, 1, 9}, units : {0, 1}, time : {0, 2}]

===========================================================================
