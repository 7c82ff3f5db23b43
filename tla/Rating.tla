----------------------------- MODULE Rating -----------------------------
(***************************************************************************)
(* The CHF's rating engine and what it leads to: the usages of one session *)
(* are rated one after the other against the product catalogue             *)
(* (build_rating_grant, charging_scope_matches, collect_charging_          *)
(* attributes), price and grants add up in the session (add_reserved,      *)
(* add_granted_*; every reservation succeeds here), and the Release debits *)
(* the part of the total that its usage report accounts for                *)
(* (proportional_debit).                                                   *)
(*                                                                         *)
(* An offering carries the data of its first price: the rating group, the  *)
(* chargingScope as a function from attribute names to the accepted values *)
(* (a scalar is a singleton), the dimension and amount of its              *)
(* unitOfMeasure, and the price.                                           *)
(***************************************************************************)
EXTENDS ProportionalDebit, Sequences

CONSTANTS
    Catalogs,     \* sequences of offerings
    Requests,     \* records [slice, home, serving] of a charging data request
    Absent,       \* an optional field that is not there
    Groups,       \* rating groups of the session's usages, in order
    Predictions,  \* what the quota sizing model may predict
    UsedReports   \* usage reported at Release

Units == {"volume", "units", "time", "none"}

(* Requests carry these three fields, absent or not; prices and amounts of  *)
(* offerings are whole numbers; predictions and reports are not negative.   *)
ASSUME RatingAssumption ==
    /\ Len(Groups) \in Nat
    /\ \A q \in Requests : DOMAIN q = {"slice", "home", "serving"}
    /\ \A c \in Catalogs :
         /\ Len(c) \in Nat /\ DOMAIN c = 1..Len(c)
         /\ \A k \in DOMAIN c : /\ c[k].unit \in Units
                               /\ c[k].amount \in Nat /\ c[k].price \in Nat
    /\ Predictions \subseteq Nat
    /\ UsedReports \subseteq Quantity

VARIABLES
    catalog,      \* the product catalogue
    request,      \* the session's attributes
    usage,        \* index of the usage being rated
    i,            \* index of the offering looked at; 0 before the list is read
    missed,       \* offerings whose price could not be read in this loop
    rated,        \* per usage done, the index of the offering used, 0 if none
    total,        \* reserved_total
    granted,      \* granted_volume, granted_service_units, granted_time
    used, debit   \* the Release: reported usage and the amount debited

ratingVars == <<catalog, request, usage, i, missed, rated, total, granted, used, debit>>

NotSettled == -1

RatingInit ==
    /\ catalog \in Catalogs
    /\ request \in Requests
    /\ usage = 1 /\ i = 0 /\ missed = {} /\ rated = <<>>
    /\ total = 0 /\ granted = NoQuantity
    /\ used = NoQuantity /\ debit = NotSettled

---------------------------------------------------------------------------
(* collect_charging_attributes: what the request carries, and "roaming"     *)
(* when it carries both networks.                                           *)
collect_charging_attributes(q) ==
    LET names == {n \in {"slice", "home", "serving"} : q[n] # Absent}
                   \cup (IF q.home # Absent /\ q.serving # Absent
                         THEN {"roaming"} ELSE {})
    IN  [n \in names |-> IF n = "roaming" THEN q.serving # q.home ELSE q[n]]

(* Mutant: an attribute the request does not carry is no mismatch.          *)
charging_scope_matches_Lenient(scope, attributes) ==
    \A n \in DOMAIN scope \cap DOMAIN attributes : attributes[n] \in scope[n]

charging_scope_matches(scope, attributes) ==
    \A n \in DOMAIN scope : n \in DOMAIN attributes /\ attributes[n] \in scope[n]

(* isSellable, lifecycleStatus and a price                                  *)
Offered(o) == o.sellable

Matches(o) ==
    /\ o.group = Groups[usage]
    /\ charging_scope_matches(o.scope, collect_charging_attributes(request))

(* unitOfMeasure: GB and MB, SEC to DAYS, anything else.                    *)
GrantOf(o) == [NoQuantity EXCEPT ![o.unit] = o.amount]

(* The quota sizing model may change a volume grant, from half to twice the *)
(* configured one.                                                          *)
Sized(base, predicted) ==
    IF 2 * predicted < base THEN base \div 2
    ELSE IF predicted > 2 * base THEN 2 * base
    ELSE predicted

Grants(o) ==
    {GrantOf(o)} \cup
    (IF o.unit = "volume" /\ o.amount > 0
     THEN {[NoQuantity EXCEPT !.volume = Sized(o.amount, p)] : p \in Predictions}
     ELSE {})

(* The result of rating one usage: by offering k, or 0 for no grant.        *)
Done(k) ==
    /\ rated' = Append(rated, [by |-> k, missed |-> missed, listed |-> i > 0])
    /\ usage' = usage + 1
    /\ i' = 0
    /\ missed' = {}
    /\ UNCHANGED <<catalog, request, used, debit>>

Rating == usage <= Len(Groups)

(* GET /productOffering                                                     *)
ListOfferings ==
    /\ Rating /\ i = 0
    /\ \/ /\ i' = 1
          /\ UNCHANGED <<catalog, request, usage, missed, rated, total, granted,
                         used, debit>>
       \/ Done(0) /\ UNCHANGED <<total, granted>>

Skip(k) ==
    /\ i' = i + 1
    /\ missed' = missed \cup k
    /\ UNCHANGED <<catalog, request, usage, rated, total, granted, used, debit>>

(* One turn of the loop: an offering that is not on sale, whose price       *)
(* cannot be read, of another rating group or out of scope is passed over;  *)
(* the first other one decides, also when it has no unit and grants nothing.*)
ConsiderOffering ==
    /\ Rating /\ i \in 1..Len(catalog)
    /\ LET o == catalog[i]
       IN  \/ ~Offered(o) /\ Skip({})
           \/ Offered(o) /\ Skip({i})
           \/ Offered(o) /\ ~Matches(o) /\ Skip({})
           \/ /\ Offered(o) /\ Matches(o) /\ o.unit = "none"
              /\ Done(0)
              /\ UNCHANGED <<total, granted>>
           \/ /\ Offered(o) /\ Matches(o) /\ o.unit # "none"
              /\ Done(i)
              /\ total' = total + o.price
              /\ \E g \in Grants(o) :
                    granted' = [volume |-> granted.volume + g.volume,
                                units |-> granted.units + g.units,
                                time |-> granted.time + g.time]

NoMoreOfferings ==
    /\ Rating /\ i > Len(catalog)
    /\ Done(0)
    /\ UNCHANGED <<total, granted>>

(* The Release.                                                             *)
Settle ==
    /\ ~Rating /\ debit = NotSettled
    /\ \E u \in UsedReports :
          used' = u /\ debit' = proportional_debit(total, granted, u)
    /\ UNCHANGED <<catalog, request, usage, i, missed, rated, total, granted>>

RatingNext == ListOfferings \/ ConsiderOffering \/ NoMoreOfferings \/ Settle

RatingSpec == RatingInit /\ [][RatingNext]_ratingVars

---------------------------------------------------------------------------
RatingTypeOK ==
    /\ usage \in 1..(Len(Groups) + 1)
    /\ i \in 0..(Len(catalog) + 1)
    /\ missed \subseteq DOMAIN catalog
    /\ Len(rated) = usage - 1
    /\ total \in Nat /\ granted \in Quantity /\ used \in Quantity
    /\ debit \in Nat \cup {NotSettled}

(* Usage u would be rated by offering k if its price can be read: the       *)
(* declarative reading of the catalogue.                                    *)
Applies(k, u) ==
    LET o == catalog[k]
        needs(n) == IF n = "roaming" THEN {"home", "serving"} ELSE {n}
        known(n) == \A m \in needs(n) : m \in DOMAIN request /\ request[m] # Absent
        value(n) == IF n = "roaming" THEN request.home # request.serving ELSE request[n]
    IN  /\ o.sellable /\ o.group = Groups[u]
        /\ \A n \in DOMAIN o.scope : known(n) /\ value(n) \in o.scope[n]

(* Every usage is rated by the first offering that applies to it, in        *)
(* catalogue order; one that applies is passed over only if its own price   *)
(* could not be read, and a usage stays unrated only if none is left or the *)
(* first one left configures no unit.                                       *)
FirstMatchRates ==
    \A u \in DOMAIN rated :
       LET left == {k \in DOMAIN catalog : Applies(k, u) /\ k \notin rated[u].missed}
       IN  IF rated[u].by # 0
           THEN /\ rated[u].by \in left /\ catalog[rated[u].by].unit # "none"
                /\ \A k \in left : rated[u].by <= k
           ELSE \/ ~rated[u].listed \/ left = {}
                \/ \E k \in left : catalog[k].unit = "none" /\ \A l \in left : k <= l

AtLeast(u, v) == u.volume >= v.volume /\ u.units >= v.units /\ u.time >= v.time

(* Settlement is fair to both sides: reporting more usage never costs less, *)
(* a session that used all its grants pays the total, one that used nothing *)
(* of them pays nothing, and no report makes it pay more than the total.    *)
DebitFair ==
    debit # NotSettled =>
       /\ debit <= total
       /\ AtLeast(used, granted) => debit = total
       /\ used = NoQuantity /\ granted # NoQuantity => debit = 0
       /\ \A v \in UsedReports :
             AtLeast(v, used) => proportional_debit(total, granted, v) >= debit

(* Counting volume in other units, k to the octet.                          *)
Recount(q, k) == [q EXCEPT !.volume = k * q.volume]

UnitFree == \A k \in 2..3 :
    proportional_debit(total, Recount(granted, k), Recount(used, k)) = debit

(* With grants in one dimension only, the debit does not depend on the unit *)
(* the dimension is counted in.                                             *)
OneDimensionUnitFree ==
    debit # NotSettled /\ (granted.volume = 0 \/ granted.units + granted.time = 0)
       => UnitFree
===========================================================================
