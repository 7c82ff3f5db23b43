------------------------ MODULE ProportionalDebit ------------------------
(***************************************************************************)
(* chf::proportional_debit: what part of a session's reservation is kept   *)
(* when the session ends.  Grants and reported usage have three dimensions *)
(* (octets, service-specific units, seconds).  The code computes in        *)
(* doubles; here an amount of money is a whole number of the smallest unit *)
(* and the quotient is rounded down.                                       *)
(***************************************************************************)
EXTENDS Integers

Quantity == [volume : Nat, units : Nat, time : Nat]

NoQuantity == [volume |-> 0, units |-> 0, time |-> 0]

Lesser(a, b) == IF a <= b THEN a ELSE b

(* std::clamp(x, 0, hi)                                                     *)
Clamp(x, hi) == IF x < 0 THEN 0 ELSE Lesser(x, hi)

granted_weight(g) == g.volume + g.units + g.time

(* Mutant: only octets are proportioned.                                    *)
consumed_weight_VolumeOnly(g, u) == Lesser(u.volume, g.volume)

(* Mutant: usage counts in full, granted or not.                            *)
consumed_weight_Uncapped(g, u) == u.volume + u.units + u.time

(* A dimension without a grant counts for nothing, however much of it is    *)
(* reported; one with a grant counts at most its grant.                     *)
consumed_weight(g, u) ==
    Lesser(u.volume, g.volume) + Lesser(u.units, g.units) + Lesser(u.time, g.time)

proportional_debit(total, g, u) ==
    IF total <= 0 THEN 0
    ELSE IF granted_weight(g) <= 0 THEN total
    ELSE Clamp((total * consumed_weight(g, u)) \div granted_weight(g), total)
===========================================================================
