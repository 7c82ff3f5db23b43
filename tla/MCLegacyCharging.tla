------------------------ MODULE MCLegacyCharging ------------------------
(* A small instance of LegacyCharging for TLC.                              *)
EXTENDS LegacyCharging

(* Priced tariffs for data and for call time.                               *)
MCRatings ==
    {[cost |-> 2, grant |-> [NoQuantity EXCEPT !.volume = 2]],
     [cost |-> 1, grant |-> [NoQuantity EXCEPT !.time = 2]]}

(* Both front ends report one unit: an octet, or a second.                  *)
MCUsedReports == {[volume |-> 1, units |-> 0, time |-> 1]}
===========================================================================
