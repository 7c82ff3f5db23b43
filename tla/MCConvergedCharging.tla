----------------------- MODULE MCConvergedCharging -----------------------
(* A small instance of ConvergedCharging for TLC.                           *)
EXTENDS ConvergedCharging, TLC

Symmetry == Permutations(Threads)

(* One priced volume tariff; a zero-priced one granting seconds.            *)
MCRatings ==
    {[cost |-> 2, grant |-> [NoQuantity EXCEPT !.volume = 2]],
     [cost |-> 0, grant |-> [NoQuantity EXCEPT !.time = 1]]}

(* Half of one priced grant used.                                           *)
MCUsedReports == {[NoQuantity EXCEPT !.volume = 1]}
===========================================================================
