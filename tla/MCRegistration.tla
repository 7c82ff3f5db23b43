--------------------------- MODULE MCRegistration ---------------------------
(* One UE and two gNBs, which are alike.                                     *)
EXTENDS Registration, TLC

GnbSymmetry == Permutations(Gnb)
=============================================================================
