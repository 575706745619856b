--------------------------- MODULE MCAndroidDevice ---------------------------
(* Instances of AndroidDevice for TLC. *)
EXTENDS AndroidDevice, TLC

CONSTANTS p1, p2, q1, q2

MCSymmetry == Permutations(Callers)
===============================================================================
