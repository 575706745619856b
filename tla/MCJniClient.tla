----------------------------- MODULE MCJniClient -----------------------------
(* Instances of JniClient for TLC. *)
EXTENDS JniClient, TLC

CONSTANTS p1, p2, ch1, ch2

MCChars == <<ch1, ch2>>
MCFilters == {{ch1, ch2}, {ch2}}
MCOneFilter == {{ch1, ch2}}
MCSymmetry == Permutations(Callers)
===============================================================================
