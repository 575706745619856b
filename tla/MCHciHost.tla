------------------------------ MODULE MCHciHost ------------------------------
(* Instances of HciHost for TLC. *)
EXTENDS HciHost, TLC

CONSTANTS l1, l2

MCTwo == {l1, l2}
MCAll == Links
MCOnly2 == {l2}
\* Two links that are up at a time have different handles.
MCOwn == (l1 :> 1) @@ (l2 :> 2)
=============================================================================
