---------------------------- MODULE MCAttClient ----------------------------
(* Instances of AttClient for TLC. *)
EXTENDS AttClient

CONSTANTS c1, c2, h1

MCCallers == {c1, c2}
MCHandles == {h1}
\* One goroutine manages the notifications of the characteristic.
MCOneManager == [h \in MCHandles |-> {c1}]
=============================================================================
