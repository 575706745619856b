----------------------------- MODULE MCProxyScan -----------------------------
(* Instance of ProxyScan for TLC. *)
EXTENDS ProxyScan

CONSTANT q1
===============================================================================
