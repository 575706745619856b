----------------------------- MODULE MCJniServer -----------------------------
(* Instances of JniServer for TLC. *)
EXTENDS JniServer
===============================================================================
