----------------------------- MODULE MCAttServer -----------------------------
(* Instances of AttServer for TLC. *)
EXTENDS AttServer
===============================================================================
