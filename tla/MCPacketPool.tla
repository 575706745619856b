---------------------------- MODULE MCPacketPool ----------------------------
(* Instances of PacketPool for TLC. *)
EXTENDS PacketPool

CONSTANTS b1, b2, b3, b4

\* One for each packet, and one more.
MCBufs == {b1, b2, b3, b4}
=============================================================================
