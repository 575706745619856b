------------------------------- MODULE MCL2cap -------------------------------
(* Instances of L2cap for TLC: a packet holds seven bytes, as in the code it  *)
(* holds 27, so that a payload of three bytes fits, as one of 23 does there.  *)
EXTENDS L2cap, TLC

CONSTANTS x1, x2

MCWriters == {x1, x2}
Att(b) == [cid |-> AttCid, b |-> b]
\* What updateConnection writes is a frame of the signalling channel.
Signal == [cid |-> SignalCid, b |-> <<18, 2>>]

\* A payload of three packets whose second packet looks like a frame, and a frame that
\* fills its packet exactly; a signal and a short payload of the other writer.
MCPayloads == (x1 :> <<Att(<<31, 32, 33, 0, 0, 4, 0, 34, 35, 36, 37>>), Att(<<21, 22, 23>>)>>)
                @@ (x2 :> <<Signal, Att(<<24, 25>>)>>)
=============================================================================
