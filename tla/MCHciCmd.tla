------------------------------ MODULE MCHciCmd ------------------------------
(* Instances of HciCmd for TLC. *)
EXTENDS HciCmd, TLC

CONSTANTS s1, s2, s3

MCSenders == {s1, s2, s3}
\* Three different commands: say LESetAdvertiseEnable, LESetScanEnable and
\* LECreateConn, of which the controller answers the last with a status.
MCOp == (s1 :> "adv") @@ (s2 :> "scan") @@ (s3 :> "conn")
MCSends == (s1 :> 2) @@ (s2 :> 1) @@ (s3 :> 1)
MCChecked == {s1, s2}
=============================================================================
