---------------------------- MODULE PeripheralLife ----------------------------
(***************************************************************************)
(* What gatt.Device promises the application about the life of a           *)
(* connection attempt, whichever backend serves it (src/device.go:         *)
(* Connect, CancelConnection and the handlers PeripheralConnected and      *)
(* PeripheralDisconnected).  An attempt ends with a failure report, or     *)
(* with a success report followed by one report of the disconnection.  A   *)
(* success is reported only of a link that did come up in this attempt,    *)
(* and a disconnection only when that link is gone or the application gave *)
(* the attempt up.                                                         *)
(***************************************************************************)
CONSTANT Attempts

VARIABLES
  link,    \* what the radio did: the link "never" came up, "up", "gone" or "refused"
  view,    \* what the application was told of the attempt
  givenUp  \* the attempts the application cancelled

lifeVars == <<link, view, givenUp>>

LifeTypeOK ==
  /\ link \in [Attempts -> {"never", "up", "gone", "refused"}]
  /\ view \in [Attempts -> {"idle", "asked", "connected", "over"}]
  /\ givenUp \in SUBSET Attempts

LifeInit ==
  /\ link = [a \in Attempts |-> "never"]
  /\ view = [a \in Attempts |-> "idle"]
  /\ givenUp = {}

\* The application calls Connect.
Ask(a) ==
  /\ view[a] = "idle"
  /\ view' = [view EXCEPT ![a] = "asked"]
  /\ UNCHANGED <<link, givenUp>>

\* The link of the attempt comes up; later it is lost; or it cannot be had.
LinkUp(a) ==
  /\ view[a] # "idle" /\ link[a] = "never"
  /\ link' = [link EXCEPT ![a] = "up"]
  /\ UNCHANGED <<view, givenUp>>

Ended(a) == [link EXCEPT ![a] = IF @ = "never" THEN "refused" ELSE "gone"]

LinkEnds(a) ==
  /\ view[a] # "idle" /\ link[a] \in {"never", "up"}
  /\ link' = Ended(a)
  /\ UNCHANGED <<view, givenUp>>

GiveUp(a) ==
  /\ view[a] # "idle"
  /\ givenUp' = givenUp \cup {a}
  /\ UNCHANGED <<link, view>>

\* A backend may drop what is left of the link as it reports the end.
Released(a) == UNCHANGED link \/ (link[a] \in {"never", "up"} /\ link' = Ended(a))

\* PeripheralConnected with no error, and with one; a backend that cannot
\* even begin reports within Connect.
ReportConnected(a) ==
  /\ view[a] = "asked" /\ link[a] \in {"up", "gone"}
  /\ view' = [view EXCEPT ![a] = "connected"]
  /\ UNCHANGED <<link, givenUp>>

ReportFailed(a) ==
  /\ view[a] \in {"idle", "asked"}
  /\ view' = [view EXCEPT ![a] = "over"]
  /\ Released(a)
  /\ UNCHANGED givenUp

\* PeripheralDisconnected.
ReportDisconnected(a) ==
  /\ view[a] = "connected"
  /\ link[a] = "gone" \/ a \in givenUp
  /\ view' = [view EXCEPT ![a] = "over"]
  /\ Released(a)
  /\ UNCHANGED givenUp

LifeNext ==
  \E a \in Attempts :
    \/ Ask(a) \/ GiveUp(a)
    \/ LinkUp(a) \/ LinkEnds(a)
    \/ ReportConnected(a) \/ ReportFailed(a) \/ ReportDisconnected(a)

LifeSpec == LifeInit /\ [][LifeNext]_lifeVars
===============================================================================
