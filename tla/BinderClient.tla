---------------------------- MODULE BinderClient ----------------------------
(***************************************************************************)
(* The client side of the Android backend over Binder: Connect, the        *)
(* monitor of a connection and CancelConnection (android/binder/device.go),*)
(* the operations of a peripheral (peripheral.go), the transactions        *)
(* (raw_gatt.go) and the callbacks (gatt_callback.go).                     *)
(*                                                                         *)
(* Every transaction names client 1, so the service knows a link by the    *)
(* address alone: a request goes to whichever link is up, and one that     *)
(* finds none is taken and never answered.                                 *)
(*                                                                         *)
(* External: the Bluetooth service.  It answers a request at most once,    *)
(* reports the changes of a link in order, and takes its links and clients *)
(* with it, without a word, when it goes down.                             *)
(***************************************************************************)
EXTENDS GattCalls

CONSTANT CanCancel  \* the attempts whose context may be cancelled

LastService == 2    \* bound: incarnations of the Bluetooth service

VARIABLES
  handle,            \* per.rawGatt: 0, or the attempt that stored it
  conn,              \* conn[g]: where Connect and the monitor of attempt g are
  java,              \* java[g]: the link of attempt g as the service knows it
  connStateChanged,  \* the channel per.connStateChanged
  givenUp,           \* attempts the application cancelled
  btProxy,           \* d.btProxy: the incarnation of the service, 0 when it is down
  cachedGatt,        \* d.rawGatt: the incarnation it was got from
  service,           \* the incarnation of the service that runs (external)
  registering,       \* attempts whose OnClientRegistered is to come
  clientRegistered   \* the channel per.clientRegistered

attempt == <<handle, conn, givenUp>>
binder == <<btProxy, cachedGatt, service>>
register == <<registering, clientRegistered>>
binderVars == <<attempt, java, connStateChanged, binder, register>>
vars == <<binderVars, calls>>

\* The device was started and its peripheral found.
Init ==
  /\ handle = 0 /\ conn = [g \in Gens |-> "idle"] /\ java = [g \in Gens |-> "none"]
  /\ connStateChanged = <<>> /\ givenUp = {}
  /\ btProxy = 1 /\ cachedGatt = 0 /\ service = 1
  /\ registering = {} /\ clientRegistered = <<>>
  /\ CallsInit

-------------------------------------------------------------------------------
(* managerCallback: the service goes down and comes up again.  d.rawGatt   *)
(* is not renewed.                                                         *)

Ended(state) ==
  CASE state = "connecting" -> "refused" [] state = "up" -> "gone" [] OTHER -> state

OnBluetoothServiceDown ==
  /\ service # 0 /\ service < LastService
  /\ service' = 0 /\ btProxy' = 0
  /\ java' = [g \in Gens |-> Ended(java[g])]
  /\ registering' = {} /\ outstanding' = {}
  /\ UNCHANGED <<attempt, connStateChanged, cachedGatt, clientRegistered, nreq, chan, call, mixed>>

OnBluetoothServiceUp ==
  /\ service = 0
  /\ service' = LastService /\ btProxy' = LastService
  /\ UNCHANGED <<attempt, java, connStateChanged, cachedGatt, register, calls>>

\* A transaction reaches the service it was made for, or fails (external).
Transacts(incarnation) == incarnation # 0 /\ incarnation = service

-------------------------------------------------------------------------------
(* Connections                                                             *)

\* The application calls Connect again only when the last attempt is over.
MayConnect(g) == conn[g] = "idle" /\ \A h \in Gens : h < g => conn[h] = "over"

\* getBluetoothGatt: what was got once is used for ever.
Got == IF cachedGatt # 0 THEN cachedGatt ELSE btProxy

\* Connect fails before it waits: no IBluetoothGatt, or registerClient fails.
ConnectFails(g) ==
  /\ MayConnect(g)
  /\ conn' = [conn EXCEPT ![g] = "over"]
  /\ cachedGatt' \in {cachedGatt, Got}
  /\ UNCHANGED <<handle, givenUp, java, connStateChanged, btProxy, service, register, calls>>

RegisterClient(g) ==
  /\ MayConnect(g) /\ Transacts(Got)
  /\ cachedGatt' = Got
  /\ registering' = registering \cup {g}
  /\ conn' = [conn EXCEPT ![g] = "registering"]
  /\ UNCHANGED <<handle, givenUp, java, connStateChanged, btProxy, service, clientRegistered, calls>>

OnClientRegistered(g, ok) ==
  /\ g \in registering
  /\ registering' = registering \ {g}
  /\ clientRegistered' = Offer(clientRegistered, ok)
  /\ UNCHANGED <<attempt, java, connStateChanged, binder, calls>>

\* Connect takes the answer: per.clientIf and per.rawGatt are stored, under per.mu.
TakeRegistered(g) ==
  /\ conn[g] = "registering" /\ clientRegistered # <<>>
  /\ clientRegistered' = Tail(clientRegistered)
  /\ IF Head(clientRegistered)
       THEN conn' = [conn EXCEPT ![g] = "stored"] /\ handle' = g
       ELSE conn' = [conn EXCEPT ![g] = "over"] /\ UNCHANGED handle
  /\ UNCHANGED <<givenUp, java, connStateChanged, binder, registering, calls>>

\* clientConnect; when it fails, per.rawGatt stays.
ClientConnect(g, ok) ==
  /\ conn[g] = "stored"
  /\ ok => Transacts(cachedGatt)
  /\ conn' = [conn EXCEPT ![g] = IF ok THEN "waiting" ELSE "over"]
  /\ java' = IF ok THEN [java EXCEPT ![g] = "connecting"] ELSE java
  /\ UNCHANGED <<handle, givenUp, connStateChanged, binder, register, calls>>

TakeConnState_any(g) ==
  /\ conn[g] = "waiting" /\ connStateChanged # <<>>
  /\ connStateChanged' = Tail(connStateChanged)
  /\ conn' = [conn EXCEPT ![g] = "connected"]
  /\ UNCHANGED <<handle, givenUp, java, binder, register, calls>>

\* Connect takes the first change of state; a failed Connect leaves per.rawGatt.
TakeConnState(g) ==
  /\ conn[g] = "waiting" /\ connStateChanged # <<>>
  /\ connStateChanged' = Tail(connStateChanged)
  /\ conn' = [conn EXCEPT ![g] = IF Head(connStateChanged).up THEN "connected" ELSE "over"]
  /\ UNCHANGED <<handle, givenUp, java, binder, register, calls>>

\* The monitor takes the next one for the end of the connection.
MonitorTakes(g) ==
  /\ conn[g] = "connected" /\ connStateChanged # <<>>
  /\ connStateChanged' = Tail(connStateChanged)
  /\ conn' = [conn EXCEPT ![g] = "dropping"]
  /\ UNCHANGED <<handle, givenUp, java, binder, register, calls>>

\* The context ends while Connect or the monitor waits.
ContextDone(g) ==
  /\ g \in CanCancel /\ conn[g] \in {"registering", "waiting", "connected"}
  /\ conn' = [conn EXCEPT ![g] = IF @ = "connected" THEN "dropping" ELSE "over"]
  /\ givenUp' = IF conn[g] = "connected" THEN givenUp \cup {g} ELSE givenUp
  /\ UNCHANGED <<handle, java, connStateChanged, binder, register, calls>>

\* The monitor forgets the handle, asks the service to drop what is left of the
\* link (which it may do, and say so, any time later) and reports.
DropLink(g) ==
  /\ conn[g] = "dropping"
  /\ handle' = 0
  /\ conn' = [conn EXCEPT ![g] = "over"]
  /\ UNCHANGED <<givenUp, java, connStateChanged, binder, register, calls>>

\* CancelConnection asks the service; the monitor hears of it like of any loss.
CancelConnection ==
  /\ handle # 0 /\ handle \notin givenUp
  /\ givenUp' = givenUp \cup {handle}
  /\ UNCHANGED <<handle, conn, java, connStateChanged, binder, register, calls>>

\* OnClientConnectionState.
OnConnected(g) ==
  /\ java[g] = "connecting"
  /\ java' = [java EXCEPT ![g] = "up"]
  /\ connStateChanged' = Offer(connStateChanged, [gen |-> g, up |-> TRUE])
  /\ UNCHANGED <<attempt, binder, register, calls>>

OnDisconnected_quiet(g) ==
  /\ java[g] \in {"connecting", "up"}
  /\ java[g] = "up" => conn[g] # "waiting"
  /\ java' = [java EXCEPT ![g] = Ended(@)]
  /\ connStateChanged' = IF g \in givenUp THEN connStateChanged
                          ELSE Offer(connStateChanged, [gen |-> g, up |-> FALSE])
  /\ outstanding' = {r \in outstanding : r.gen # g}
  /\ UNCHANGED <<attempt, binder, register, nreq, chan, call, mixed>>

\* A link is not lost before Connect has seen that it is up.
OnDisconnected(g) ==
  /\ java[g] \in {"connecting", "up"}
  /\ java[g] = "up" => conn[g] # "waiting"
  /\ java' = [java EXCEPT ![g] = Ended(@)]
  /\ connStateChanged' = Offer(connStateChanged, [gen |-> g, up |-> FALSE])
  /\ outstanding' = {r \in outstanding : r.gen # g}
  /\ UNCHANGED <<attempt, binder, register, nreq, chan, call, mixed>>

-------------------------------------------------------------------------------
(* Operations                                                              *)

\* The link a request reaches, 0 when there is none.
UpLink == IF \E g \in Gens : java[g] = "up" THEN CHOOSE g \in Gens : java[g] = "up" ELSE 0

\* An operation reads per.rawGatt under per.mu and makes its transaction: one
\* that is not connected or fails returns and leaves no trace.
Begin(p, k) ==
  /\ call[p].pc = "idle" /\ handle # 0 /\ nreq < MaxReq
  /\ Transacts(cachedGatt)
  /\ Send(p, k, UpLink, p)
  /\ UNCHANGED <<binderVars, chan>>

\* DiscoverServices (p.services is never filled: it only waits), ReadRSSI and SetMTU.
AskStack(p) == \E k \in Kinds \cap {"services", "rssi", "mtu"} : Begin(p, k)
\* A write waits for its callback, with response or without.
UseCharacteristic(p) == \E k \in Kinds \cap {"read", "write"} : Begin(p, k)
UseDescriptor(p) == \E k \in Kinds \cap {"descread", "descwrite"} : Begin(p, k)

\* The callbacks of the requests, one channel for each kind.
OnAnswer(r) ==
  /\ r \in outstanding
  /\ outstanding' = outstanding \ {r}
  /\ chan' = [chan EXCEPT ![r.kind] = Offer(@, Answered(r))]
  /\ UNCHANGED <<binderVars, nreq, call, mixed>>

EndOfCall(p) ==
  /\ TakeAnswer(p, "done") \/ CancelCall(p) \/ Return(p)
  /\ UNCHANGED binderVars

-------------------------------------------------------------------------------
Connection(g) ==
  \/ ConnectFails(g) \/ RegisterClient(g) \/ TakeRegistered(g)
  \/ \E ok \in BOOLEAN : OnClientRegistered(g, ok) \/ ClientConnect(g, ok)
  \/ TakeConnState(g) \/ MonitorTakes(g) \/ ContextDone(g) \/ DropLink(g)
  \/ OnConnected(g) \/ OnDisconnected(g)

Operation(p) ==
  AskStack(p) \/ UseCharacteristic(p) \/ UseDescriptor(p) \/ EndOfCall(p)

Next ==
  \/ OnBluetoothServiceDown \/ OnBluetoothServiceUp
  \/ \E g \in Gens : Connection(g)
  \/ CancelConnection
  \/ \E p \in Callers : Operation(p)
  \/ \E r \in outstanding : OnAnswer(r)

-------------------------------------------------------------------------------
\* The loss of a connected link is in the channel for the monitor to find, as
\* long as the service did not go down.
LossSeen ==
  \A g \in Gens :
    conn[g] = "connected" /\ java[g] # "up" /\ service = 1
      => connStateChanged = <<[gen |-> g, up |-> FALSE]>>

Told == [idle |-> "idle", registering |-> "asked", stored |-> "asked", waiting |-> "asked",
         connected |-> "connected", dropping |-> "connected", over |-> "over"]
===============================================================================
