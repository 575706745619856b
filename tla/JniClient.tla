------------------------------ MODULE JniClient ------------------------------
(***************************************************************************)
(* The client side of the Android backend over JNI: Connect, the monitor   *)
(* of a connection and CancelConnection (android/jni/device.go), and the   *)
(* GATT operations of a connected peripheral (android/jni/peripheral.go).  *)
(*                                                                         *)
(* Every operation asks the Java object BluetoothGatt to do something and  *)
(* waits for a callback, which a thread of the Java side delivers into a   *)
(* channel of capacity one: a callback that finds the channel full is      *)
(* dropped.  The channels belong to the peripheral, so they outlive an     *)
(* operation and a connection.  Only characteristic writes have a channel  *)
(* of their own, made anew for each write under writeMu.                   *)
(*                                                                         *)
(* External: BluetoothGatt.  It answers a request at most once and while   *)
(* the link is up, refuses a second read or write while one is pending,    *)
(* and calls nothing back once it is closed.                               *)
(***************************************************************************)
EXTENDS Naturals, Sequences, FiniteSets, SequencesExt

CONSTANTS
  Callers,    \* goroutines that use the peripheral
  CharOrder,  \* the characteristics of the remote device, in Android's order
  Filters,    \* the filters given to DiscoverServices, sets of characteristics
  Kinds,      \* the operations that answer through a channel of the peripheral
  MaxGen,     \* bound: connection attempts
  MaxReq,     \* bound: requests to the BluetoothGatt
  CtxCancel,  \* the attempts whose context may be cancelled
  EarlyDrop   \* whether a link may go before Connect has seen that it is up

Gens == 1 .. MaxGen
Chars == Range(CharOrder)
Handles == 1 .. Len(CharOrder)
AllKinds == {"services", "read", "descread", "descwrite", "rssi", "mtu"}
\* The requests of which BluetoothGatt takes one at a time (external).
Exclusive == {"read", "descread", "descwrite", "write"}
NoChar == "none"
NoCaller == "nobody"

ASSUME JniClientAssumption ==
  /\ IsFiniteSet(Callers) /\ NoCaller \notin Callers
  /\ CharOrder \in Seq(Chars) /\ NoChar \notin Chars /\ IsInjective(CharOrder)
  /\ Filters \subseteq SUBSET Chars
  /\ Kinds \subseteq AllKinds
  /\ MaxGen \in Nat \ {0} /\ MaxReq \in Nat
  /\ CtxCancel \subseteq Gens /\ EarlyDrop \in BOOLEAN

VARIABLES
  gattObj,           \* p.gattObj: 0, or the attempt whose BluetoothGatt it is
  conn,              \* conn[g]: where Connect and the monitor of attempt g are
  java,              \* java[g]: the link as BluetoothGatt g knows it
  closed,            \* the BluetoothGatts that were closed
  connStateChanged,  \* the channel p.connStateChanged
  givenUp,           \* attempts the application cancelled
  misread,           \* auxiliary: a monitor took a report of a link coming up
  outstanding,       \* requests BluetoothGatt has accepted and not answered
  nreq,              \* number of requests accepted so far
  chan,              \* chan[k]: the channel of operation k
  call,              \* call[p]: the operation of caller p
  writeMu,           \* who holds p.writeMu
  writeDone,         \* whose channel p.writeDone is
  writeSig,          \* what that channel holds
  writeErr,          \* p.writeErr is set
  charObjs,          \* p.charObjs: the characteristic under each value handle
  subscribers,       \* p.subscribers: whose function is under each value handle
  mixed,             \* auxiliary: operations that were cancelled or overlapped
  renumbered,        \* auxiliary: a discovery changed what a handle means
  heard              \* auxiliary: how the last notification was dispatched

link == <<java, closed, connStateChanged>>
attempt == <<gattObj, conn, givenUp, misread>>
write == <<writeMu, writeDone, writeSig, writeErr>>
table == <<charObjs, subscribers, renumbered, heard>>
requests == <<outstanding, nreq, chan>>
vars == <<attempt, link, requests, call, write, table, mixed>>

Idle == [pc |-> "idle", kind |-> "none", gen |-> 0, vh |-> 0, arg |-> {}, id |-> 0, res |-> 0]

TypeOK ==
  /\ gattObj \in {0} \cup Gens
  /\ conn \in [Gens -> {"idle", "called", "waiting", "connected", "failing", "dropping",
                        "closeFailed", "closeDropped", "over"}]
  /\ java \in [Gens -> {"none", "connecting", "up", "gone", "refused"}]
  /\ closed \in SUBSET Gens /\ givenUp \in SUBSET Gens
  /\ connStateChanged \in Seq([gen : Gens, up : BOOLEAN]) /\ Len(connStateChanged) <= 1
  /\ \A r \in outstanding : r.id \in 1 .. nreq /\ r.gen \in Gens
  /\ \A k \in Kinds : Len(chan[k]) <= 1
  /\ writeMu \in Callers \cup {NoCaller} /\ writeDone \in {writeMu, NoCaller}
  /\ subscribers \in [Handles -> Chars \cup {NoChar}]

\* populateServices: the handles are counted from 1 over what the filter lets
\* through (a service stands for its one characteristic here; what Java gives
\* no UUID for is skipped, which is one more filter).
PopulateServices(f) == SelectSeq(CharOrder, LAMBDA c : c \in f)

\* The device was just found, or its services are known from an earlier connection.
Init ==
  /\ gattObj = 0 /\ conn = [g \in Gens |-> "idle"] /\ givenUp = {} /\ misread = FALSE
  /\ java = [g \in Gens |-> "none"] /\ closed = {} /\ connStateChanged = <<>>
  /\ outstanding = {} /\ nreq = 0 /\ chan = [k \in Kinds |-> <<>>]
  /\ call = [p \in Callers |-> Idle]
  /\ writeMu = NoCaller /\ writeDone = NoCaller /\ writeSig = <<>> /\ writeErr = FALSE
  /\ charObjs \in {<<>>} \cup {PopulateServices(f) : f \in Filters} /\ subscribers = [h \in Handles |-> NoChar]
  /\ mixed = {} /\ renumbered = FALSE /\ heard = "none"

\* How a link ends (external).
Ended(state) ==
  CASE state = "connecting" -> "refused" [] state = "up" -> "gone" [] OTHER -> state

\* A send with a default branch into a channel of capacity one.
Offer(c, v) == IF c = <<>> THEN <<v>> ELSE c

-------------------------------------------------------------------------------
(* Connections: device.Connect, monitorDisconnection, CancelConnection.    *)

\* The application calls Connect again only when the last attempt is over.
MayConnect(g) == conn[g] = "idle" /\ \A h \in Gens : h < g => conn[h] = "over"

\* Connect cannot make the callback proxy, or connectGatt fails.
ConnectFails(g) ==
  /\ MayConnect(g)
  /\ conn' = [conn EXCEPT ![g] = "over"]
  /\ UNCHANGED <<gattObj, givenUp, misread, link, requests, call, write, table, mixed>>

\* The proxy is registered and connectGatt called; from here callbacks come.
Connect(g) ==
  /\ MayConnect(g)
  /\ conn' = [conn EXCEPT ![g] = "called"]
  /\ java' = [java EXCEPT ![g] = "connecting"]
  /\ UNCHANGED <<gattObj, givenUp, misread, closed, connStateChanged, requests, call, write, table, mixed>>

\* per.gattObj is set, under per.mu, after connectGatt has returned.
StoreGatt(g) ==
  /\ conn[g] = "called"
  /\ conn' = [conn EXCEPT ![g] = "waiting"]
  /\ gattObj' = g
  /\ UNCHANGED <<givenUp, misread, link, requests, call, write, table, mixed>>

TakeConnState_any(g) ==
  /\ conn[g] = "waiting" /\ connStateChanged # <<>>
  /\ connStateChanged' = Tail(connStateChanged)
  /\ conn' = [conn EXCEPT ![g] = "connected"]
  /\ UNCHANGED <<gattObj, givenUp, misread, java, closed, requests, call, write, table, mixed>>

\* Connect takes the first change of state: success, or anything else.
TakeConnState(g) ==
  /\ conn[g] = "waiting" /\ connStateChanged # <<>>
  /\ connStateChanged' = Tail(connStateChanged)
  /\ conn' = [conn EXCEPT ![g] = IF Head(connStateChanged).up THEN "connected" ELSE "failing"]
  /\ UNCHANGED <<gattObj, givenUp, misread, java, closed, requests, call, write, table, mixed>>

\* The monitor takes the next one for the end of the connection.
MonitorTakes(g) ==
  /\ conn[g] = "connected" /\ connStateChanged # <<>>
  /\ connStateChanged' = Tail(connStateChanged)
  /\ misread' = (misread \/ Head(connStateChanged).up)
  /\ conn' = [conn EXCEPT ![g] = "dropping"]
  /\ UNCHANGED <<gattObj, givenUp, java, closed, requests, call, write, table, mixed>>

\* The context ends while Connect or the monitor waits.
ContextDone(g) ==
  /\ g \in CtxCancel /\ conn[g] \in {"waiting", "connected"}
  /\ conn' = [conn EXCEPT ![g] = IF @ = "waiting" THEN "failing" ELSE "dropping"]
  /\ givenUp' = givenUp \cup {g}
  /\ UNCHANGED <<gattObj, misread, link, requests, call, write, table, mixed>>

ForgetGatt_kept(g) ==
  /\ conn[g] \in {"failing", "dropping"}
  /\ conn' = [conn EXCEPT ![g] = IF @ = "failing" THEN "closeFailed" ELSE "closeDropped"]
  /\ UNCHANGED <<gattObj, givenUp, misread, link, requests, call, write, table, mixed>>

\* releaseConnectedPeripheral, first under per.mu: forget the BluetoothGatt if it is still ours...
ForgetGatt(g) ==
  /\ conn[g] \in {"failing", "dropping"}
  /\ gattObj' = IF gattObj = g THEN 0 ELSE gattObj
  /\ conn' = [conn EXCEPT ![g] = IF @ = "failing" THEN "closeFailed" ELSE "closeDropped"]
  /\ UNCHANGED <<givenUp, misread, link, requests, call, write, table, mixed>>

\* ... then close it, delete the references and the proxy; the handler reports.
CloseGatt(g) ==
  /\ conn[g] \in {"closeFailed", "closeDropped"}
  /\ conn' = [conn EXCEPT ![g] = "over"]
  /\ closed' = closed \cup {g}
  /\ java' = [java EXCEPT ![g] = Ended(@)]
  /\ outstanding' = {r \in outstanding : r.gen # g}
  /\ UNCHANGED <<gattObj, givenUp, misread, connStateChanged, nreq, chan, call, write, table, mixed>>

\* CancelConnection only asks: the report comes with the change of state.
CancelConnection ==
  /\ gattObj # 0 /\ gattObj \notin givenUp
  /\ givenUp' = givenUp \cup {gattObj}
  /\ UNCHANGED <<gattObj, conn, misread, link, requests, call, write, table, mixed>>

\* onConnectionStateChange: the link comes up; it is lost, or was never had.
OnConnected(g) ==
  /\ java[g] = "connecting" /\ g \notin closed
  /\ java' = [java EXCEPT ![g] = "up"]
  /\ connStateChanged' = Offer(connStateChanged, [gen |-> g, up |-> TRUE])
  /\ UNCHANGED <<attempt, closed, requests, call, write, table, mixed>>

OnDisconnected_quiet(g) ==
  /\ java[g] \in {"connecting", "up"} /\ g \notin closed
  /\ java[g] = "up" /\ ~EarlyDrop => conn[g] \notin {"called", "waiting"}
  /\ java' = [java EXCEPT ![g] = Ended(@)]
  /\ connStateChanged' = IF g \in givenUp THEN connStateChanged
                          ELSE Offer(connStateChanged, [gen |-> g, up |-> FALSE])
  /\ outstanding' = {r \in outstanding : r.gen # g}
  /\ UNCHANGED <<attempt, closed, nreq, chan, call, write, table, mixed>>

OnDisconnected(g) ==
  /\ java[g] \in {"connecting", "up"} /\ g \notin closed
  /\ java[g] = "up" /\ ~EarlyDrop => conn[g] \notin {"called", "waiting"}
  /\ java' = [java EXCEPT ![g] = Ended(@)]
  /\ connStateChanged' = Offer(connStateChanged, [gen |-> g, up |-> FALSE])
  /\ outstanding' = {r \in outstanding : r.gen # g}
  /\ UNCHANGED <<attempt, closed, nreq, chan, call, write, table, mixed>>

-------------------------------------------------------------------------------
(* Operations that answer through a channel of the peripheral.             *)

\* BluetoothGatt takes a request (external).
Busy(g, kind) == kind \in Exclusive /\ \E r \in outstanding : r.gen = g /\ r.kind \in Exclusive
Accepts(g, kind) == g \notin closed /\ java[g] = "up" /\ ~Busy(g, kind)
Submit(kind, g) ==
  /\ nreq' = nreq + 1
  /\ outstanding' = outstanding \cup {[id |-> nreq', kind |-> kind, gen |-> g]}

\* An operation reads p.gattObj and the object of its target under p.mu and makes the
\* JNI call; one that is not connected, fails or is refused returns and leaves no trace.
Begin(p, kind, vh, arg) ==
  /\ call[p].pc = "idle" /\ gattObj # 0 /\ nreq < MaxReq
  /\ Accepts(gattObj, kind)
  /\ Submit(kind, gattObj)
  /\ call' = [call EXCEPT ![p] = [Idle EXCEPT !.pc = "wait", !.kind = kind, !.vh = vh,
                                              !.arg = arg, !.id = nreq']]
  /\ mixed' = IF \E q \in Callers : call[q].pc = "wait" /\ call[q].kind = kind
                THEN mixed \cup {kind} ELSE mixed
  /\ UNCHANGED <<attempt, link, chan, write, table>>

DiscoverServices(p) == \E f \in Filters : Begin(p, "services", 0, f)
\* These need an object that a discovery left ...
ReadCharacteristic(p) == charObjs # <<>> /\ Begin(p, "read", 0, {})
UseDescriptor(p) == charObjs # <<>> /\ \E k \in {"descread", "descwrite"} : Begin(p, k, 0, {})
\* ... and ReadRSSI and SetMTU only the connection (the size that SetMTU gets is
\* kept in p.mtu and read by nobody).
ReadRSSIOrSetMTU(p) == \E k \in Kinds \cap {"rssi", "mtu"} : Begin(p, k, 0, {})

SetNotifyValue_handle(p) ==
  \E h \in DOMAIN charObjs : \E f \in {charObjs[h], NoChar} :
    Begin(p, "descwrite", (h % Len(charObjs)) + 1, {f})

\* setNotifyValue ends in a WriteDescriptor of the CCCD, after whose success it
\* sets or deletes the subscriber (arg).
SetNotifyValue(p) ==
  \E h \in DOMAIN charObjs : \E f \in {charObjs[h], NoChar} : Begin(p, "descwrite", h, {f})

\* Subscribe, called directly or by a setNotifyValue that finds no CCCD
\* (bounded together with the requests).
Subscribe(p) ==
  /\ call[p].pc = "idle" /\ gattObj # 0 /\ nreq < MaxReq
  /\ nreq' = nreq + 1
  /\ \E h \in DOMAIN charObjs : \E f \in {charObjs[h], NoChar} :
       subscribers' = [subscribers EXCEPT ![h] = f]
  /\ UNCHANGED <<attempt, link, outstanding, chan, call, write, charObjs, renumbered, heard, mixed>>

\* The status of an answer decides what is done next only for these.
Statuses(kind) == IF kind \in {"services", "descwrite"} THEN BOOLEAN ELSE {TRUE}

OnAnswer_swapped(r, ok) ==
  /\ r \in outstanding /\ ok \in Statuses(r.kind) /\ r.kind # "write"
  /\ outstanding' = outstanding \ {r}
  /\ chan' = [chan EXCEPT ![IF r.kind = "descread" THEN "read" ELSE r.kind] = Offer(@, [id |-> r.id, ok |-> ok])]
  /\ UNCHANGED <<attempt, link, nreq, call, write, table, mixed>>

\* The callback of a request: handleGattCallback offers the answer to the
\* channel of its kind, or, for a write, to the channel writeDone, if there is one.
OnAnswer(r, ok) ==
  /\ r \in outstanding /\ ok \in Statuses(r.kind)
  /\ outstanding' = outstanding \ {r}
  /\ IF r.kind = "write"
       THEN /\ writeSig' = IF writeDone = NoCaller THEN writeSig ELSE Offer(writeSig, [id |-> r.id, ok |-> ok])
            /\ UNCHANGED chan
       ELSE /\ chan' = [chan EXCEPT ![r.kind] = Offer(@, [id |-> r.id, ok |-> ok])]
            /\ UNCHANGED writeSig
  /\ UNCHANGED <<attempt, link, nreq, call, writeMu, writeDone, writeErr, table, mixed>>

\* The operation takes an answer from its channel and finishes.
TakeAnswer(p) ==
  LET c == call[p]
      a == Head(chan[c.kind])
  IN /\ c.pc = "wait" /\ c.kind \in Kinds /\ chan[c.kind] # <<>>
     /\ chan' = [chan EXCEPT ![c.kind] = <<>>]
     /\ call' = [call EXCEPT ![p].pc = "done", ![p].res = a.id]
     /\ IF a.ok /\ c.kind = "services"
          THEN /\ charObjs' = PopulateServices(c.arg)
               /\ renumbered' = (renumbered \/ (charObjs # <<>> /\ charObjs' # charObjs))
          ELSE UNCHANGED <<charObjs, renumbered>>
     /\ subscribers' = IF a.ok /\ c.kind = "descwrite" /\ c.arg # {}
                         THEN [subscribers EXCEPT ![c.vh] = CHOOSE f \in c.arg : TRUE] ELSE subscribers
     /\ UNCHANGED <<attempt, link, outstanding, nreq, write, heard, mixed>>

\* The context of the caller ends first: the channel and the request stay behind.
CancelCall(p) ==
  /\ call[p].pc = "wait" /\ call[p].kind \in Kinds
  /\ call' = [call EXCEPT ![p] = Idle]
  /\ mixed' = mixed \cup {call[p].kind}
  /\ UNCHANGED <<attempt, link, requests, write, table>>

Return(p) ==
  /\ call[p].pc = "done"
  /\ call' = [call EXCEPT ![p] = Idle]
  /\ UNCHANGED <<attempt, link, requests, write, table, mixed>>

-------------------------------------------------------------------------------
(* WriteCharacteristic.                                                    *)

\* The object is read under p.mu, before writeMu is taken.
WriteCharacteristic(p) ==
  /\ call[p].pc = "idle" /\ gattObj # 0 /\ charObjs # <<>> /\ nreq < MaxReq
  /\ call' = [call EXCEPT ![p] = [Idle EXCEPT !.pc = "go", !.kind = "write", !.gen = gattObj]]
  /\ UNCHANGED <<attempt, link, requests, write, table, mixed>>

LockWrite(p) ==
  /\ call[p].pc = "go" /\ writeMu = NoCaller
  /\ writeMu' = p
  /\ call' = [call EXCEPT ![p].pc = "locked"]
  /\ UNCHANGED <<attempt, link, requests, writeDone, writeSig, writeErr, table, mixed>>

BeginCharacteristicWrite_forgiving(p) ==
  /\ call[p].pc = "locked"
  /\ call' = [call EXCEPT ![p].pc = "begun"]
  /\ writeDone' = p /\ writeSig' = <<>>
  /\ UNCHANGED <<attempt, link, requests, writeMu, writeErr, table, mixed>>

\* beginCharacteristicWrite: refused after a write that did not complete.
BeginCharacteristicWrite(p) ==
  /\ call[p].pc = "locked"
  /\ IF writeErr \/ writeDone # NoCaller
       THEN /\ call' = [call EXCEPT ![p] = Idle]
            /\ writeMu' = NoCaller
            /\ UNCHANGED <<writeDone, writeSig>>
       ELSE /\ call' = [call EXCEPT ![p].pc = "begun"]
            /\ writeDone' = p /\ writeSig' = <<>>
            /\ UNCHANGED writeMu
  /\ UNCHANGED <<attempt, link, requests, writeErr, table, mixed>>

\* finishCharacteristicWrite and failCharacteristicWrite, then the deferred unlock.
EndWrite(p, failed) ==
  /\ writeDone' = IF writeDone = p THEN NoCaller ELSE writeDone
  /\ writeErr' = (writeErr \/ (failed /\ writeDone = p))
  /\ writeSig' = <<>>
  /\ writeMu' = NoCaller

\* The JNI call of the write.
CallWrite(p) ==
  LET c == call[p]
  IN /\ c.pc = "begun" /\ nreq < MaxReq
     /\ IF Accepts(c.gen, "write")
          THEN /\ Submit("write", c.gen)
               /\ call' = [call EXCEPT ![p].pc = "wait", ![p].id = nreq']
               /\ UNCHANGED write
          ELSE /\ call' = [call EXCEPT ![p] = Idle]
               /\ EndWrite(p, FALSE)
               /\ UNCHANGED <<nreq, outstanding>>
     /\ UNCHANGED <<attempt, link, chan, table, mixed>>

\* waitForCharacteristicWrite: the answer, or the end of the context.
TakeWriteDone(p) ==
  /\ call[p].pc = "wait" /\ call[p].kind = "write" /\ writeSig # <<>>
  /\ call' = [call EXCEPT ![p].pc = "done", ![p].res = Head(writeSig).id]
  /\ EndWrite(p, FALSE)
  /\ UNCHANGED <<attempt, link, requests, table, mixed>>

CancelWrite(p) ==
  /\ call[p].pc = "wait" /\ call[p].kind = "write"
  /\ call' = [call EXCEPT ![p] = Idle]
  /\ EndWrite(p, TRUE)
  /\ UNCHANGED <<attempt, link, requests, table, mixed>>

-------------------------------------------------------------------------------
(* dispatchNotification: the handle is looked up by the Java object, the   *)
(* subscriber by the handle.                                               *)

OnCharacteristicChanged(c) ==
  /\ \E g \in Gens \ closed : java[g] = "up"
  /\ \E h \in Handles \cap DOMAIN charObjs :
       /\ charObjs[h] = c /\ subscribers[h] # NoChar
       /\ heard' = IF subscribers[h] = c THEN "own" ELSE "other"
  /\ UNCHANGED <<attempt, link, requests, call, write, charObjs, subscribers, renumbered, mixed>>

-------------------------------------------------------------------------------
Connection(g) ==
  \/ ConnectFails(g) \/ Connect(g) \/ StoreGatt(g) \/ TakeConnState(g) \/ MonitorTakes(g)
  \/ ContextDone(g) \/ ForgetGatt(g) \/ CloseGatt(g) \/ OnConnected(g) \/ OnDisconnected(g)

Operation(p) ==
  \/ DiscoverServices(p) \/ ReadCharacteristic(p) \/ UseDescriptor(p) \/ ReadRSSIOrSetMTU(p)
  \/ SetNotifyValue(p) \/ Subscribe(p) \/ TakeAnswer(p) \/ CancelCall(p) \/ Return(p)
  \/ WriteCharacteristic(p) \/ LockWrite(p) \/ BeginCharacteristicWrite(p) \/ CallWrite(p)
  \/ TakeWriteDone(p) \/ CancelWrite(p)

Next ==
  \/ \E g \in Gens : Connection(g)
  \/ CancelConnection
  \/ \E p \in Callers : Operation(p)
  \/ \E r \in outstanding, ok \in BOOLEAN : OnAnswer(r, ok)
  \/ \E c \in Chars : OnCharacteristicChanged(c)

Spec == Init /\ [][Next]_vars

-------------------------------------------------------------------------------
(* Properties                                                              *)

\* A write that was answered was answered for itself, even when earlier
\* writes timed out and their callbacks come late (writeDone, writeErr).
OwnWrite ==
  \A p \in Callers : call[p].pc = "done" /\ call[p].kind = "write" => call[p].res = call[p].id

\* Any other operation returns the answer to its own request, unless one of
\* its kind was cancelled or overlapped another: the channel is shared, and
\* nothing but these two leaves a foreign answer in it, not a lost link, a new
\* connection or an operation of another kind.
OwnResult ==
  \A p \in Callers :
    call[p].pc = "done" /\ call[p].kind \notin mixed => call[p].res = call[p].id

\* p.gattObj is a BluetoothGatt that was not closed, and belongs to an
\* attempt that is under way: no operation is begun on a dead connection.
GattObjUsable ==
  gattObj # 0 => gattObj \notin closed /\ conn[gattObj] \notin {"idle", "called", "over"}

\* The loss of a connected link is in the channel for the monitor to find:
\* the callback that reports it is not the one that is dropped.
DisconnectSeen ==
  \A g \in Gens :
    conn[g] = "connected" /\ java[g] # "up" => connStateChanged = <<[gen |-> g, up |-> FALSE]>>

\* A notification goes to the function that was subscribed to its own
\* characteristic, as long as every discovery used the same filter: a
\* discovery numbers the handles afresh and leaves the subscribers alone.
RightSubscriber == ~renumbered => heard # "other"

\* What monitorDisconnection takes from the channel always means
\* disconnected (the comment at its receive).
AlwaysDisconnected == ~misread

\* The reports of this backend are the ones gatt.Device promises.
Told == [idle |-> "idle", called |-> "asked", waiting |-> "asked", failing |-> "asked", closeFailed |-> "asked",
         connected |-> "connected", dropping |-> "connected", closeDropped |-> "connected", over |-> "over"]
Linked == [none |-> "never", connecting |-> "never", up |-> "up", gone |-> "gone", refused |-> "refused"]
Life == INSTANCE PeripheralLife WITH
  Attempts <- Gens,
  link <- [g \in Gens |-> Linked[java[g]]],
  view <- [g \in Gens |-> Told[conn[g]]],
  givenUp <- givenUp

\* Connect and the monitor refine the life of a connection attempt: a success
\* is reported only of a link that came up, a disconnection only of one that
\* is gone or was given up, and each exactly once.
KeepsPromise == Life!LifeSpec
===============================================================================
