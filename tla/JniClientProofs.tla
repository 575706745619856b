--------------------------- MODULE JniClientProofs ---------------------------
(***************************************************************************)
(* Proofs about JniClient, for any callers, characteristics and filters    *)
(* and any number of attempts and requests.                                *)
(***************************************************************************)
EXTENDS JniClient, TLAPS

Places == {"idle", "called", "waiting", "connected", "failing", "dropping",
           "closeFailed", "closeDropped", "over"}
Report == [gen : Gens, up : BOOLEAN]
Request == [id : Nat, kind : AllKinds \cup {"write"}, gen : Gens]
Answer == [id : Nat, ok : BOOLEAN]
Waits(p, kind) == call[p].pc = "wait" /\ call[p].kind = kind

\* A channel of capacity one.
Channel(c, Values) == c = <<>> \/ (c = <<Head(c)>> /\ Head(c) \in Values)

LinkTypes ==
  /\ gattObj \in {0} \cup Gens
  /\ conn \in [Gens -> Places]
  /\ java \in [Gens -> {"none", "connecting", "up", "gone", "refused"}]
  /\ closed \in SUBSET Gens /\ givenUp \in SUBSET Gens
  /\ Channel(connStateChanged, Report)

\* One attempt at a time, and each BluetoothGatt lives as long as its attempt.
LinkOrder ==
  /\ \A g, h \in Gens : h < g /\ conn[g] # "idle" => conn[h] = "over"
  /\ \A g \in Gens : conn[g] = "idle" => java[g] = "none" /\ g \notin givenUp
  /\ \A g \in Gens : conn[g] \notin {"idle", "over"} => java[g] # "none"
  /\ \A g \in Gens : conn[g] = "over" /\ java[g] # "none" => g \in closed
  /\ \A g \in closed : conn[g] = "over" /\ java[g] \in {"gone", "refused"}
  /\ gattObj # 0 => conn[gattObj] \in {"waiting", "connected", "failing", "dropping"}

\* What the channel of an attempt holds, when only the last one may be given up.
Came(g) == connStateChanged = <<[gen |-> g, up |-> TRUE]>>
Went(g) == connStateChanged = <<[gen |-> g, up |-> FALSE]>>
Reports ==
  /\ \A g \in Gens : conn[g] \in {"called", "waiting"} =>
       \/ java[g] = "connecting" /\ connStateChanged = <<>>
       \/ java[g] = "up" /\ Came(g)
       \/ java[g] = "gone" /\ Came(g) /\ EarlyDrop
       \/ java[g] = "refused" /\ Went(g)
  /\ \A g \in Gens : conn[g] = "connected" =>
       \/ java[g] = "up" /\ connStateChanged = <<>>
       \/ java[g] = "gone" /\ Went(g)
       \/ java[g] = "gone" /\ connStateChanged = <<>> /\ EarlyDrop
  /\ \A g \in Gens : conn[g] \in {"dropping", "closeDropped"} => java[g] = "gone" \/ g \in givenUp
  /\ \A g \in Gens \ CtxCancel : conn[g] \in {"failing", "closeFailed", "dropping", "closeDropped"} =>
       java[g] \in {"gone", "refused"} /\ connStateChanged = <<>>
  /\ (\A g \in Gens : conn[g] \in {"idle", "over"} /\ (g \in CtxCancel => conn[g] = "idle"))
       => connStateChanged = <<>>

IsCall(c) ==
  /\ c = [pc |-> c.pc, kind |-> c.kind, gen |-> c.gen, vh |-> c.vh, arg |-> c.arg, id |-> c.id, res |-> c.res]
  /\ c.pc \in {"idle", "wait", "done", "go", "locked", "begun"}
  /\ c.kind \in AllKinds \cup {"write", "none"}
  /\ c.pc = "idle" <=> c.kind = "none"
  /\ c.pc \in {"go", "locked", "begun"} => c.kind = "write" /\ c.gen \in Gens
  /\ c.pc = "done" => c.kind \in Kinds \cup {"write"}
  /\ c.gen \in Gens \cup {0}

CallTypes ==
  /\ call = [p \in Callers |-> call[p]] /\ \A p \in Callers : IsCall(call[p])
  /\ nreq \in Nat
  /\ outstanding \in SUBSET Request
  /\ \A r \in outstanding : r.id <= nreq
  /\ \A r, s \in outstanding : r.id = s.id => r = s
  /\ chan = [k \in Kinds |-> chan[k]] /\ \A k \in Kinds : Channel(chan[k], Answer)
  /\ mixed \in SUBSET AllKinds

WriteInv ==
  /\ writeMu \in Callers \cup {NoCaller} /\ writeDone \in {writeMu, NoCaller} /\ writeErr \in BOOLEAN
  /\ Channel(writeSig, Answer)
  /\ \A p \in Callers : writeMu = p <=> call[p].kind = "write" /\ call[p].pc \in {"locked", "begun", "wait"}
  /\ \A p \in Callers : call[p].pc = "locked" => writeDone = NoCaller
  /\ \A p \in Callers : call[p].pc = "begun" \/ Waits(p, "write") => writeDone = p /\ ~ writeErr
  /\ \A r \in outstanding : r.kind = "write" =>
       writeErr \/ \E p \in Callers : Waits(p, "write") /\ call[p].id = r.id
  /\ writeSig # <<>> =>
       /\ \A r \in outstanding : r.kind # "write"
       /\ \E p \in Callers : Waits(p, "write") /\ call[p].id = Head(writeSig).id
  /\ OwnWrite

AnswerInv ==
  /\ \A k \in Kinds \ mixed :
       /\ \A p, q \in Callers : Waits(p, k) /\ Waits(q, k) => p = q
       /\ \A r \in outstanding : r.kind = k =>
            chan[k] = <<>> /\ \E p \in Callers : Waits(p, k) /\ call[p].id = r.id
       /\ chan[k] # <<>> => \E p \in Callers : Waits(p, k) /\ call[p].id = Head(chan[k]).id
  /\ OwnResult

SubscriberInv ==
  /\ subscribers = [h \in Handles |-> subscribers[h]] /\ renumbered \in BOOLEAN
  /\ ~ renumbered =>
       /\ \A h \in Handles : subscribers[h] # NoChar => h \in DOMAIN charObjs /\ subscribers[h] = charObjs[h]
       /\ \A p \in Callers : Waits(p, "descwrite") /\ call[p].arg # {} =>
            call[p].vh \in DOMAIN charObjs /\ call[p].arg \subseteq {charObjs[call[p].vh], NoChar}
       /\ heard # "other"

\* The steps of a connection leave the calls alone, and may drop their requests.
LinkOnly ==
  /\ UNCHANGED <<nreq, chan, call, write, table, mixed>>
  /\ outstanding' \subseteq outstanding

\* The operations that begin with a request to the BluetoothGatt, as one.
Starts(p, kind, vh, arg) ==
  /\ Begin(p, kind, vh, arg)
  /\ kind = "descwrite" /\ arg # {} => vh \in DOMAIN charObjs /\ arg \subseteq {charObjs[vh], NoChar}

CallStep(p) ==
  \/ \E kind \in AllKinds : \E vh, arg : Starts(p, kind, vh, arg)
  \/ Subscribe(p) \/ TakeAnswer(p) \/ CancelCall(p) \/ Return(p)
  \/ WriteCharacteristic(p) \/ LockWrite(p) \/ BeginCharacteristicWrite(p) \/ CallWrite(p)
  \/ TakeWriteDone(p) \/ CancelWrite(p)

\* Caller p moves on in the same operation; the other callers stay where they are.
Others(p) == call' = [q \in Callers |-> call'[q]] /\ \A q \in Callers : q # p => call'[q] = call[q]
Moved(p, pc, id, res) ==
  /\ Others(p)
  /\ call'[p] = [pc |-> pc, kind |-> call[p].kind, gen |-> call[p].gen, vh |-> call[p].vh, arg |-> call[p].arg,
                 id |-> id, res |-> res]

(* The numbers of the attempts. *)
LEMMA GenFacts == Gens \subseteq Nat \ {0} /\ MaxGen \in Gens /\ \A g \in Gens : g <= MaxGen
BY JniClientAssumption DEF Gens

(* Reports differ in what they tell and in whom they come from. *)
LEMMA ReportFacts ==
  /\ \A g, h \in Gens : \A u, v \in BOOLEAN :
       /\ <<[gen |-> g, up |-> u]>> # <<>>
       /\ Head(<<[gen |-> g, up |-> u]>>).up = u
       /\ Tail(<<[gen |-> g, up |-> u]>>) = <<>>
       /\ <<[gen |-> g, up |-> u]>> = <<[gen |-> h, up |-> v]>> => g = h /\ u = v
OBVIOUS

(* Only the steps of a connection touch it. *)
LEMMA ConnectionFrame ==
  ASSUME [Next]_vars
  PROVE  (\E g \in Gens : Connection(g)) \/ CancelConnection \/ UNCHANGED <<attempt, link>>
<1>1. CASE UNCHANGED vars
  BY <1>1 DEF vars, attempt, link
<1>2. ASSUME NEW p \in Callers, Operation(p) PROVE UNCHANGED <<attempt, link>>
  BY <1>2 DEF Operation, DiscoverServices, ReadCharacteristic, UseDescriptor, ReadRSSIOrSetMTU, SetNotifyValue,
     Begin, Subscribe, TakeAnswer, CancelCall, Return, WriteCharacteristic, LockWrite, BeginCharacteristicWrite,
     CallWrite, TakeWriteDone, CancelWrite
<1>3. ASSUME NEW r \in outstanding, NEW ok \in BOOLEAN, OnAnswer(r, ok) PROVE UNCHANGED <<attempt, link>>
  BY <1>3 DEF OnAnswer
<1>4. ASSUME NEW c \in Chars, OnCharacteristicChanged(c) PROVE UNCHANGED <<attempt, link>>
  BY <1>4 DEF OnCharacteristicChanged
<1> QED
  BY <1>1, <1>2, <1>3, <1>4 DEF Next

(* The variables of the connections keep their types. *)
LEMMA LinkTypesStep ==
  ASSUME LinkTypes, [Next]_vars
  PROVE  LinkTypes'
<1> USE DEF LinkTypes, Channel, attempt, link
<1>1. ASSUME NEW g \in Gens, ConnectFails(g) PROVE LinkTypes'
  BY ConnectionFrame, <1>1, GenFacts DEF Report, Places, ConnectFails, MayConnect
<1>2. ASSUME NEW g \in Gens, Connect(g) PROVE LinkTypes'
  BY <1>2, GenFacts DEF Report, Places, Connect, MayConnect
<1>3. ASSUME NEW g \in Gens, StoreGatt(g) PROVE LinkTypes'
  BY <1>3, GenFacts DEF Report, Places, StoreGatt
<1>4. ASSUME NEW g \in Gens, TakeConnState(g) PROVE LinkTypes'
  BY <1>4, GenFacts DEF Report, Places, TakeConnState
<1>5. ASSUME NEW g \in Gens, MonitorTakes(g) PROVE LinkTypes'
  BY <1>5, GenFacts DEF Report, Places, MonitorTakes
<1>6. ASSUME NEW g \in Gens, ContextDone(g) PROVE LinkTypes'
  BY <1>6, GenFacts DEF Report, Places, ContextDone
<1>7. ASSUME NEW g \in Gens, ForgetGatt(g) PROVE LinkTypes'
  BY <1>7, GenFacts DEF Report, Places, ForgetGatt
<1>8. ASSUME NEW g \in Gens, CloseGatt(g) PROVE LinkTypes'
  BY <1>8, GenFacts DEF Report, Places, CloseGatt, Ended
<1>9. ASSUME NEW g \in Gens, OnConnected(g) PROVE LinkTypes'
  <2>1. [gen |-> g, up |-> TRUE] \in Report
    BY DEF Report
  <2>2. Channel(connStateChanged', Report)
    <3>1. CASE connStateChanged = <<>>
      BY <1>9, <2>1, <3>1 DEF OnConnected, Offer
    <3>2. CASE connStateChanged # <<>>
      BY <1>9, <3>2 DEF OnConnected, Offer
    <3> QED
      BY <3>1, <3>2
  <2> QED
    BY <1>9, <2>2 DEF OnConnected, Ended, Places
<1>10. ASSUME NEW g \in Gens, OnDisconnected(g) PROVE LinkTypes'
  <2>1. [gen |-> g, up |-> FALSE] \in Report
    BY DEF Report
  <2>2. Channel(connStateChanged', Report)
    <3>1. CASE connStateChanged = <<>>
      BY <1>10, <2>1, <3>1 DEF OnDisconnected, Offer
    <3>2. CASE connStateChanged # <<>>
      BY <1>10, <3>2 DEF OnDisconnected, Offer
    <3> QED
      BY <3>1, <3>2
  <2> QED
    BY <1>10, <2>2 DEF OnDisconnected, Ended, Places
<1>11. CASE CancelConnection
  BY <1>11, GenFacts DEF Report, Places, CancelConnection
<1>12. CASE UNCHANGED <<attempt, link>>
  BY <1>12, GenFacts DEF Report, Places, attempt, link
<1> QED
  BY ConnectionFrame, <1>1, <1>2, <1>3, <1>4, <1>5, <1>6, <1>7, <1>8, <1>9, <1>10, <1>11, <1>12 DEF Connection

(* No step begins an attempt early or closes a BluetoothGatt in use. *)
LEMMA LinkOrderStep ==
  ASSUME LinkTypes, LinkOrder, [Next]_vars
  PROVE  LinkOrder'
<1> USE DEF LinkOrder, LinkTypes, attempt, link
<1>1. ASSUME NEW g \in Gens, ConnectFails(g) PROVE LinkOrder'
  BY ConnectionFrame, <1>1, GenFacts DEF Places, ConnectFails, MayConnect
<1>2. ASSUME NEW g \in Gens, Connect(g) PROVE LinkOrder'
  BY <1>2, GenFacts DEF Places, Connect, MayConnect
<1>3. ASSUME NEW g \in Gens, StoreGatt(g) PROVE LinkOrder'
  BY <1>3, GenFacts DEF Places, StoreGatt
<1>4. ASSUME NEW g \in Gens, TakeConnState(g) PROVE LinkOrder'
  BY <1>4, GenFacts DEF Places, TakeConnState
<1>5. ASSUME NEW g \in Gens, MonitorTakes(g) PROVE LinkOrder'
  BY <1>5, GenFacts DEF Places, MonitorTakes
<1>6. ASSUME NEW g \in Gens, ContextDone(g) PROVE LinkOrder'
  BY <1>6, GenFacts DEF Places, ContextDone
<1>7. ASSUME NEW g \in Gens, ForgetGatt(g) PROVE LinkOrder'
  BY <1>7, GenFacts DEF Places, ForgetGatt
<1>8. ASSUME NEW g \in Gens, CloseGatt(g) PROVE LinkOrder'
  BY <1>8, GenFacts DEF Places, CloseGatt, Ended
<1>9. ASSUME NEW g \in Gens, OnConnected(g) PROVE LinkOrder'
  BY <1>9, GenFacts DEF Places, OnConnected, Offer
<1>10. ASSUME NEW g \in Gens, OnDisconnected(g) PROVE LinkOrder'
  BY <1>10, GenFacts DEF Places, OnDisconnected, Ended, Offer
<1>11. CASE CancelConnection
  BY <1>11, GenFacts DEF Places, CancelConnection
<1>12. CASE UNCHANGED <<attempt, link>>
  BY <1>12, GenFacts DEF Places, attempt, link
<1> QED
  BY ConnectionFrame, <1>1, <1>2, <1>3, <1>4, <1>5, <1>6, <1>7, <1>8, <1>9, <1>10, <1>11, <1>12 DEF Connection

(* A report is taken before the next one comes. *)
LEMMA ReportsStep ==
  ASSUME LinkTypes, LinkOrder, Reports, CtxCancel \subseteq {MaxGen}, [Next]_vars
  PROVE  Reports'
<1> USE DEF LinkOrder, LinkTypes, Reports, Came, Went, attempt, link
<1>1. ASSUME NEW g \in Gens, ConnectFails(g) PROVE Reports'
  BY ConnectionFrame, <1>1, GenFacts, ReportFacts DEF Places, ConnectFails, MayConnect
<1>2. ASSUME NEW g \in Gens, Connect(g) PROVE Reports'
  BY <1>2, GenFacts, ReportFacts DEF Places, Connect, MayConnect
<1>3. ASSUME NEW g \in Gens, StoreGatt(g) PROVE Reports'
  BY <1>3, GenFacts, ReportFacts DEF Places, StoreGatt
<1>4. ASSUME NEW g \in Gens, TakeConnState(g) PROVE Reports'
  <2>1. Came(g) \/ Went(g)
    BY <1>4 DEF TakeConnState
  <2>2. connStateChanged' = <<>> /\ \A h \in Gens : h # g => conn[h] \in {"idle", "over"}
    <3>1. connStateChanged' = <<>>
      BY <1>4, <2>1, ReportFacts, ZenonT(60) DEF TakeConnState
    <3> QED
      BY <1>4, <3>1, GenFacts DEF TakeConnState, Places
  <2>3. \/ java[g] \in {"up", "gone"} /\ (java[g] = "gone" => EarlyDrop) /\ conn' = [conn EXCEPT ![g] = "connected"]
        \/ java[g] = "refused" /\ conn' = [conn EXCEPT ![g] = "failing"]
    BY <1>4, GenFacts, ReportFacts DEF TakeConnState, Places
  <2> QED
    BY <1>4, <2>2, <2>3, GenFacts DEF TakeConnState, Places
<1>5. ASSUME NEW g \in Gens, MonitorTakes(g) PROVE Reports'
  <2>1. Went(g) /\ java[g] = "gone"
    BY <1>5 DEF MonitorTakes
  <2>2. java[g] = "gone" /\ connStateChanged' = <<>> /\ \A h \in Gens : h # g => conn[h] \in {"idle", "over"}
    <3>1. connStateChanged' = <<>>
      BY <1>5, <2>1, ReportFacts DEF MonitorTakes
    <3> QED
      BY <1>5, <2>1, <3>1, GenFacts DEF MonitorTakes, Places
  <2> QED
    BY <1>5, <2>2, GenFacts DEF MonitorTakes, Places
<1>6. ASSUME NEW g \in Gens, ContextDone(g) PROVE Reports'
  BY <1>6, GenFacts, ReportFacts DEF Places, ContextDone
<1>7. ASSUME NEW g \in Gens, ForgetGatt(g) PROVE Reports'
  BY <1>7, GenFacts, ReportFacts DEF Places, ForgetGatt
<1>8. ASSUME NEW g \in Gens, CloseGatt(g) PROVE Reports'
  BY <1>8, GenFacts, ReportFacts DEF Places, CloseGatt, Ended
<1>9. ASSUME NEW g \in Gens, OnConnected(g) PROVE Reports'
  <2>1. conn[g] \notin {"idle", "over", "connected"} /\ \A h \in Gens : h # g => conn[h] \in {"idle", "over"}
    BY <1>9, GenFacts DEF OnConnected, Places
  <2>2. CASE conn[g] \in {"called", "waiting"}
    <3>1. connStateChanged' = <<[gen |-> g, up |-> TRUE]>>
      BY <1>9, <2>2, ReportFacts DEF OnConnected, Offer
    <3> QED
      BY <1>9, <2>1, <2>2, <3>1, GenFacts DEF OnConnected, Places
  <2>3. CASE conn[g] \notin {"called", "waiting"}
    BY <1>9, <2>1, <2>3, GenFacts DEF OnConnected, Places
  <2> QED
    BY <2>2, <2>3
<1>10. ASSUME NEW g \in Gens, OnDisconnected(g) PROVE Reports'
  <2>1. conn[g] \notin {"idle", "over"} /\ \A h \in Gens : h # g => conn[h] \in {"idle", "over"}
    BY <1>10, GenFacts DEF OnDisconnected, Places
  <2>2. java' = [java EXCEPT ![g] = IF java[g] = "up" THEN "gone" ELSE "refused"]
    BY <1>10 DEF OnDisconnected, Ended
  <2>3. CASE conn[g] \in {"called", "waiting"}
    <3>1. CASE java[g] = "connecting"
      <4>1. connStateChanged' = <<[gen |-> g, up |-> FALSE]>>
        BY <1>10, <2>3, <3>1, ReportFacts DEF OnDisconnected, Offer
      <4> QED
        BY <1>10, <2>1, <2>2, <2>3, <3>1, <4>1, GenFacts DEF OnDisconnected, Places
    <3>2. CASE java[g] = "up"
      <4>1. connStateChanged' = <<[gen |-> g, up |-> TRUE]>> /\ EarlyDrop
        BY <1>10, <2>3, <3>2, ReportFacts, JniClientAssumption DEF OnDisconnected, Offer
      <4> QED
        BY <1>10, <2>1, <2>2, <2>3, <3>2, <4>1, GenFacts DEF OnDisconnected, Places
    <3> QED
      BY <1>10, <3>1, <3>2 DEF OnDisconnected
  <2>4. CASE conn[g] = "connected"
    <3>1. java[g] = "up" /\ connStateChanged' = <<[gen |-> g, up |-> FALSE]>>
      BY <1>10, <2>4, ReportFacts DEF OnDisconnected, Offer
    <3> QED
      BY <1>10, <2>1, <2>2, <2>4, <3>1, GenFacts DEF OnDisconnected, Places
  <2>5. CASE conn[g] \notin {"called", "waiting", "connected"}
    BY <1>10, <2>1, <2>2, <2>5, GenFacts DEF OnDisconnected, Places
  <2> QED
    BY <2>3, <2>4, <2>5
<1>11. CASE CancelConnection
  BY <1>11, GenFacts, ReportFacts DEF Places, CancelConnection
<1>12. CASE UNCHANGED <<attempt, link>>
  BY <1>12, GenFacts, ReportFacts DEF Places, attempt, link
<1> QED
  BY ConnectionFrame, <1>1, <1>2, <1>3, <1>4, <1>5, <1>6, <1>7, <1>8, <1>9, <1>10, <1>11, <1>12 DEF Connection

(* Every step is one of a connection, of a caller, or a callback. *)
LEMMA CallFrame ==
  ASSUME [Next]_vars
  PROVE  \/ LinkOnly
         \/ \E p \in Callers : CallStep(p)
         \/ \E r \in outstanding, ok \in BOOLEAN : OnAnswer(r, ok)
         \/ \E c \in Chars : OnCharacteristicChanged(c)
<1>1. CASE UNCHANGED vars
  BY <1>1 DEF vars, requests, LinkOnly
<1>2. ASSUME NEW g \in Gens, Connection(g) PROVE LinkOnly
  BY <1>2 DEF Connection, LinkOnly, ConnectFails, Connect, StoreGatt, TakeConnState, MonitorTakes, ContextDone,
     ForgetGatt, CloseGatt, OnConnected, OnDisconnected, requests
<1>3. CASE CancelConnection
  BY <1>3 DEF CancelConnection, LinkOnly, requests
<1>4. ASSUME NEW p \in Callers, Operation(p) PROVE CallStep(p)
  <2>1. CASE DiscoverServices(p)
    <3>1. PICK f \in Filters : Begin(p, "services", 0, f)
      BY <2>1 DEF DiscoverServices
    <3>2. Starts(p, "services", 0, f)
      BY <3>1 DEF Starts
    <3> QED
      BY <3>2 DEF CallStep, AllKinds
  <2>2. CASE ReadCharacteristic(p)
    <3>1. Starts(p, "read", 0, {})
      BY <2>2 DEF ReadCharacteristic, Starts
    <3> QED
      BY <3>1 DEF CallStep, AllKinds
  <2>3. CASE UseDescriptor(p)
    <3>1. PICK k \in {"descread", "descwrite"} : Begin(p, k, 0, {})
      BY <2>3 DEF UseDescriptor
    <3>2. Starts(p, k, 0, {})
      BY <3>1 DEF Starts
    <3> QED
      BY <3>2 DEF CallStep, AllKinds
  <2>4. CASE ReadRSSIOrSetMTU(p)
    <3>1. PICK k \in {"rssi", "mtu"} : Begin(p, k, 0, {})
      BY <2>4 DEF ReadRSSIOrSetMTU
    <3>2. Starts(p, k, 0, {})
      BY <3>1 DEF Starts
    <3> QED
      BY <3>2 DEF CallStep, AllKinds
  <2>5. CASE SetNotifyValue(p)
    <3>1. PICK h \in DOMAIN charObjs : \E f \in {charObjs[h], NoChar} : Begin(p, "descwrite", h, {f})
      BY <2>5 DEF SetNotifyValue
    <3>2. PICK f \in {charObjs[h], NoChar} : Begin(p, "descwrite", h, {f})
      BY <3>1
    <3>3. Starts(p, "descwrite", h, {f})
      BY <3>2 DEF Starts
    <3> QED
      BY <3>3 DEF CallStep, AllKinds
  <2> QED
    BY <1>4, <2>1, <2>2, <2>3, <2>4, <2>5 DEF Operation, CallStep
<1> QED
  BY <1>1, <1>2, <1>3, <1>4 DEF Next

(* What becomes of a call that moves on, and of the others. *)
LEMMA MoveFacts ==
  ASSUME CallTypes, NEW p \in Callers, NEW pc, NEW n
  PROVE  /\ call' = [call EXCEPT ![p].pc = pc] => Moved(p, pc, call[p].id, call[p].res)
         /\ call' = [call EXCEPT ![p].pc = pc, ![p].id = n] => Moved(p, pc, n, call[p].res)
         /\ call' = [call EXCEPT ![p].pc = pc, ![p].res = n] => Moved(p, pc, call[p].id, n)
<1>1. call = [q \in Callers |-> call[q]] /\ IsCall(call[p])
  BY DEF CallTypes
<1>2. ASSUME call' = [call EXCEPT ![p].pc = pc] PROVE Moved(p, pc, call[p].id, call[p].res)
  BY <1>1, <1>2 DEF IsCall, Moved, Others
<1>3. ASSUME call' = [call EXCEPT ![p].pc = pc, ![p].id = n] PROVE Moved(p, pc, n, call[p].res)
  BY <1>1, <1>3 DEF IsCall, Moved, Others
<1>4. ASSUME call' = [call EXCEPT ![p].pc = pc, ![p].res = n] PROVE Moved(p, pc, call[p].id, n)
  BY <1>1, <1>4 DEF IsCall, Moved, Others
<1> QED
  BY <1>2, <1>3, <1>4

(* What a request that is begun adds. *)
LEMMA BeginFacts ==
  ASSUME LinkTypes, CallTypes, NEW p \in Callers, NEW kind \in AllKinds, NEW vh, NEW arg, Begin(p, kind, vh, arg)
  PROVE  /\ call'[p] = [pc |-> "wait", kind |-> kind, gen |-> 0, vh |-> vh, arg |-> arg, id |-> nreq + 1, res |-> 0]
         /\ Others(p)
         /\ nreq' = nreq + 1
         /\ [id |-> nreq + 1, kind |-> kind, gen |-> gattObj] \in Request
         /\ outstanding' = outstanding \cup {[id |-> nreq + 1, kind |-> kind, gen |-> gattObj]}
         /\ call[p].pc = "idle"
<1>1. call = [q \in Callers |-> call[q]] /\ call[p].pc = "idle" /\ nreq' = nreq + 1
  BY DEF CallTypes, Begin, Submit
<1>2. Others(p)
  BY <1>1 DEF Begin, Others
<1>3. call'[p] = [pc |-> "wait", kind |-> kind, gen |-> 0, vh |-> vh, arg |-> arg, id |-> nreq + 1, res |-> 0]
  BY <1>1 DEF Begin, Idle
<1>4. /\ [id |-> nreq + 1, kind |-> kind, gen |-> gattObj] \in Request
      /\ outstanding' = outstanding \cup {[id |-> nreq + 1, kind |-> kind, gen |-> gattObj]}
  BY <1>1 DEF LinkTypes, CallTypes, Begin, Submit, Request
<1> QED
  BY <1>1, <1>2, <1>3, <1>4

(* A call that is over. *)
LEMMA IdleFacts == IsCall(Idle) /\ Idle.pc = "idle" /\ Idle.kind = "none"
BY DEF IsCall, Idle

LEMMA OverFacts ==
  ASSUME CallTypes, NEW p \in Callers, call' = [call EXCEPT ![p] = Idle]
  PROVE  call'[p] = Idle /\ Others(p)
BY DEF CallTypes, Others

(* What a write begins with. *)
LEMMA WriteFacts ==
  ASSUME LinkTypes, CallTypes, NEW p \in Callers, WriteCharacteristic(p)
  PROVE  /\ call'[p] = [pc |-> "go", kind |-> "write", gen |-> gattObj, vh |-> 0, arg |-> {}, id |-> 0, res |-> 0]
         /\ Others(p) /\ call[p].pc = "idle" /\ gattObj \in Gens
<1>1. call = [q \in Callers |-> call[q]]
  BY DEF CallTypes
<1>2. Others(p)
  BY <1>1 DEF WriteCharacteristic, Others
<1>3. call'[p] = [pc |-> "go", kind |-> "write", gen |-> gattObj, vh |-> 0, arg |-> {}, id |-> 0, res |-> 0]
  BY <1>1 DEF WriteCharacteristic, Idle
<1> QED
  BY <1>2, <1>3 DEF WriteCharacteristic, LinkTypes

(* An answer finds its channel empty or full; a channel that is emptied is a channel. *)
LEMMA OfferFacts ==
  ASSUME NEW c, NEW a \in Answer, Channel(c, Answer)
  PROVE  /\ Channel(Offer(c, a), Answer) /\ Offer(c, a) # <<>>
         /\ c = <<>> => Head(Offer(c, a)) = a
         /\ c # <<>> => Offer(c, a) = c
<1>1. CASE c = <<>>
  BY <1>1 DEF Channel, Offer
<1>2. CASE c # <<>>
  BY <1>2 DEF Channel, Offer
<1> QED
  BY <1>1, <1>2

(* Calls, requests and answers keep their types. *)
LEMMA CallTypesStep ==
  ASSUME LinkTypes, CallTypes, [Next]_vars
  PROVE  CallTypes'
<1> USE DEF CallTypes, Channel
<1>1. CASE LinkOnly
  BY <1>1 DEF LinkOnly, write, table
<1>2. ASSUME NEW p \in Callers, NEW kind \in AllKinds, NEW vh, NEW arg, Starts(p, kind, vh, arg) PROVE CallTypes'
  <2>1. Begin(p, kind, vh, arg)
    BY <1>2 DEF Starts
  <2>2. /\ call'[p] = [pc |-> "wait", kind |-> kind, gen |-> 0, vh |-> vh, arg |-> arg, id |-> nreq + 1, res |-> 0]
        /\ Others(p) /\ nreq' = nreq + 1
        /\ [id |-> nreq + 1, kind |-> kind, gen |-> gattObj] \in Request
        /\ outstanding' = outstanding \cup {[id |-> nreq + 1, kind |-> kind, gen |-> gattObj]}
    <3> HIDE DEF CallTypes, Channel
    <3> QED
      BY <2>1, BeginFacts
  <2>3. IsCall(call'[p])
    BY <2>2 DEF IsCall, AllKinds
  <2>4. nreq' = nreq + 1 /\ outstanding' \in SUBSET Request
    BY <2>2
  <2>5. /\ \A r \in outstanding' : r.id <= nreq'
        /\ \A r, s \in outstanding' : r.id = s.id => r = s
    <3>1. \A r \in outstanding : r.id \in Nat /\ r.id <= nreq
      BY DEF Request
    <3> QED
      BY <2>2, <3>1
  <2>6. chan' = chan /\ mixed' \in SUBSET AllKinds
    BY <2>1 DEF Begin
  <2> QED
    BY <2>2, <2>3, <2>4, <2>5, <2>6 DEF Others
<1>3. ASSUME NEW p \in Callers, Subscribe(p) PROVE CallTypes'
  <2>1. nreq' = nreq + 1 /\ nreq' \in Nat /\ \A r \in outstanding : r.id <= nreq'
    BY <1>3 DEF Subscribe, Request
  <2> QED
    BY <1>3, <2>1 DEF Subscribe
<1>4. ASSUME NEW p \in Callers, TakeAnswer(p) PROVE CallTypes'
  <2>1. Moved(p, "done", call[p].id, Head(chan[call[p].kind]).id)
    BY <1>4, MoveFacts DEF TakeAnswer
  <2>2. IsCall(call'[p])
    <3>1. call[p].pc = "wait" /\ call[p].kind \in Kinds /\ IsCall(call[p])
      BY <1>4 DEF TakeAnswer
    <3> QED
      BY <2>1, <3>1, JniClientAssumption DEF Moved, IsCall, AllKinds
  <2>3. chan' = [k \in Kinds |-> chan'[k]] /\ \A k \in Kinds : chan'[k] \in {chan[k], <<>>}
    BY <1>4 DEF TakeAnswer
  <2> QED
    BY <1>4, <2>1, <2>2, <2>3 DEF TakeAnswer, Moved, Others
<1>5. ASSUME NEW p \in Callers, CancelCall(p) PROVE CallTypes'
  <2>1. call'[p] = Idle /\ Others(p)
    BY <1>5, OverFacts DEF CancelCall
  <2> QED
    BY <1>5, <2>1, IdleFacts, JniClientAssumption DEF CancelCall, requests, write, table, Others
<1>6. ASSUME NEW p \in Callers, Return(p) PROVE CallTypes'
  <2>1. call'[p] = Idle /\ Others(p)
    BY <1>6, OverFacts DEF Return
  <2> QED
    BY <1>6, <2>1, IdleFacts DEF Return, requests, write, table, Others
<1>7. ASSUME NEW p \in Callers, WriteCharacteristic(p) PROVE CallTypes'
  <2>1. IsCall(call'[p]) /\ Others(p)
    BY <1>7, WriteFacts DEF IsCall, AllKinds
  <2> QED
    BY <1>7, <2>1 DEF WriteCharacteristic, requests, Others
<1>8. ASSUME NEW p \in Callers, LockWrite(p) PROVE CallTypes'
  <2>1. Moved(p, "locked", call[p].id, call[p].res)
    BY <1>8, MoveFacts DEF LockWrite
  <2>2. IsCall(call'[p])
    BY <1>8, <2>1 DEF LockWrite, Moved, IsCall, AllKinds
  <2> QED
    BY <1>8, <2>1, <2>2 DEF LockWrite, requests, table, Moved, Others
<1>9. ASSUME NEW p \in Callers, BeginCharacteristicWrite(p) PROVE CallTypes'
  <2>1. CASE call' = [call EXCEPT ![p] = Idle]
    <3>1. call'[p] = Idle /\ Others(p)
      BY <2>1, OverFacts
    <3> QED
      BY <1>9, <3>1, IdleFacts DEF BeginCharacteristicWrite, requests, Others
  <2>2. CASE call' = [call EXCEPT ![p].pc = "begun"]
    <3>1. Moved(p, "begun", call[p].id, call[p].res)
      BY <2>2, MoveFacts
    <3>2. IsCall(call'[p])
      BY <1>9, <3>1 DEF BeginCharacteristicWrite, Moved, IsCall, AllKinds
    <3> QED
      BY <1>9, <3>1, <3>2 DEF BeginCharacteristicWrite, requests, Moved, Others
  <2> QED
    BY <1>9, <2>1, <2>2 DEF BeginCharacteristicWrite
<1>10. ASSUME NEW p \in Callers, CallWrite(p) PROVE CallTypes'
  <2>1. CASE Accepts(call[p].gen, "write")
    <3>1. nreq' = nreq + 1 /\ outstanding' = outstanding \cup {[id |-> nreq + 1, kind |-> "write", gen |-> call[p].gen]}
      BY <1>10, <2>1 DEF CallWrite, Submit
    <3>2. Moved(p, "wait", nreq + 1, call[p].res)
      BY <1>10, <2>1, <3>1, MoveFacts DEF CallWrite
    <3>3. IsCall(call'[p]) /\ call[p].gen \in Gens
      BY <1>10, <3>2 DEF CallWrite, Moved, IsCall, AllKinds
    <3>4. outstanding' \in SUBSET Request
      BY <3>1, <3>3 DEF Request
    <3>5. /\ \A r \in outstanding' : r.id <= nreq'
          /\ \A r, s \in outstanding' : r.id = s.id => r = s
      <4>1. \A r \in outstanding : r.id \in Nat /\ r.id <= nreq
        BY DEF Request
      <4> QED
        BY <3>1, <4>1
    <3> QED
      BY <1>10, <3>1, <3>2, <3>3, <3>4, <3>5 DEF CallWrite, Moved, Others
  <2>2. CASE ~ Accepts(call[p].gen, "write")
    <3>1. call'[p] = Idle /\ Others(p)
      BY <1>10, <2>2, OverFacts DEF CallWrite
    <3> QED
      BY <1>10, <2>2, <3>1, IdleFacts DEF CallWrite, Others
  <2> QED
    BY <2>1, <2>2
<1>11. ASSUME NEW p \in Callers, TakeWriteDone(p) PROVE CallTypes'
  <2>1. Moved(p, "done", call[p].id, Head(writeSig).id)
    BY <1>11, MoveFacts DEF TakeWriteDone
  <2>2. IsCall(call'[p])
    BY <1>11, <2>1 DEF TakeWriteDone, Moved, IsCall, AllKinds
  <2> QED
    BY <1>11, <2>1, <2>2 DEF TakeWriteDone, requests, Moved, Others
<1>12. ASSUME NEW p \in Callers, CancelWrite(p) PROVE CallTypes'
  <2>1. call'[p] = Idle /\ Others(p)
    BY <1>12, OverFacts DEF CancelWrite
  <2> QED
    BY <1>12, <2>1, IdleFacts DEF CancelWrite, EndWrite, requests, table, Others
<1>13. ASSUME NEW r \in outstanding, NEW ok \in BOOLEAN, OnAnswer(r, ok) PROVE CallTypes'
  <2>1. [id |-> r.id, ok |-> ok] \in Answer
    BY DEF Answer, Request
  <2>2. chan' = [k \in Kinds |-> chan'[k]] /\ \A k \in Kinds : chan'[k] \in {chan[k], Offer(chan[k], [id |-> r.id, ok |-> ok])}
    BY <1>13 DEF OnAnswer
  <2>3. \A k \in Kinds : Channel(chan'[k], Answer)
    <3> HIDE DEF Channel
    <3> QED
      BY <2>1, <2>2, OfferFacts
  <2> QED
    BY <1>13, <2>2, <2>3 DEF OnAnswer
<1>14. ASSUME NEW c \in Chars, OnCharacteristicChanged(c) PROVE CallTypes'
  BY <1>14 DEF OnCharacteristicChanged, requests, write
<1> QED
  BY CallFrame, <1>1, <1>2, <1>3, <1>4, <1>5, <1>6, <1>7, <1>8, <1>9, <1>10, <1>11, <1>12, <1>13,
      <1>14 DEF CallStep

(* A write that ends leaves no request behind, or an error that stops the next one. *)
LEMMA WriteStep ==
  ASSUME LinkTypes, CallTypes, WriteInv, [Next]_vars
  PROVE  WriteInv'
<1> USE DEF WriteInv, Waits, OwnWrite
<1>1. CASE LinkOnly
  BY <1>1 DEF LinkOnly, write, table
<1>2. ASSUME NEW p \in Callers, NEW kind \in AllKinds, NEW vh, NEW arg, Starts(p, kind, vh, arg) PROVE WriteInv'
  <2>1. Begin(p, kind, vh, arg) /\ IsCall(call[p])
    BY <1>2 DEF Starts, CallTypes
  <2>2. /\ call'[p] = [pc |-> "wait", kind |-> kind, gen |-> 0, vh |-> vh, arg |-> arg, id |-> nreq + 1, res |-> 0]
        /\ Others(p) /\ call[p].pc = "idle"
        /\ outstanding' = outstanding \cup {[id |-> nreq + 1, kind |-> kind, gen |-> gattObj]}
    BY <2>1, BeginFacts
  <2>3. call[p].kind = "none" /\ kind # "write"
    BY <2>1, <2>2 DEF IsCall, AllKinds
  <2>4. UNCHANGED write
    BY <2>1 DEF Begin
  <2> QED
    BY <2>2, <2>3, <2>4 DEF Others, write
<1>3. ASSUME NEW p \in Callers, Subscribe(p) PROVE WriteInv'
  BY <1>3 DEF Subscribe, write
<1>4. ASSUME NEW p \in Callers, TakeAnswer(p) PROVE WriteInv'
  <2>1. Moved(p, "done", call[p].id, Head(chan[call[p].kind]).id)
    BY <1>4, MoveFacts DEF TakeAnswer
  <2>2. call[p].kind # "write"
    BY <1>4, JniClientAssumption DEF TakeAnswer, AllKinds
  <2>3. UNCHANGED <<outstanding, write>>
    BY <1>4 DEF TakeAnswer
  <2> QED
    BY <2>1, <2>2, <2>3 DEF write, Moved, Others
<1>5. ASSUME NEW p \in Callers, CancelCall(p) PROVE WriteInv'
  <2>1. call'[p] = Idle /\ Others(p) /\ IsCall(call[p])
    BY <1>5, OverFacts DEF CancelCall, CallTypes
  <2>2. call[p].kind # "write" \/ call[p].pc = "done"
    BY <1>5, JniClientAssumption DEF CancelCall, AllKinds
  <2> QED
    BY <1>5, <2>1, <2>2, IdleFacts DEF CancelCall, requests, write, table, Others, IsCall
<1>6. ASSUME NEW p \in Callers, Return(p) PROVE WriteInv'
  <2>1. call'[p] = Idle /\ Others(p) /\ IsCall(call[p])
    BY <1>6, OverFacts DEF Return, CallTypes
  <2>2. call[p].kind # "write" \/ call[p].pc = "done"
    BY <1>6, JniClientAssumption DEF Return, AllKinds
  <2> QED
    BY <1>6, <2>1, <2>2, IdleFacts DEF Return, requests, write, table, Others, IsCall
<1>7. ASSUME NEW p \in Callers, WriteCharacteristic(p) PROVE WriteInv'
  <2>1. /\ call'[p] = [pc |-> "go", kind |-> "write", gen |-> gattObj, vh |-> 0, arg |-> {}, id |-> 0, res |-> 0]
        /\ Others(p) /\ call[p].pc = "idle" 
    BY <1>7, WriteFacts
  <2> QED
    BY <1>7, <2>1 DEF WriteCharacteristic, requests, write, table, Others
<1>8. ASSUME NEW p \in Callers, LockWrite(p) PROVE WriteInv'
  <2>1. Moved(p, "locked", call[p].id, call[p].res) /\ IsCall(call[p])
    BY <1>8, MoveFacts DEF LockWrite, CallTypes
  <2>2. call[p].kind = "write" /\ \A q \in Callers : ~ (call[q].kind = "write" /\ call[q].pc \in {"locked", "begun", "wait"})
    BY <1>8, <2>1, JniClientAssumption DEF LockWrite, IsCall
  <2>3. \A q \in Callers : call[q].pc # "begun" /\ ~ Waits(q, "write")
    BY <2>2 DEF CallTypes, IsCall
  <2> QED
    BY <1>8, <2>1, <2>2, <2>3, JniClientAssumption DEF LockWrite, requests, table, Moved, Others
<1>9. ASSUME NEW p \in Callers, BeginCharacteristicWrite(p) PROVE WriteInv'
  <2>1. writeMu = p /\ IsCall(call[p]) /\ call[p].kind = "write" /\ writeDone = NoCaller
    BY <1>9 DEF BeginCharacteristicWrite, CallTypes, IsCall
  <2>2. \A q \in Callers : q # p => call[q].pc \notin {"locked", "begun"} /\ ~ Waits(q, "write")
    BY <2>1 DEF CallTypes, IsCall
  <2>3. CASE writeErr
    <3>1. call'[p] = Idle /\ Others(p)
      BY <1>9, <2>3, OverFacts DEF BeginCharacteristicWrite
    <3> QED
      BY <1>9, <2>1, <2>2, <2>3, <3>1, IdleFacts, JniClientAssumption DEF BeginCharacteristicWrite, requests, table, Others
  <2>4. CASE ~ writeErr
    <3>1. Moved(p, "begun", call[p].id, call[p].res)
      BY <1>9, <2>1, <2>4, MoveFacts DEF BeginCharacteristicWrite
    <3> QED
      BY <1>9, <2>1, <2>2, <2>4, <3>1, JniClientAssumption DEF BeginCharacteristicWrite, requests, table, Moved, Others
  <2> QED
    BY <2>3, <2>4
<1>10. ASSUME NEW p \in Callers, CallWrite(p) PROVE WriteInv'
  <2>1. writeMu = p /\ IsCall(call[p]) /\ call[p].kind = "write" /\ writeDone = p /\ ~ writeErr
    BY <1>10 DEF CallWrite, CallTypes, IsCall
  <2>2. \A q \in Callers : q # p => call[q].pc \notin {"locked", "begun"} /\ ~ Waits(q, "write")
    BY <2>1 DEF CallTypes, IsCall
  <2>3. writeSig = <<>> /\ \A r \in outstanding : r.kind # "write"
    BY <1>10, <2>1, <2>2 DEF CallWrite
  <2>4. CASE Accepts(call[p].gen, "write")
    <3>1. nreq' = nreq + 1 /\ outstanding' = outstanding \cup {[id |-> nreq + 1, kind |-> "write", gen |-> call[p].gen]}
      BY <1>10, <2>4 DEF CallWrite, Submit
    <3>2. Moved(p, "wait", nreq + 1, call[p].res)
      BY <1>10, <2>4, <3>1, MoveFacts DEF CallWrite
    <3> QED
      BY <1>10, <2>1, <2>2, <2>3, <2>4, <3>1, <3>2 DEF CallWrite, table, write, Moved, Others
  <2>5. CASE ~ Accepts(call[p].gen, "write")
    <3>1. call'[p] = Idle /\ Others(p)
      BY <1>10, <2>5, OverFacts DEF CallWrite
    <3> QED
      BY <1>10, <2>1, <2>2, <2>3, <2>5, <3>1, IdleFacts, JniClientAssumption DEF CallWrite, table, EndWrite, Others
  <2> QED
    BY <2>4, <2>5
<1>11. ASSUME NEW p \in Callers, TakeWriteDone(p) PROVE WriteInv'
  <2>1. Moved(p, "done", call[p].id, Head(writeSig).id) /\ writeMu = p
    BY <1>11, MoveFacts DEF TakeWriteDone
  <2>2. \A q \in Callers : q # p => call[q].pc \notin {"locked", "begun"} /\ ~ Waits(q, "write")
    BY <2>1 DEF CallTypes, IsCall
  <2>3. Head(writeSig).id = call[p].id /\ \A r \in outstanding : r.kind # "write"
    BY <1>11, <2>2 DEF TakeWriteDone
  <2>4. /\ writeDone' = NoCaller /\ writeErr' = writeErr /\ writeSig' = <<>> /\ writeMu' = NoCaller
        /\ outstanding' = outstanding
    BY <1>11, <2>1 DEF TakeWriteDone, EndWrite, requests
  <2>5. call'[p].pc = "done" /\ call'[p].res = call'[p].id
    BY <2>1, <2>3 DEF Moved
  <2>6. \A q \in Callers : /\ ~ (call'[q].kind = "write" /\ call'[q].pc \in {"locked", "begun", "wait"})
                           /\ call'[q].pc \notin {"locked", "begun"}
                           /\ call'[q].pc = "done" /\ call'[q].kind = "write" => call'[q].res = call'[q].id
    BY <2>1, <2>2, <2>5 DEF Moved, Others
  <2>7. (\A r \in outstanding : r.kind = "write" => writeErr')
    BY <2>3
  <2> QED
    BY <2>4, <2>6, <2>7, JniClientAssumption DEF Channel
<1>12. ASSUME NEW p \in Callers, CancelWrite(p) PROVE WriteInv'
  <2>1. call'[p] = Idle /\ Others(p) /\ writeMu = p /\ writeDone = p
    BY <1>12, OverFacts DEF CancelWrite
  <2>2. \A q \in Callers : q # p => call[q].pc \notin {"locked", "begun"} /\ ~ Waits(q, "write")
    BY <2>1 DEF CallTypes, IsCall
  <2>3. /\ writeDone' = NoCaller /\ writeErr' = TRUE /\ writeSig' = <<>> /\ writeMu' = NoCaller
        /\ outstanding' = outstanding
    BY <1>12, <2>1 DEF CancelWrite, EndWrite, requests
  <2>4. \A q \in Callers : /\ ~ (call'[q].kind = "write" /\ call'[q].pc \in {"locked", "begun", "wait"})
                           /\ call'[q].pc \notin {"locked", "begun"}
                           /\ call'[q].pc = "done" /\ call'[q].kind = "write" => call'[q].res = call'[q].id
    BY <2>1, <2>2, IdleFacts DEF Others
  <2>5. (\A r \in outstanding : r.kind = "write" => writeErr')
    BY <2>3
  <2> QED
    BY <2>3, <2>4, <2>5, JniClientAssumption DEF Channel
<1>13. ASSUME NEW r \in outstanding, NEW ok \in BOOLEAN, OnAnswer(r, ok) PROVE WriteInv'
  <2>1. [id |-> r.id, ok |-> ok] \in Answer /\ r \in Request
    BY DEF Answer, Request, CallTypes
  <2>2. CASE r.kind = "write" /\ writeDone # NoCaller
    <3>1. writeSig' = Offer(writeSig, [id |-> r.id, ok |-> ok]) /\ writeSig = <<>>
      BY <1>13, <2>2 DEF OnAnswer
    <3>2. Channel(writeSig', Answer) /\ Head(writeSig').id = r.id
      BY <2>1, <3>1, OfferFacts
    <3>3. writeDone = writeMu /\ writeMu \in Callers
      BY <2>2
    <3>4. Waits(writeMu, "write") /\ call[writeMu].id = r.id
      BY <2>2, <3>3
    <3>5. \A s \in outstanding' : s.kind # "write"
      BY <1>13, <3>3, <3>4 DEF OnAnswer, CallTypes
    <3>6. outstanding' \subseteq outstanding /\ UNCHANGED <<call, writeMu, writeDone, writeErr>>
      BY <1>13 DEF OnAnswer
    <3> QED
      BY <2>2, <3>2, <3>3, <3>4, <3>5, <3>6
  <2>3. CASE ~ (r.kind = "write" /\ writeDone # NoCaller)
    BY <1>13, <2>3 DEF OnAnswer, table
  <2> QED
    BY <2>2, <2>3
<1>14. ASSUME NEW c \in Chars, OnCharacteristicChanged(c) PROVE WriteInv'
  BY <1>14 DEF OnCharacteristicChanged, requests, write
<1> QED
  BY CallFrame, <1>1, <1>2, <1>3, <1>4, <1>5, <1>6, <1>7, <1>8, <1>9, <1>10, <1>11, <1>12, <1>13,
      <1>14 DEF CallStep

(* A step that gives no operation but a write a request or an answer. *)
LEMMA AnswerFrame ==
  ASSUME AnswerInv, chan' = chan, mixed \subseteq mixed',
         \A q \in Callers : \A k \in Kinds \ mixed' :
           (Waits(q, k)' <=> Waits(q, k)) /\ (Waits(q, k) => call'[q].id = call[q].id),
         \A r \in outstanding' : r \in outstanding \/ r.kind = "write",
         \A q \in Callers : call'[q].pc = "done" /\ call'[q].kind \notin mixed' => call'[q].res = call'[q].id
  PROVE  AnswerInv'
<1>1. OwnResult'
  BY DEF OwnResult
<1>2. ASSUME NEW k \in Kinds \ mixed'
      PROVE  /\ \A p, q \in Callers : Waits(p, k)' /\ Waits(q, k)' => p = q
             /\ \A r \in outstanding' : r.kind = k =>
                  chan'[k] = <<>> /\ \E p \in Callers : Waits(p, k)' /\ call'[p].id = r.id
             /\ chan'[k] # <<>> => \E p \in Callers : Waits(p, k)' /\ call'[p].id = Head(chan'[k]).id
  <2>1. k \in Kinds \ mixed /\ k # "write"
    BY JniClientAssumption DEF AllKinds
  <2>2. \A p, q \in Callers : Waits(p, k)' /\ Waits(q, k)' => p = q
    BY <2>1 DEF AnswerInv
  <2>3. ASSUME NEW r \in outstanding', r.kind = k
        PROVE  chan'[k] = <<>> /\ \E p \in Callers : Waits(p, k)' /\ call'[p].id = r.id
    BY <2>1, <2>3 DEF AnswerInv
  <2>4. chan'[k] # <<>> => \E p \in Callers : Waits(p, k)' /\ call'[p].id = Head(chan'[k]).id
    BY <2>1 DEF AnswerInv
  <2> QED
    BY <2>2, <2>3, <2>4
<1> QED
  BY <1>1, <1>2 DEF AnswerInv

(* An operation that was neither cancelled nor overlapped finds its own answer. *)
LEMMA AnswerStep ==
  ASSUME LinkTypes, CallTypes, WriteInv', AnswerInv, [Next]_vars
  PROVE  AnswerInv'
<1>1. CASE LinkOnly
  <2>1. \A q \in Callers : call'[q] = call[q]
    BY <1>1 DEF LinkOnly
  <2>2. chan' = chan /\ mixed' = mixed /\ \A s \in outstanding' : s \in outstanding \/ s.kind = "write"
    BY <1>1 DEF LinkOnly
  <2>3. \A q \in Callers : \A k \in Kinds : (Waits(q, k)' <=> Waits(q, k)) /\ (Waits(q, k) => call'[q].id = call[q].id)
    BY <2>1, JniClientAssumption DEF Waits, AllKinds, Others, Moved
  <2>4. \A q \in Callers : call'[q].pc = "done" /\ call'[q].kind \notin mixed' => call'[q].res = call'[q].id
    BY <2>1, <2>2 DEF AnswerInv, OwnResult, WriteInv, OwnWrite, Others, Moved
  <2> QED
    BY <2>2, <2>3, <2>4, AnswerFrame
<1>2. ASSUME NEW p \in Callers, NEW kind \in AllKinds, NEW vh, NEW arg, Starts(p, kind, vh, arg) PROVE AnswerInv'
  <2>1. Begin(p, kind, vh, arg)
    BY <1>2 DEF Starts
  <2>2. /\ call'[p] = [pc |-> "wait", kind |-> kind, gen |-> 0, vh |-> vh, arg |-> arg, id |-> nreq + 1, res |-> 0]
        /\ Others(p) /\ call[p].pc = "idle"
        /\ outstanding' = outstanding \cup {[id |-> nreq + 1, kind |-> kind, gen |-> gattObj]}
    BY <2>1, BeginFacts
  <2>3. chan' = chan /\ mixed \subseteq mixed'
    BY <2>1 DEF Begin
  <2>4. OwnResult'
    BY <2>2, <2>3 DEF AnswerInv, OwnResult, Others
  <2>5. kind \notin mixed' => \A q \in Callers : ~ Waits(q, kind)
    BY <2>1 DEF Begin, Waits
  <2>6. ASSUME NEW k \in Kinds \ mixed'
        PROVE  /\ \A q, s \in Callers : Waits(q, k)' /\ Waits(s, k)' => q = s
               /\ \A r \in outstanding' : r.kind = k =>
                    chan'[k] = <<>> /\ \E q \in Callers : Waits(q, k)' /\ call'[q].id = r.id
               /\ chan'[k] # <<>> => \E q \in Callers : Waits(q, k)' /\ call'[q].id = Head(chan'[k]).id
    <3>1. k \in Kinds \ mixed
      BY <2>3
    <3>2. \A q \in Callers : q # p => call'[q] = call[q]
      BY <2>2 DEF Others
    <3>3. CASE k = kind
      <4>1. chan[k] = <<>> /\ \A r \in outstanding : r.kind # k
        BY <2>5, <3>1, <3>3 DEF AnswerInv
      <4>2. \A q \in Callers : Waits(q, k)' <=> q = p
        BY <2>2, <2>5, <3>2, <3>3 DEF Waits
      <4> QED
        BY <2>2, <2>3, <3>3, <4>1, <4>2
    <3>4. CASE k # kind
      <4>1. \A q \in Callers : (Waits(q, k)' <=> Waits(q, k)) /\ (Waits(q, k) => call'[q].id = call[q].id)
        BY <2>2, <3>2, <3>4 DEF Waits
      <4>2. \A r \in outstanding' : r.kind = k => r \in outstanding
        BY <2>2, <3>4
      <4> QED
        BY <2>3, <3>1, <4>1, <4>2 DEF AnswerInv
    <3> QED
      BY <3>3, <3>4
  <2> QED
    BY <2>4, <2>6 DEF AnswerInv
<1>3. ASSUME NEW p \in Callers, Subscribe(p) PROVE AnswerInv'
  <2>1. \A q \in Callers : call'[q] = call[q]
    BY <1>3 DEF Subscribe
  <2>2. chan' = chan /\ mixed' = mixed /\ \A s \in outstanding' : s \in outstanding \/ s.kind = "write"
    BY <1>3 DEF Subscribe
  <2>3. \A q \in Callers : \A k \in Kinds : (Waits(q, k)' <=> Waits(q, k)) /\ (Waits(q, k) => call'[q].id = call[q].id)
    BY <2>1, JniClientAssumption DEF Waits, AllKinds, Others, Moved
  <2>4. \A q \in Callers : call'[q].pc = "done" /\ call'[q].kind \notin mixed' => call'[q].res = call'[q].id
    BY <2>1, <2>2 DEF AnswerInv, OwnResult, WriteInv, OwnWrite, Others, Moved
  <2> QED
    BY <2>2, <2>3, <2>4, AnswerFrame
<1>4. ASSUME NEW p \in Callers, TakeAnswer(p) PROVE AnswerInv'
  <2> DEFINE kind == call[p].kind
  <2>1. Moved(p, "done", call[p].id, Head(chan[kind]).id)
    BY <1>4, MoveFacts DEF TakeAnswer
  <2>2. Waits(p, kind) /\ kind \in Kinds /\ chan[kind] # <<>>
    BY <1>4 DEF TakeAnswer, Waits
  <2>3. chan'[kind] = <<>> /\ \A k \in Kinds : k # kind => chan'[k] = chan[k]
    BY <1>4, <2>2 DEF TakeAnswer, CallTypes
  <2>4. mixed' = mixed /\ outstanding' = outstanding /\ \A q \in Callers : q # p => call'[q] = call[q]
    BY <1>4, <2>1 DEF TakeAnswer, Moved, Others
  <2>5. call'[p].pc = "done" /\ call'[p].kind = kind /\ call'[p].id = call[p].id /\ call'[p].res = Head(chan[kind]).id
    BY <2>1 DEF Moved
  <2> HIDE DEF kind
  <2>6. kind \notin mixed => Head(chan[kind]).id = call[p].id /\ \A r \in outstanding : r.kind # kind
    BY <2>2 DEF AnswerInv
  <2>7. OwnResult'
    BY <2>4, <2>5, <2>6 DEF AnswerInv, OwnResult
  <2>8. ASSUME NEW k \in Kinds \ mixed'
        PROVE  /\ \A q, s \in Callers : Waits(q, k)' /\ Waits(s, k)' => q = s
               /\ \A r \in outstanding' : r.kind = k =>
                    chan'[k] = <<>> /\ \E q \in Callers : Waits(q, k)' /\ call'[q].id = r.id
               /\ chan'[k] # <<>> => \E q \in Callers : Waits(q, k)' /\ call'[q].id = Head(chan'[k]).id
    <3>1. CASE k = kind
      <4>1. \A q \in Callers : Waits(q, k)' => q # p /\ Waits(q, k)
        BY <2>4, <2>5 DEF Waits
      <4>2. \A r \in outstanding' : r.kind # k
        BY <2>4, <2>6, <3>1
      <4> QED
        BY <2>3, <2>4, <3>1, <4>1, <4>2 DEF AnswerInv
    <3>2. CASE k # kind
      <4>1. \A q \in Callers : (Waits(q, k)' <=> Waits(q, k)) /\ (Waits(q, k) => call'[q].id = call[q].id)
        BY <2>2, <2>4, <2>5, <3>2 DEF Waits
      <4> QED
        BY <2>3, <2>4, <3>2, <4>1 DEF AnswerInv
    <3> QED
      BY <3>1, <3>2
  <2> QED
    BY <2>7, <2>8 DEF AnswerInv
<1>5. ASSUME NEW p \in Callers, CancelCall(p) PROVE AnswerInv'
  <2>1. call'[p] = Idle /\ \A q \in Callers : q # p => call'[q] = call[q]
    BY <1>5, OverFacts DEF CancelCall, Others
  <2>2. chan' = chan /\ mixed' = mixed \cup {call[p].kind} /\ outstanding' = outstanding
    BY <1>5 DEF CancelCall, requests
  <2>3. \A q \in Callers : \A k \in Kinds \ mixed' :
          (Waits(q, k)' <=> Waits(q, k)) /\ (Waits(q, k) => call'[q].id = call[q].id)
    BY <2>1, <2>2, IdleFacts DEF Waits
  <2>4. \A q \in Callers : call'[q].pc = "done" /\ call'[q].kind \notin mixed' => call'[q].res = call'[q].id
    BY <2>1, <2>2, IdleFacts DEF AnswerInv, OwnResult
  <2> QED
    BY <2>2, <2>3, <2>4, AnswerFrame
<1>6. ASSUME NEW p \in Callers, Return(p) PROVE AnswerInv'
  <2>1. call'[p] = Idle /\ Others(p)
    BY <1>6, OverFacts DEF Return
  <2>2. call[p].pc = "done" /\ \A q \in Callers : q # p => call'[q] = call[q]
    BY <1>6, <2>1 DEF Return, Others
  <2>3. call'[p].kind = "none" /\ call'[p].pc = "idle"
    BY <2>1, IdleFacts
  <2>4. chan' = chan /\ mixed' = mixed /\ \A s \in outstanding' : s \in outstanding \/ s.kind = "write"
    BY <1>6 DEF Return, requests
  <2>5. \A q \in Callers : \A k \in Kinds : (Waits(q, k)' <=> Waits(q, k)) /\ (Waits(q, k) => call'[q].id = call[q].id)
    BY <2>1, <2>2, <2>3, JniClientAssumption DEF Waits, AllKinds, Others, Moved
  <2>6. \A q \in Callers : call'[q].pc = "done" /\ call'[q].kind \notin mixed' => call'[q].res = call'[q].id
    BY <2>1, <2>2, <2>3, <2>4 DEF AnswerInv, OwnResult, WriteInv, OwnWrite, Others, Moved
  <2> QED
    BY <2>4, <2>5, <2>6, AnswerFrame
<1>7. ASSUME NEW p \in Callers, WriteCharacteristic(p) PROVE AnswerInv'
  <2>1. /\ call'[p] = [pc |-> "go", kind |-> "write", gen |-> gattObj, vh |-> 0, arg |-> {}, id |-> 0, res |-> 0]
        /\ Others(p) /\ call[p].pc = "idle"
    BY <1>7, WriteFacts
  <2>2. \A q \in Callers : q # p => call'[q] = call[q]
    BY <2>1 DEF Others
  <2>3. call'[p].kind = "write" /\ call'[p].pc = "go"
    BY <2>1
  <2>4. chan' = chan /\ mixed' = mixed /\ \A s \in outstanding' : s \in outstanding \/ s.kind = "write"
    BY <1>7 DEF WriteCharacteristic, requests
  <2>5. \A q \in Callers : \A k \in Kinds : (Waits(q, k)' <=> Waits(q, k)) /\ (Waits(q, k) => call'[q].id = call[q].id)
    BY <2>1, <2>2, <2>3, JniClientAssumption DEF Waits, AllKinds, Others, Moved
  <2>6. \A q \in Callers : call'[q].pc = "done" /\ call'[q].kind \notin mixed' => call'[q].res = call'[q].id
    BY <2>1, <2>2, <2>3, <2>4 DEF AnswerInv, OwnResult, WriteInv, OwnWrite, Others, Moved
  <2> QED
    BY <2>4, <2>5, <2>6, AnswerFrame
<1>8. ASSUME NEW p \in Callers, LockWrite(p) PROVE AnswerInv'
  <2>1. Moved(p, "locked", call[p].id, call[p].res)
    BY <1>8, MoveFacts DEF LockWrite
  <2>2. call[p].kind = "write" /\ \A q \in Callers : q # p => call'[q] = call[q]
    BY <1>8, <2>1 DEF LockWrite, CallTypes, IsCall, Moved, Others
  <2>3. call'[p].kind = "write"
    BY <2>1, <2>2 DEF Moved
  <2>4. chan' = chan /\ mixed' = mixed /\ \A s \in outstanding' : s \in outstanding \/ s.kind = "write"
    BY <1>8 DEF LockWrite, requests
  <2>5. \A q \in Callers : \A k \in Kinds : (Waits(q, k)' <=> Waits(q, k)) /\ (Waits(q, k) => call'[q].id = call[q].id)
    BY <2>1, <2>2, <2>3, JniClientAssumption DEF Waits, AllKinds, Others, Moved
  <2>6. \A q \in Callers : call'[q].pc = "done" /\ call'[q].kind \notin mixed' => call'[q].res = call'[q].id
    BY <2>1, <2>2, <2>3, <2>4 DEF AnswerInv, OwnResult, WriteInv, OwnWrite, Others, Moved
  <2> QED
    BY <2>4, <2>5, <2>6, AnswerFrame
<1>9. ASSUME NEW p \in Callers, BeginCharacteristicWrite(p) PROVE AnswerInv'
  <2>1. call[p].kind = "write" /\ \A q \in Callers : q # p => call'[q] = call[q]
    BY <1>9 DEF BeginCharacteristicWrite, CallTypes, IsCall
  <2>2. call'[p].kind \in {"write", "none"} /\ call'[p].pc # "done"
    <3>1. CASE call' = [call EXCEPT ![p] = Idle]
      <4>1. call'[p] = Idle
        BY <3>1, OverFacts
      <4> QED
        BY <4>1, IdleFacts
    <3>2. CASE call' = [call EXCEPT ![p].pc = "begun"]
      <4>1. Moved(p, "begun", call[p].id, call[p].res)
        BY <3>2, MoveFacts
      <4> QED
        BY <2>1, <4>1 DEF Moved
    <3> QED
      BY <1>9, <3>1, <3>2 DEF BeginCharacteristicWrite
  <2>3. chan' = chan /\ mixed' = mixed /\ \A s \in outstanding' : s \in outstanding \/ s.kind = "write"
    BY <1>9 DEF BeginCharacteristicWrite, requests
  <2>4. \A q \in Callers : \A k \in Kinds : (Waits(q, k)' <=> Waits(q, k)) /\ (Waits(q, k) => call'[q].id = call[q].id)
    BY <2>1, <2>2, JniClientAssumption DEF Waits, AllKinds, Others, Moved
  <2>5. \A q \in Callers : call'[q].pc = "done" /\ call'[q].kind \notin mixed' => call'[q].res = call'[q].id
    BY <2>1, <2>2, <2>3 DEF AnswerInv, OwnResult, WriteInv, OwnWrite, Others, Moved
  <2> QED
    BY <2>3, <2>4, <2>5, AnswerFrame
<1>10. ASSUME NEW p \in Callers, CallWrite(p) PROVE AnswerInv'
  <2>1. call[p].kind = "write" /\ \A q \in Callers : q # p => call'[q] = call[q]
    BY <1>10 DEF CallWrite, CallTypes, IsCall
  <2>2. call'[p].kind \in {"write", "none"} /\ call'[p].pc # "done"
    <3>1. CASE Accepts(call[p].gen, "write")
      <4>1. Moved(p, "wait", nreq', call[p].res)
        BY <1>10, <3>1, MoveFacts DEF CallWrite
      <4> QED
        BY <2>1, <4>1 DEF Moved
    <3>2. CASE ~ Accepts(call[p].gen, "write")
      <4>1. call'[p] = Idle
        BY <1>10, <3>2, OverFacts DEF CallWrite
      <4> QED
        BY <4>1, IdleFacts
    <3> QED
      BY <3>1, <3>2
  <2>3. chan' = chan /\ mixed' = mixed /\ \A s \in outstanding' : s \in outstanding \/ s.kind = "write"
    <3>1. \/ outstanding' = outstanding
          \/ outstanding' = outstanding \cup {[id |-> nreq', kind |-> "write", gen |-> call[p].gen]}
      BY <1>10 DEF CallWrite, Submit
    <3>2. chan' = chan /\ mixed' = mixed
      BY <1>10 DEF CallWrite
    <3> QED
      BY <3>1, <3>2
  <2>4. \A q \in Callers : \A k \in Kinds : (Waits(q, k)' <=> Waits(q, k)) /\ (Waits(q, k) => call'[q].id = call[q].id)
    BY <2>1, <2>2, JniClientAssumption DEF Waits, AllKinds, Others, Moved
  <2>5. \A q \in Callers : call'[q].pc = "done" /\ call'[q].kind \notin mixed' => call'[q].res = call'[q].id
    BY <2>1, <2>2, <2>3 DEF AnswerInv, OwnResult, WriteInv, OwnWrite, Others, Moved
  <2> QED
    BY <2>3, <2>4, <2>5, AnswerFrame
<1>11. ASSUME NEW p \in Callers, TakeWriteDone(p) PROVE AnswerInv'
  <2>1. Moved(p, "done", call[p].id, Head(writeSig).id)
    BY <1>11, MoveFacts DEF TakeWriteDone
  <2>2. call[p].kind = "write" /\ \A q \in Callers : q # p => call'[q] = call[q]
    BY <1>11, <2>1 DEF TakeWriteDone, CallTypes, IsCall, Moved, Others
  <2>3. call'[p].kind = "write"
    BY <2>1, <2>2 DEF Moved
  <2>4. chan' = chan /\ mixed' = mixed /\ \A s \in outstanding' : s \in outstanding \/ s.kind = "write"
    BY <1>11 DEF TakeWriteDone, requests
  <2>5. \A q \in Callers : \A k \in Kinds : (Waits(q, k)' <=> Waits(q, k)) /\ (Waits(q, k) => call'[q].id = call[q].id)
    BY <2>1, <2>2, <2>3, JniClientAssumption DEF Waits, AllKinds, Others, Moved
  <2>6. \A q \in Callers : call'[q].pc = "done" /\ call'[q].kind \notin mixed' => call'[q].res = call'[q].id
    BY <2>1, <2>2, <2>3, <2>4 DEF AnswerInv, OwnResult, WriteInv, OwnWrite, Others, Moved
  <2> QED
    BY <2>4, <2>5, <2>6, AnswerFrame
<1>12. ASSUME NEW p \in Callers, CancelWrite(p) PROVE AnswerInv'
  <2>1. call'[p] = Idle /\ Others(p)
    BY <1>12, OverFacts DEF CancelWrite
  <2>2. call[p].kind = "write" /\ \A q \in Callers : q # p => call'[q] = call[q]
    BY <1>12, <2>1 DEF CancelWrite, Others
  <2>3. call'[p].kind = "none" /\ call'[p].pc = "idle"
    BY <2>1, IdleFacts
  <2>4. chan' = chan /\ mixed' = mixed /\ \A s \in outstanding' : s \in outstanding \/ s.kind = "write"
    BY <1>12 DEF CancelWrite, requests
  <2>5. \A q \in Callers : \A k \in Kinds : (Waits(q, k)' <=> Waits(q, k)) /\ (Waits(q, k) => call'[q].id = call[q].id)
    BY <2>1, <2>2, <2>3, JniClientAssumption DEF Waits, AllKinds, Others, Moved
  <2>6. \A q \in Callers : call'[q].pc = "done" /\ call'[q].kind \notin mixed' => call'[q].res = call'[q].id
    BY <2>1, <2>2, <2>3, <2>4 DEF AnswerInv, OwnResult, WriteInv, OwnWrite, Others, Moved
  <2> QED
    BY <2>4, <2>5, <2>6, AnswerFrame
<1>13. ASSUME NEW r \in outstanding, NEW ok \in BOOLEAN, OnAnswer(r, ok) PROVE AnswerInv'
  <2>1. [id |-> r.id, ok |-> ok] \in Answer /\ r \in Request
    BY DEF Answer, Request, CallTypes
  <2>2. UNCHANGED <<call, mixed>> /\ outstanding' = outstanding \ {r}
    BY <1>13 DEF OnAnswer
  <2>3. \A k \in Kinds : /\ k # r.kind => chan'[k] = chan[k]
                         /\ k = r.kind => chan'[k] = Offer(chan[k], [id |-> r.id, ok |-> ok])
    BY <1>13, JniClientAssumption DEF OnAnswer, CallTypes, AllKinds
  <2>4. OwnResult'
    BY <2>2 DEF AnswerInv, OwnResult
  <2>5. ASSUME NEW k \in Kinds \ mixed'
        PROVE  /\ \A q, s \in Callers : Waits(q, k)' /\ Waits(s, k)' => q = s
               /\ \A s \in outstanding' : s.kind = k =>
                    chan'[k] = <<>> /\ \E q \in Callers : Waits(q, k)' /\ call'[q].id = s.id
               /\ chan'[k] # <<>> => \E q \in Callers : Waits(q, k)' /\ call'[q].id = Head(chan'[k]).id
    <3>1. k \in Kinds \ mixed /\ \A q \in Callers : Waits(q, k)' <=> Waits(q, k)
      BY <2>2 DEF Waits
    <3>2. CASE k = r.kind
      <4>1. chan[k] = <<>> /\ \E q \in Callers : Waits(q, k) /\ call[q].id = r.id
        BY <3>1, <3>2 DEF AnswerInv
      <4>2. Head(chan'[k]).id = r.id
        BY <2>1, <2>3, <3>2, <4>1, OfferFacts DEF Channel
      <4>3. \A s \in outstanding : s.kind = k => s = r
        BY <3>1, <3>2, <4>1 DEF AnswerInv, CallTypes
      <4>4. \A q, s \in Callers : Waits(q, k)' /\ Waits(s, k)' => q = s
        BY <3>1 DEF AnswerInv
      <4> QED
        BY <2>2, <3>1, <4>1, <4>2, <4>3, <4>4
    <3>3. CASE k # r.kind
      BY <2>2, <2>3, <3>1, <3>3 DEF AnswerInv
    <3> QED
      BY <3>2, <3>3
  <2> QED
    BY <2>4, <2>5 DEF AnswerInv
<1>14. ASSUME NEW c \in Chars, OnCharacteristicChanged(c) PROVE AnswerInv'
  <2>1. \A q \in Callers : call'[q] = call[q]
    BY <1>14 DEF OnCharacteristicChanged
  <2>2. chan' = chan /\ mixed' = mixed /\ \A s \in outstanding' : s \in outstanding \/ s.kind = "write"
    BY <1>14 DEF OnCharacteristicChanged, requests
  <2>3. \A q \in Callers : \A k \in Kinds : (Waits(q, k)' <=> Waits(q, k)) /\ (Waits(q, k) => call'[q].id = call[q].id)
    BY <2>1, JniClientAssumption DEF Waits, AllKinds, Others, Moved
  <2>4. \A q \in Callers : call'[q].pc = "done" /\ call'[q].kind \notin mixed' => call'[q].res = call'[q].id
    BY <2>1, <2>2 DEF AnswerInv, OwnResult, WriteInv, OwnWrite, Others, Moved
  <2> QED
    BY <2>2, <2>3, <2>4, AnswerFrame
<1> QED
  BY CallFrame, <1>1, <1>2, <1>3, <1>4, <1>5, <1>6, <1>7, <1>8, <1>9, <1>10, <1>11, <1>12, <1>13,
      <1>14 DEF CallStep

(* As long as handles keep their meaning, a subscriber is under the handle of its characteristic. *)
LEMMA SubscriberStep ==
  ASSUME LinkTypes, CallTypes, SubscriberInv, [Next]_vars
  PROVE  SubscriberInv'
<1> USE DEF SubscriberInv, Waits
<1>1. CASE LinkOnly
  BY <1>1 DEF LinkOnly, write, table
<1>2. ASSUME NEW p \in Callers, NEW kind \in AllKinds, NEW vh, NEW arg, Starts(p, kind, vh, arg) PROVE SubscriberInv'
  <2>1. Begin(p, kind, vh, arg)
    BY <1>2 DEF Starts
  <2>2. /\ call'[p] = [pc |-> "wait", kind |-> kind, gen |-> 0, vh |-> vh, arg |-> arg, id |-> nreq + 1, res |-> 0]
        /\ Others(p)
    BY <2>1, BeginFacts, ZenonT(60)
  <2>3. UNCHANGED table
    BY <2>1 DEF Begin
  <2> QED
    BY <1>2, <2>2, <2>3 DEF table, Others, Starts
<1>3. ASSUME NEW p \in Callers, Subscribe(p) PROVE SubscriberInv'
  <2>1. PICK h \in DOMAIN charObjs : \E f \in {charObjs[h], NoChar} : subscribers' = [subscribers EXCEPT ![h] = f]
    BY <1>3 DEF Subscribe
  <2>2. UNCHANGED <<call, charObjs, renumbered, heard>>
    BY <1>3 DEF Subscribe
  <2> QED
    BY <2>1, <2>2
<1>4. ASSUME NEW p \in Callers, TakeAnswer(p) PROVE SubscriberInv'
  <2> DEFINE c == call[p]
             a == Head(chan[c.kind])
  <2>1. Others(p) /\ call'[p].pc = "done" /\ c.pc = "wait"
    <3>1. Moved(p, "done", c.id, a.id)
      BY <1>4, MoveFacts DEF TakeAnswer
    <3> QED
      BY <1>4, <3>1 DEF Moved, TakeAnswer
  <2>2. heard' = heard
    BY <1>4 DEF TakeAnswer
  <2>3. CASE a.ok /\ c.kind = "services"
    <3>1. renumbered' = (renumbered \/ (charObjs # <<>> /\ charObjs' # charObjs)) /\ subscribers' = subscribers
      BY <1>4, <2>3 DEF TakeAnswer
    <3>2. CASE renumbered'
      BY <3>1, <3>2
    <3>3. CASE ~ renumbered'
      <4>1. ~ renumbered /\ (charObjs = <<>> \/ charObjs' = charObjs)
        BY <3>1, <3>3
      <4>2. CASE charObjs' = charObjs
        BY <2>1, <2>2, <3>1, <4>1, <4>2 DEF Others
      <4>3. CASE charObjs = <<>>
        <5>1. DOMAIN charObjs = {}
          BY <4>3
        <5>2. /\ \A h \in Handles : subscribers[h] = NoChar
              /\ \A q \in Callers : ~ (Waits(q, "descwrite") /\ call[q].arg # {})
          BY <4>1, <5>1
        <5> QED
          BY <2>1, <2>2, <3>1, <4>1, <5>2 DEF Others
      <4> QED
        BY <4>1, <4>2, <4>3
    <3> QED
      BY <3>2, <3>3
  <2>4. CASE ~ (a.ok /\ c.kind = "services") /\ a.ok /\ c.kind = "descwrite" /\ c.arg # {}
    <3>1. UNCHANGED <<charObjs, renumbered>> /\ subscribers' = [subscribers EXCEPT ![c.vh] = CHOOSE f \in c.arg : TRUE]
      BY <1>4, <2>4 DEF TakeAnswer
    <3>2. (CHOOSE f \in c.arg : TRUE) \in c.arg
      BY <2>4
    <3>3. PICK f \in c.arg : subscribers' = [subscribers EXCEPT ![c.vh] = f]
      BY <3>1, <3>2
    <3>4. ~ renumbered => c.vh \in DOMAIN charObjs /\ f \in {charObjs[c.vh], NoChar}
      BY <2>1, <2>4
    <3> QED
      BY <2>1, <2>2, <3>1, <3>3, <3>4 DEF Others
  <2>5. CASE ~ (a.ok /\ c.kind = "services") /\ ~ (a.ok /\ c.kind = "descwrite" /\ c.arg # {})
    <3>1. UNCHANGED <<charObjs, renumbered, subscribers>>
      BY <1>4, <2>5 DEF TakeAnswer
    <3> QED
      BY <2>1, <2>2, <3>1 DEF Others
  <2> QED
    BY <2>3, <2>4, <2>5
<1>5. ASSUME NEW p \in Callers, CancelCall(p) PROVE SubscriberInv'
  <2>1. call'[p] = Idle /\ Others(p)
    BY <1>5, OverFacts DEF CancelCall
  <2>2. call'[p].pc = "idle"
    BY <1>5, <2>1, IdleFacts DEF Moved, CancelCall
  <2>3. UNCHANGED table
    BY <1>5 DEF CancelCall
  <2> QED
    BY <2>1, <2>2, <2>3 DEF table, Others, Moved
<1>6. ASSUME NEW p \in Callers, Return(p) PROVE SubscriberInv'
  <2>1. call'[p] = Idle /\ Others(p)
    BY <1>6, OverFacts DEF Return
  <2>2. call'[p].pc = "idle"
    BY <1>6, <2>1, IdleFacts DEF Moved, Return
  <2>3. UNCHANGED table
    BY <1>6 DEF Return
  <2> QED
    BY <2>1, <2>2, <2>3 DEF table, Others, Moved
<1>7. ASSUME NEW p \in Callers, WriteCharacteristic(p) PROVE SubscriberInv'
  <2>1. Others(p)
    BY <1>7, WriteFacts
  <2>2. call'[p].pc = "go"
    BY <1>7, WriteFacts
  <2>3. UNCHANGED table
    BY <1>7 DEF WriteCharacteristic
  <2> QED
    BY <2>1, <2>2, <2>3 DEF table, Others, Moved
<1>8. ASSUME NEW p \in Callers, LockWrite(p) PROVE SubscriberInv'
  <2>1. Moved(p, "locked", call[p].id, call[p].res)
    BY <1>8, MoveFacts DEF LockWrite
  <2>2. call'[p].pc = "locked"
    BY <1>8, <2>1, IdleFacts DEF Moved, LockWrite
  <2>3. UNCHANGED table
    BY <1>8 DEF LockWrite
  <2> QED
    BY <2>1, <2>2, <2>3 DEF table, Others, Moved
<1>9. ASSUME NEW p \in Callers, BeginCharacteristicWrite(p) PROVE SubscriberInv'
  <2>1. \A q \in Callers : q # p => call'[q] = call[q]
    BY <1>9 DEF BeginCharacteristicWrite, CallTypes
  <2>2. call'[p].kind # "descwrite"
    <3>1. CASE call' = [call EXCEPT ![p] = Idle]
      BY <3>1, OverFacts, IdleFacts
    <3>2. CASE call' = [call EXCEPT ![p].pc = "begun"]
      <4>1. Moved(p, "begun", call[p].id, call[p].res)
        BY <3>2, MoveFacts
      <4> QED
        BY <1>9, <4>1 DEF Moved, BeginCharacteristicWrite, CallTypes, IsCall
    <3> QED
      BY <1>9, <3>1, <3>2 DEF BeginCharacteristicWrite
  <2>3. UNCHANGED table
    BY <1>9 DEF BeginCharacteristicWrite
  <2> QED
    BY <2>1, <2>2, <2>3 DEF table
<1>10. ASSUME NEW p \in Callers, CallWrite(p) PROVE SubscriberInv'
  <2>1. \A q \in Callers : q # p => call'[q] = call[q]
    BY <1>10 DEF CallWrite, CallTypes
  <2>2. call'[p].kind # "descwrite"
    <3>1. CASE ~ Accepts(call[p].gen, "write")
      BY <1>10, <3>1, OverFacts, IdleFacts DEF CallWrite
    <3>2. CASE Accepts(call[p].gen, "write")
      <4>1. Moved(p, "wait", nreq', call[p].res)
        BY <1>10, <3>2, MoveFacts DEF CallWrite
      <4> QED
        BY <1>10, <4>1 DEF Moved, CallWrite, CallTypes, IsCall
    <3> QED
      BY <3>1, <3>2
  <2>3. UNCHANGED table
    BY <1>10 DEF CallWrite
  <2> QED
    BY <2>1, <2>2, <2>3 DEF table
<1>11. ASSUME NEW p \in Callers, TakeWriteDone(p) PROVE SubscriberInv'
  <2>1. Moved(p, "done", call[p].id, Head(writeSig).id)
    BY <1>11, MoveFacts DEF TakeWriteDone
  <2>2. call'[p].pc = "done"
    BY <1>11, <2>1, IdleFacts DEF Moved, TakeWriteDone
  <2>3. UNCHANGED table
    BY <1>11 DEF TakeWriteDone
  <2> QED
    BY <2>1, <2>2, <2>3 DEF table, Others, Moved
<1>12. ASSUME NEW p \in Callers, CancelWrite(p) PROVE SubscriberInv'
  <2>1. call'[p] = Idle /\ Others(p)
    BY <1>12, OverFacts DEF CancelWrite
  <2>2. call'[p].pc = "idle"
    BY <1>12, <2>1, IdleFacts DEF Moved, CancelWrite
  <2>3. UNCHANGED table
    BY <1>12 DEF CancelWrite
  <2> QED
    BY <2>1, <2>2, <2>3 DEF table, Others, Moved
<1>13. ASSUME NEW r \in outstanding, NEW ok \in BOOLEAN, OnAnswer(r, ok) PROVE SubscriberInv'
  BY <1>13 DEF OnAnswer, table
<1>14. ASSUME NEW c \in Chars, OnCharacteristicChanged(c) PROVE SubscriberInv'
  <2>1. UNCHANGED <<call, charObjs, renumbered, subscribers>>
    BY <1>14 DEF OnCharacteristicChanged
  <2>2. ~ renumbered => heard' # "other"
    BY <1>14 DEF OnCharacteristicChanged
  <2> QED
    BY <2>1, <2>2
<1> QED
  BY CallFrame, <1>1, <1>2, <1>3, <1>4, <1>5, <1>6, <1>7, <1>8, <1>9, <1>10, <1>11, <1>12, <1>13,
      <1>14 DEF CallStep

-------------------------------------------------------------------------------

ClientInv == LinkTypes /\ LinkOrder /\ CallTypes /\ WriteInv /\ AnswerInv /\ SubscriberInv

(* The inductive invariant holds at first. *)
LEMMA InitInv == Init => ClientInv /\ Reports
<1> SUFFICES ASSUME Init PROVE ClientInv /\ Reports
  OBVIOUS
<1> USE DEF Init
<1>1. LinkTypes /\ LinkOrder /\ Reports
  BY GenFacts DEF LinkTypes, LinkOrder, Reports, Channel, Places
<1>2. CallTypes
  BY IdleFacts DEF CallTypes, Channel
<1>3. \A p \in Callers : call[p].pc = "idle" /\ call[p].kind = "none"
  BY IdleFacts
<1>4. WriteInv
  BY <1>3, JniClientAssumption DEF WriteInv, OwnWrite, Channel, Waits
<1>5. AnswerInv
  BY <1>3 DEF AnswerInv, OwnResult, Waits
<1>6. SubscriberInv
  BY <1>3 DEF SubscriberInv, Waits
<1> QED
  BY <1>1, <1>2, <1>4, <1>5, <1>6 DEF ClientInv

(* Every step keeps the inductive invariant. *)
LEMMA StepInv == ClientInv /\ [Next]_vars => ClientInv'
<1> SUFFICES ASSUME ClientInv, [Next]_vars PROVE ClientInv'
  OBVIOUS
<1> USE DEF ClientInv
<1>1. LinkTypes' /\ LinkOrder'
  BY LinkTypesStep, LinkOrderStep
<1>2. CallTypes' /\ WriteInv'
  BY CallTypesStep, WriteStep
<1>3. AnswerInv'
  BY <1>2, AnswerStep
<1>4. SubscriberInv'
  BY SubscriberStep
<1> QED
  BY <1>1, <1>2, <1>3, <1>4

(* One connection attempt at a time, one write at a time, and whatever is in a
   channel belongs to the operation that waits for it. *)
THEOREM ClientInvariant == Spec => []ClientInv
BY InitInv, StepInv, PTL DEF Spec

(* A write that was answered was answered for itself (OwnWrite), however many
   writes timed out before it and whenever their callbacks come. *)
THEOREM WritesGetTheirOwnAnswers == Spec => []OwnWrite
<1>1. ClientInv => OwnWrite
  BY DEF ClientInv, WriteInv
<1> QED
  BY <1>1, ClientInvariant, PTL

(* Any operation that was neither cancelled nor overlapped returns the answer
   to its own request (OwnResult). *)
THEOREM OperationsGetTheirOwnAnswers == Spec => []OwnResult
<1>1. ClientInv => OwnResult
  BY DEF ClientInv, AnswerInv
<1> QED
  BY <1>1, ClientInvariant, PTL

(* p.gattObj is never a BluetoothGatt that was closed (GattObjUsable). *)
THEOREM GattObjIsUsable == Spec => []GattObjUsable
<1>1. ClientInv => GattObjUsable
  BY DEF ClientInv, LinkTypes, LinkOrder, GattObjUsable
<1> QED
  BY <1>1, ClientInvariant, PTL

(* A notification goes to the subscriber of its own characteristic as long as
   no discovery gave the handles a new meaning (RightSubscriber). *)
THEOREM NotificationsAreHeardByTheirSubscriber == Spec => []RightSubscriber
<1>1. ClientInv => RightSubscriber
  BY DEF ClientInv, SubscriberInv, RightSubscriber
<1> QED
  BY <1>1, ClientInvariant, PTL

-------------------------------------------------------------------------------
(* What is in connStateChanged.  These need that no attempt whose context   *)
(* is cancelled is followed by another one: the stale report it leaves      *)
(* behind is what the run of AlwaysDisconnected finds.                      *)

LinkInv == LinkTypes /\ LinkOrder /\ Reports

(* Reports are taken in the order in which they come. *)
LEMMA LinkInvariant ==
  ASSUME CtxCancel \subseteq {MaxGen}
  PROVE  Spec => []LinkInv
<1>1. Init => LinkInv
  BY InitInv DEF LinkInv, ClientInv
<1>2. LinkInv /\ [Next]_vars => LinkInv'
  BY LinkTypesStep, LinkOrderStep, ReportsStep DEF LinkInv
<1> QED
  BY <1>1, <1>2, PTL DEF Spec

(* The loss of a link that Connect reported is in the channel for the monitor
   (DisconnectSeen), if the link does not go before Connect has seen it. *)
THEOREM DisconnectsAreSeen ==
  ASSUME CtxCancel \subseteq {MaxGen}, EarlyDrop = FALSE
  PROVE  Spec => []DisconnectSeen
<1>1. LinkInv => DisconnectSeen
  BY DEF LinkInv, Reports, Went, DisconnectSeen
<1> QED
  BY <1>1, LinkInvariant, PTL

(* Where Connect and the monitor are, as the application sees it. *)
LEMMA ToldFacts ==
  /\ Told["idle"] = "idle" /\ Told["over"] = "over"
  /\ \A s \in {"called", "waiting", "failing", "closeFailed"} : Told[s] = "asked"
  /\ \A s \in {"connected", "dropping", "closeDropped"} : Told[s] = "connected"
  /\ Linked["none"] = "never" /\ Linked["connecting"] = "never"
  /\ Linked["up"] = "up" /\ Linked["gone"] = "gone" /\ Linked["refused"] = "refused"
BY DEF Told, Linked

(* A change of one attempt is a change of its entry in the views of the
   application and of the radio. *)
LEMMA ViewFacts ==
  ASSUME LinkTypes, NEW g \in Gens
  PROVE  /\ \A s : conn' = [conn EXCEPT ![g] = s] =>
              [h \in Gens |-> Told[conn'[h]]] = [[h \in Gens |-> Told[conn[h]]] EXCEPT ![g] = Told[s]]
         /\ \A s : java' = [java EXCEPT ![g] = s] =>
              [h \in Gens |-> Linked[java'[h]]] = [[h \in Gens |-> Linked[java[h]]] EXCEPT ![g] = Linked[s]]
         /\ \A s : s = Told[conn[g]] =>
              [[h \in Gens |-> Told[conn[h]]] EXCEPT ![g] = s] = [h \in Gens |-> Told[conn[h]]]
         /\ \A s : s = Linked[java[g]] =>
              [[h \in Gens |-> Linked[java[h]]] EXCEPT ![g] = s] = [h \in Gens |-> Linked[java[h]]]
BY DEF LinkTypes

(* Every step is a step of the life of one attempt, or hidden from the application. *)
LEMMA LifeStep ==
  ASSUME LinkInv, [Next]_vars
  PROVE  [Life!LifeNext]_(Life!lifeVars)
<1> USE DEF LinkInv
<1>1. ASSUME NEW g \in Gens, ConnectFails(g) PROVE [Life!LifeNext]_(Life!lifeVars)
  <2>1. Told[conn[g]] = "idle" /\ UNCHANGED <<java, givenUp>> /\ conn' = [conn EXCEPT ![g] = "over"]
    BY ConnectionFrame, <1>1, ToldFacts DEF ConnectFails, MayConnect, link
  <2>2. [h \in Gens |-> Told[conn'[h]]] = [[h \in Gens |-> Told[conn[h]]] EXCEPT ![g] = "over"]
    BY <2>1, ToldFacts DEF LinkTypes
  <2>3. Life!ReportFailed(g)
    BY <2>1, <2>2 DEF Life!ReportFailed, Life!Released
  <2> QED
    BY <2>3 DEF Life!LifeNext
<1>2. ASSUME NEW g \in Gens, Connect(g) PROVE [Life!LifeNext]_(Life!lifeVars)
  <2>1. Told[conn[g]] = "idle" /\ Linked[java[g]] = "never" /\ givenUp' = givenUp
    BY <1>2, ToldFacts DEF Connect, MayConnect, LinkOrder
  <2>2. conn' = [conn EXCEPT ![g] = "called"] /\ java' = [java EXCEPT ![g] = "connecting"]
    BY <1>2 DEF Connect
  <2>3. [h \in Gens |-> Told[conn'[h]]] = [[h \in Gens |-> Told[conn[h]]] EXCEPT ![g] = "asked"]
    BY <2>2, ToldFacts DEF LinkTypes
  <2>4. [h \in Gens |-> Linked[java'[h]]] = [h \in Gens |-> Linked[java[h]]]
    BY <2>1, <2>2, ToldFacts DEF LinkTypes
  <2>5. Life!Ask(g)
    BY <2>1, <2>3, <2>4 DEF Life!Ask
  <2> QED
    BY <2>5 DEF Life!LifeNext
<1>3. ASSUME NEW g \in Gens, StoreGatt(g) PROVE [Life!LifeNext]_(Life!lifeVars)
  <2>1. \E s : conn' = [conn EXCEPT ![g] = s] /\ Told[s] = Told[conn[g]]
    BY <1>3, ToldFacts DEF StoreGatt
  <2>2. UNCHANGED <<java, givenUp>>
    BY <1>3 DEF StoreGatt, link
  <2> QED
    BY <2>1, <2>2, ViewFacts DEF Life!lifeVars
<1>4. ASSUME NEW g \in Gens, TakeConnState(g) PROVE [Life!LifeNext]_(Life!lifeVars)
  <2>1. Told[conn[g]] = "asked" /\ UNCHANGED <<java, givenUp>>
    BY <1>4, ToldFacts DEF TakeConnState
  <2>2. CASE Head(connStateChanged).up
    <3>1. conn' = [conn EXCEPT ![g] = "connected"] /\ Linked[java[g]] \in {"up", "gone"}
      BY <1>4, <2>2, ReportFacts, ToldFacts DEF TakeConnState, Reports, Came, Went
    <3>2. [h \in Gens |-> Told[conn'[h]]] = [[h \in Gens |-> Told[conn[h]]] EXCEPT ![g] = "connected"]
      BY <3>1, ToldFacts DEF LinkTypes
    <3>3. Life!ReportConnected(g)
      BY <2>1, <3>1, <3>2 DEF Life!ReportConnected
    <3> QED
      BY <3>3 DEF Life!LifeNext
  <2>3. CASE ~ Head(connStateChanged).up
    <3>1. conn' = [conn EXCEPT ![g] = "failing"]
      BY <1>4, <2>3 DEF TakeConnState
    <3> QED
      BY <2>1, <3>1, ToldFacts, ViewFacts DEF Life!lifeVars
  <2> QED
    BY <2>2, <2>3
<1>5. ASSUME NEW g \in Gens, MonitorTakes(g) PROVE [Life!LifeNext]_(Life!lifeVars)
  <2>1. \E s : conn' = [conn EXCEPT ![g] = s] /\ Told[s] = Told[conn[g]]
    BY <1>5, ToldFacts DEF MonitorTakes
  <2>2. UNCHANGED <<java, givenUp>>
    BY <1>5 DEF MonitorTakes, link
  <2> QED
    BY <2>1, <2>2, ViewFacts DEF Life!lifeVars
<1>6. ASSUME NEW g \in Gens, ContextDone(g) PROVE [Life!LifeNext]_(Life!lifeVars)
  <2>1. \E s : conn' = [conn EXCEPT ![g] = s] /\ Told[s] = Told[conn[g]] /\ Told[conn[g]] # "idle"
    BY <1>6, ToldFacts DEF ContextDone
  <2>2. java' = java /\ givenUp' = givenUp \cup {g}
    BY <1>6 DEF ContextDone, link
  <2>3. Life!GiveUp(g)
    BY <2>1, <2>2, ViewFacts DEF Life!GiveUp, LinkTypes
  <2> QED
    BY <2>3 DEF Life!LifeNext
<1>7. ASSUME NEW g \in Gens, ForgetGatt(g) PROVE [Life!LifeNext]_(Life!lifeVars)
  <2>1. \E s : conn' = [conn EXCEPT ![g] = s] /\ Told[s] = Told[conn[g]]
    BY <1>7, ToldFacts DEF ForgetGatt
  <2>2. UNCHANGED <<java, givenUp>>
    BY <1>7 DEF ForgetGatt, link
  <2> QED
    BY <2>1, <2>2, ViewFacts DEF Life!lifeVars
<1>8. ASSUME NEW g \in Gens, CloseGatt(g) PROVE [Life!LifeNext]_(Life!lifeVars)
  <2>1. givenUp' = givenUp /\ conn' = [conn EXCEPT ![g] = "over"] /\ java' = [java EXCEPT ![g] = Ended(java[g])]
    BY <1>8 DEF CloseGatt
  <2>2. Life!Released(g)
    <3>1. CASE java[g] = "connecting"
      <4>1. [h \in Gens |-> Linked[java'[h]]] = [[h \in Gens |-> Linked[java[h]]] EXCEPT ![g] = "refused"]
        BY <2>1, <3>1, ToldFacts DEF LinkTypes, Ended
      <4> QED
        BY <3>1, <4>1, ToldFacts DEF Life!Released, Life!Ended
    <3>2. CASE java[g] = "up"
      <4>1. [h \in Gens |-> Linked[java'[h]]] = [[h \in Gens |-> Linked[java[h]]] EXCEPT ![g] = "gone"]
        BY <2>1, <3>2, ToldFacts DEF LinkTypes, Ended
      <4> QED
        BY <3>2, <4>1, ToldFacts DEF Life!Released, Life!Ended
    <3>3. CASE java[g] \notin {"connecting", "up"}
      BY <2>1, <3>3, ViewFacts DEF Life!Released, Ended
    <3> QED
      BY <3>1, <3>2, <3>3
  <2>3. [h \in Gens |-> Told[conn'[h]]] = [[h \in Gens |-> Told[conn[h]]] EXCEPT ![g] = "over"]
    BY <2>1, ToldFacts DEF LinkTypes
  <2>4. CASE conn[g] = "closeFailed"
    <3>1. Life!ReportFailed(g)
      BY <2>1, <2>2, <2>4, <2>3, ToldFacts DEF Life!ReportFailed
    <3> QED
      BY <3>1 DEF Life!LifeNext
  <2>5. CASE conn[g] = "closeDropped"
    <3>1. Linked[java[g]] = "gone" \/ g \in givenUp
      BY <2>5, ToldFacts DEF Reports
    <3>2. Life!ReportDisconnected(g)
      BY <2>1, <2>2, <2>5, <2>3, <3>1, ToldFacts DEF Life!ReportDisconnected
    <3> QED
      BY <3>2 DEF Life!LifeNext
  <2> QED
    BY <1>8, <2>4, <2>5 DEF CloseGatt
<1>9. ASSUME NEW g \in Gens, OnConnected(g) PROVE [Life!LifeNext]_(Life!lifeVars)
  <2>1. conn[g] \in Places \ {"idle", "over"} /\ Linked[java[g]] = "never"
    BY <1>9, ToldFacts DEF OnConnected, LinkOrder, LinkTypes
  <2>2. java' = [java EXCEPT ![g] = "up"] /\ UNCHANGED <<conn, givenUp>>
    BY <1>9 DEF OnConnected, attempt
  <2>3. Told[conn[g]] # "idle"
    BY <2>1, ToldFacts DEF Places
  <2>4. [h \in Gens |-> Linked[java'[h]]] = [[h \in Gens |-> Linked[java[h]]] EXCEPT ![g] = "up"]
    BY <2>2, ToldFacts DEF LinkTypes, Ended
  <2>5. Life!LinkUp(g)
    BY <2>1, <2>2, <2>3, <2>4 DEF Life!LinkUp
  <2> QED
    BY <2>5 DEF Life!LifeNext
<1>10. ASSUME NEW g \in Gens, OnDisconnected(g) PROVE [Life!LifeNext]_(Life!lifeVars)
  <2>1. conn[g] \in Places \ {"idle", "over"} /\ java[g] \in {"connecting", "up"}
    BY <1>10 DEF OnDisconnected, LinkOrder, LinkTypes
  <2>2. java' = [java EXCEPT ![g] = Ended(java[g])] /\ UNCHANGED <<conn, givenUp>>
    BY <1>10 DEF OnDisconnected, attempt
  <2>3. Told[conn[g]] # "idle"
    BY <2>1, ToldFacts DEF Places
  <2>4. Life!LinkEnds(g)
    <3>1. CASE java[g] = "connecting"
      <4>1. [h \in Gens |-> Linked[java'[h]]] = [[h \in Gens |-> Linked[java[h]]] EXCEPT ![g] = "refused"]
        BY <2>2, <3>1, ToldFacts DEF LinkTypes, Ended
      <4> QED
        BY <2>2, <2>3, <3>1, <4>1, ToldFacts DEF Life!LinkEnds, Life!Ended
    <3>2. CASE java[g] = "up"
      <4>1. [h \in Gens |-> Linked[java'[h]]] = [[h \in Gens |-> Linked[java[h]]] EXCEPT ![g] = "gone"]
        BY <2>2, <3>2, ToldFacts DEF LinkTypes, Ended
      <4> QED
        BY <2>2, <2>3, <3>2, <4>1, ToldFacts DEF Life!LinkEnds, Life!Ended
    <3> QED
      BY <2>1, <3>1, <3>2
  <2> QED
    BY <2>4 DEF Life!LifeNext
<1>11. CASE CancelConnection
  <2>1. conn[gattObj] \in Places \ {"idle", "over"} /\ gattObj \in Gens
    BY <1>11 DEF CancelConnection, LinkOrder, LinkTypes, Places
  <2>2. Told[conn[gattObj]] # "idle"
    BY <2>1, ToldFacts DEF Places
  <2>3. givenUp' = givenUp \cup {gattObj} /\ UNCHANGED <<conn, java>>
    BY <1>11 DEF CancelConnection, link
  <2>4. Life!GiveUp(gattObj)
    BY <2>1, <2>2, <2>3 DEF Life!GiveUp
  <2> QED
    BY <2>1, <2>4 DEF Life!LifeNext
<1>12. CASE UNCHANGED <<attempt, link>>
  BY <1>12 DEF Life!lifeVars, attempt, link
<1> QED
  BY ConnectionFrame, <1>1, <1>2, <1>3, <1>4, <1>5, <1>6, <1>7, <1>8, <1>9, <1>10, <1>11, <1>12 DEF Connection

(* Connect and the monitor keep what gatt.Device promises about an attempt
   (KeepsPromise): the detailed specification implements the abstract one. *)
THEOREM PromiseIsKept ==
  ASSUME CtxCancel \subseteq {MaxGen}
  PROVE  Spec => KeepsPromise
<1>1. Init => Life!LifeInit
  BY ToldFacts DEF Init, Life!LifeInit
<1>2. LinkInv /\ [Next]_vars => [Life!LifeNext]_(Life!lifeVars)
  BY LifeStep
<1> QED
  BY <1>1, <1>2, LinkInvariant, PTL DEF Spec, KeepsPromise, Life!LifeSpec
===============================================================================
