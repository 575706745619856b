---------------------------- MODULE AndroidProofs ----------------------------
(***************************************************************************)
(* Proofs about AndroidDevice, for any callers, kinds of operations and    *)
(* stoppers and any number of scans, attempts and requests.                *)
(***************************************************************************)
EXTENDS AndroidDevice, TLAPS

Written == {"write", "descwrite"}
Answer == [id : Nat, by : Callers \cup {NoCaller}]
Request == [id : Nat, kind : Kinds, gen : Gens, by : Callers \cup {NoCaller}]
StateEvent == [kind : {"state"}, up : BOOLEAN]
Report == [gen : Gens, up : BOOLEAN]

\* A channel of capacity one.
Channel(c, Values) == c = <<>> \/ (c = <<Head(c)>> /\ Head(c) \in Values)

-------------------------------------------------------------------------------
(* Scans, until two of them overlap: at most one is under way, and then none *)
(* is recorded.                                                            *)

StopTypes ==
  /\ scan = [s \in BS!Scans |-> scan[s]] /\ stop = [q \in BS!Waiters |-> stop[q]]
  /\ power \in {"new", "failed", "on"} => stop[BS!Device] = 0

BinderScanInv ==
  /\ StopTypes
  /\ running \subseteq BS!Scans
  /\ ~ raced =>
       /\ \A s, t \in BS!Scans : BS!InScan(s) /\ BS!InScan(t) => s = t
       /\ \A s \in BS!Scans : BS!InScan(s) => scanCallback = 0
  /\ BS!ScanOwned

ProxyScanInv ==
  /\ StopTypes
  /\ loop = [s \in PS!Scans |-> loop[s]]
  /\ ~ raced =>
       /\ \A s, t \in PS!Scans : PS!InScan(s) /\ PS!InScan(t) => s = t
       /\ \A s \in PS!Scans : PS!InScan(s) => scanCtxCancel = 0
  /\ PS!ScanOwned

-------------------------------------------------------------------------------
(* Operations.                                                             *)

IsCall(c) ==
  /\ c = [pc |-> c.pc, kind |-> c.kind, gen |-> c.gen, id |-> c.id, res |-> c.res]
  /\ c.pc \in {"idle", "valued", "wait", "populate", "done"}
  /\ c.pc # "idle" => c.kind \in Kinds
  /\ c.pc = "valued" => c.kind \in Written /\ c.gen \in Gens
  /\ c.gen \in {0} \cup Gens

CallTypes ==
  /\ call = [p \in Callers |-> call[p]] /\ \A p \in Callers : IsCall(call[p])
  /\ nreq \in Nat
  /\ outstanding \subseteq Request
  /\ chan = [k \in Kinds |-> chan[k]] /\ \A k \in Kinds : Channel(chan[k], Answer)
  /\ stream \in [Gens -> Seq(StateEvent \cup Request)]
  /\ javaValue \in [Written -> Callers \cup {NoCaller}]
  /\ handle \in {0} \cup Gens

Uses(p, k) == call[p].pc # "idle" /\ call[p].kind = k
Awaited(a, k) == \E p \in Callers : call[p].pc = "wait" /\ Uses(p, k) /\ call[p].id = a.id /\ a.by = p
Carries(g, i, k) == i \in DOMAIN stream[g] /\ stream[g][i].kind = k

\* Operations of kind k, while none of them was cancelled or overlapped another:
\* there is at most one, and its request is with the stack, or its answer on the
\* stream, or in the channel.
KindInv(k) ==
  /\ \A p, q \in Callers : Uses(p, k) /\ Uses(q, k) => p = q
  /\ \A r \in outstanding : r.kind = k =>
       /\ Awaited(r, k) /\ chan[k] = <<>>
       /\ \A s \in outstanding : s.kind = k => s = r
       /\ \A g \in Gens : \A i \in Nat : ~ Carries(g, i, k)
  /\ \A g \in Gens : \A i \in Nat : Carries(g, i, k) =>
       /\ Awaited(stream[g][i], k) /\ chan[k] = <<>>
       /\ \A h \in Gens : \A j \in Nat : Carries(h, j, k) => h = g /\ j = i
  /\ chan[k] # <<>> => Awaited(Head(chan[k]), k)
  /\ \A p \in Callers : Uses(p, k) =>
       /\ call[p].pc = "valued" => javaValue[k] = p
       /\ call[p].pc \in {"populate", "done"} => call[p].res = [id |-> call[p].id, by |-> p]

AnswerInv == \A k \in Kinds \ mixed : KindInv(k)

-------------------------------------------------------------------------------
(* Connections.                                                            *)

LinkTypes ==
  /\ java \in [Gens -> {"none", "connecting", "up", "gone", "refused"}]
  /\ givenUp \subseteq Gens
  /\ Channel(connStateChanged, Report)

LinkOrder ==
  /\ \A g, h \in Gens : h < g /\ conn[g] # "idle" => conn[h] = "over"
  /\ \A g \in Gens : conn[g] = "idle" => java[g] = "none"
  /\ handle # 0 => conn[handle] # "idle"

Came(g) == connStateChanged = <<[gen |-> g, up |-> TRUE]>>
Went(g) == connStateChanged = <<[gen |-> g, up |-> FALSE]>>
Quiet == connStateChanged = <<>>

\* What an attempt leaves behind.
OverInv ==
  /\ \A g \in Gens \ CanCancel : conn[g] = "over" => java[g] \in {"none", "gone", "refused"}
  /\ (\A g \in Gens : conn[g] \in {"idle", "over"} /\ (g \in CanCancel => conn[g] = "idle")) => Quiet

BinderPlaces == {"idle", "registering", "stored", "waiting", "connected", "dropping", "over"}
BinderTypes == conn \in [Gens -> BinderPlaces] /\ service \in {0, 1, B!LastService}
BinderReports ==
  /\ BinderTypes
  /\ \A g \in Gens : conn[g] \in {"registering", "stored"} => java[g] = "none" /\ Quiet
  /\ \A g \in Gens : conn[g] = "waiting" =>
       \/ java[g] = "connecting" /\ Quiet
       \/ java[g] = "up" /\ Came(g)
       \/ java[g] = "gone" /\ Came(g) /\ service # 1
       \/ java[g] = "refused" /\ Went(g)
       \/ java[g] = "refused" /\ Quiet /\ service # 1
  /\ \A g \in Gens : conn[g] = "connected" =>
       \/ java[g] = "up" /\ Quiet
       \/ java[g] = "gone" /\ Went(g)
       \/ java[g] = "gone" /\ Quiet /\ service # 1
  /\ \A g \in Gens : conn[g] = "dropping" =>
       \/ java[g] = "gone" /\ Quiet
       \/ g \in CanCancel /\ g \in givenUp

ProxyPlaces == {"idle", "called", "waiting", "failing", "connected", "dropping", "abandoning", "closing", "over"}
NoState(s) == \A i \in DOMAIN s : s[i].kind # "state"
OneState(s, u) ==
  \E i \in DOMAIN s : s[i].kind = "state" /\ s[i].up = u /\ \A j \in DOMAIN s : s[j].kind = "state" => j = i

\* A report is in the stream, in the channel, or lost.
InStream(g, u) == Quiet /\ OneState(stream[g], u)
InChannel(g, u) == connStateChanged = <<[gen |-> g, up |-> u]>> /\ NoState(stream[g])
Nowhere(g) == Quiet /\ NoState(stream[g])
OnTheWay(g, u) == InStream(g, u) \/ InChannel(g, u) \/ (Nowhere(g) /\ g \in deaf)

ProxyTypes == conn \in [Gens -> ProxyPlaces]
ProxyPlace(g) ==
  /\ conn[g] = "idle" \/ (conn[g] = "over" /\ g \notin CanCancel) => NoState(stream[g])
  /\ conn[g] \in {"called", "waiting"} =>
       \/ java[g] = "connecting" /\ Nowhere(g)
       \/ java[g] = "up" /\ OnTheWay(g, TRUE)
       \/ java[g] = "refused" /\ OnTheWay(g, FALSE)
  /\ conn[g] = "connected" =>
       \/ java[g] = "up" /\ Nowhere(g)
       \/ java[g] = "gone" /\ OnTheWay(g, FALSE)
  /\ conn[g] = "failing" => java[g] = "refused" /\ Nowhere(g)
  /\ conn[g] \in {"dropping", "closing"} => java[g] = "gone" /\ Nowhere(g)
  /\ conn[g] = "abandoning" => g \in CanCancel /\ g \in givenUp
ProxyReports == ProxyTypes /\ \A g \in Gens : ProxyPlace(g)

-------------------------------------------------------------------------------
(* Proofs: scans                                                           *)

(* The scans and the callers of StopScanning are those of either backend. *)
LEMMA ScanFacts ==
  /\ BS!Device = 0 /\ PS!Device = 0 /\ 0 \notin BS!Scans /\ 0 \notin Stoppers
  /\ PS!Scans = BS!Scans /\ PS!Waiters = BS!Waiters
  /\ \A q : q \in BS!Waiters <=> q \in Stoppers \/ q \in BS!Scans \/ q = 0
BY AndroidAssumption DEF BS!Device, PS!Device, BS!Scans, PS!Scans, BS!Waiters, PS!Waiters

(* A scan over Binder that runs can be stopped. *)
LEMMA BinderScanStep ==
  ASSUME BinderScanInv, BS!Next
  PROVE  BinderScanInv'
<1> USE ScanFacts DEF BinderScanInv, StopTypes, BS!ScanOwned, BS!InScan
<1>1. CASE BS!Start
  BY <1>1 DEF BS!Start
<1>2. CASE BS!Stop
  BY <1>2 DEF BS!Stop, BS!TakeScan
<1>3. CASE BS!CloseDriver
  BY <1>3 DEF BS!CloseDriver
<1>4. ASSUME NEW s \in BS!Scans, BS!ScanCheck(s) PROVE BinderScanInv'
  BY <1>4 DEF BS!ScanCheck
<1>5. ASSUME NEW s \in BS!Scans, BS!ScanFails(s) PROVE BinderScanInv'
  BY <1>5 DEF BS!ScanFails
<1>6. ASSUME NEW s \in BS!Scans, BS!RegisterScanner(s) PROVE BinderScanInv'
  BY <1>6 DEF BS!RegisterScanner
<1>7. ASSUME NEW s \in BS!Scans, BS!OnScannerRegistered(s) PROVE BinderScanInv'
  BY <1>7 DEF BS!OnScannerRegistered
<1>8. ASSUME NEW s \in BS!Scans, BS!StartScan(s) PROVE BinderScanInv'
  BY <1>8 DEF BS!StartScan
<1>9. ASSUME NEW s \in BS!Scans, BS!RecordScan(s) PROVE BinderScanInv'
  BY <1>9 DEF BS!RecordScan
<1>10. ASSUME NEW s \in BS!Scans, BS!OnScanResult(s) PROVE BinderScanInv'
  BY <1>10 DEF BS!OnScanResult
<1>11. ASSUME NEW q \in Stoppers \cup running, BS!StopScanning(q) PROVE BinderScanInv'
  BY <1>11 DEF BS!StopScanning, BS!TakeScan
<1>12. ASSUME NEW q \in BS!Waiters, BS!StopScan(q) PROVE BinderScanInv'
  BY <1>12 DEF BS!StopScan
<1> QED
  BY <1>1, <1>2, <1>3, <1>4, <1>5, <1>6, <1>7, <1>8, <1>9, <1>10, <1>11, <1>12 DEF BS!Next

(* A goroutine of a scan over the proxy that may report is waited for or recorded. *)
LEMMA ProxyScanStep ==
  ASSUME ProxyScanInv, PS!Next
  PROVE  ProxyScanInv'
<1> USE ScanFacts DEF ProxyScanInv, StopTypes, PS!ScanOwned, PS!InScan
<1>1. CASE PS!Start
  BY <1>1 DEF PS!Start
<1>2. CASE PS!Stop
  BY <1>2 DEF PS!Stop, PS!TakeScan
<1>3. CASE PS!ReleaseHandles
  BY <1>3 DEF PS!ReleaseHandles
<1>4. ASSUME NEW s \in PS!Scans, PS!ScanCheck(s) PROVE ProxyScanInv'
  <2>1. StopTypes' /\ loop' = [t \in PS!Scans |-> loop'[t]] /\ PS!ScanOwned'
    BY <1>4 DEF PS!ScanCheck
  <2>2. ~ raced' => ~ raced /\ \A t \in PS!Scans : PS!InScan(t)' => t = s
    BY <1>4 DEF PS!ScanCheck
  <2>3. scanCtxCancel' = 0
    BY <1>4 DEF PS!ScanCheck
  <2> QED
    BY <2>1, <2>2, <2>3
<1>5. ASSUME NEW s \in PS!Scans, PS!ScanFails(s) PROVE ProxyScanInv'
  BY <1>5 DEF PS!ScanFails
<1>6. ASSUME NEW s \in PS!Scans, PS!StartScan(s) PROVE ProxyScanInv'
  BY <1>6 DEF PS!StartScan
<1>7. ASSUME NEW s \in PS!Scans, PS!RecordScan(s) PROVE ProxyScanInv'
  <2>1. StopTypes' /\ loop' = [t \in PS!Scans |-> loop'[t]]
    BY <1>7 DEF PS!RecordScan
  <2>2. raced' = raced /\ \A t \in PS!Scans : PS!InScan(t)' => t # s /\ PS!InScan(t)
    BY <1>7 DEF PS!RecordScan
  <2>3. ~ raced => scanCtxCancel = 0 /\ \A t \in PS!Scans : ~ PS!InScan(t)'
    BY <1>7, <2>2 DEF PS!RecordScan
  <2>4. PS!ScanOwned'
    BY <1>7, <2>3 DEF PS!RecordScan
  <2> QED
    BY <2>1, <2>2, <2>3, <2>4
<1>8. ASSUME NEW s \in PS!Scans, PS!ProxyScanStep(s) PROVE ProxyScanInv'
  <2>1. CASE PS!HandlerReturns(s)
    BY <2>1 DEF PS!HandlerReturns
  <2>2. CASE PS!HandlerStops(s)
    BY <2>2 DEF PS!HandlerStops, PS!TakeScan
  <2>3. CASE PS!StreamEnds(s)
    BY <2>3 DEF PS!StreamEnds
  <2>4. ASSUME NEW dup \in BOOLEAN, PS!HandleOnScanResult(s, dup) PROVE ProxyScanInv'
    BY <2>4 DEF PS!HandleOnScanResult
  <2> QED
    BY <1>8, <2>1, <2>2, <2>3, <2>4 DEF PS!ProxyScanStep
<1>9. ASSUME NEW q \in Stoppers, PS!StopScanning(q) PROVE ProxyScanInv'
  BY <1>9 DEF PS!StopScanning, PS!TakeScan
<1>10. ASSUME NEW q \in PS!Waiters, PS!StopReturns(q) PROVE ProxyScanInv'
  BY <1>10 DEF PS!StopReturns
<1> QED
  BY <1>1, <1>2, <1>3, <1>4, <1>5, <1>6, <1>7, <1>8, <1>9, <1>10 DEF PS!Next

\* The invariant of the scans.
ScanInv == backend \in Backends /\ (IF backend = "binder" THEN BinderScanInv ELSE ProxyScanInv)

(* Every step keeps the scans in hand. *)
LEMMA ScanStep == ScanInv /\ [Next]_vars => ScanInv'
<1> SUFFICES ASSUME ScanInv, [Next]_vars PROVE ScanInv'
  OBVIOUS
<1>1. backend' = backend
  BY DEF Next, vars
<1>2. CASE UNCHANGED <<scanning, binderScan, proxyScan>>
  BY <1>1, <1>2 DEF ScanInv, BinderScanInv, ProxyScanInv, StopTypes, BS!ScanOwned, PS!ScanOwned, BS!InScan,
     PS!InScan, scanning, binderScan, proxyScan
<1>3. CASE backend = "binder" /\ BS!Next
  BY <1>1, <1>3, BinderScanStep DEF ScanInv
<1>4. CASE backend = "jniproxy" /\ PS!Next
  BY <1>1, <1>4, ProxyScanStep DEF ScanInv
<1> QED
  BY <1>2, <1>3, <1>4 DEF Next, vars

(* A scan that goes on is recorded in the device, about to be, or being stopped
   (ScanOwned), as long as no two Scans overlapped. *)
THEOREM ScansAreOwned == Spec => []ScanOwned
<1>1. Init => ScanInv
  <2> SUFFICES ASSUME Init PROVE ScanInv
    OBVIOUS
  <2>1. StopTypes /\ backend \in Backends
    BY DEF Init, NewDevice, BS!Init, StopTypes, BS!Device, BS!Waiters
  <2>2. BinderScanInv
    BY <2>1 DEF Init, BS!Init, BinderScanInv, BS!ScanOwned, BS!InScan
  <2>3. ProxyScanInv
    BY <2>1 DEF Init, PS!Init, ProxyScanInv, PS!ScanOwned, PS!InScan
  <2> QED
    BY <2>1, <2>2, <2>3 DEF ScanInv
<1>2. ScanInv => ScanOwned
  BY DEF ScanInv, ScanOwned, BinderScanInv, ProxyScanInv
<1> QED
  BY <1>1, <1>2, ScanStep, PTL DEF Spec

-------------------------------------------------------------------------------
(* Proofs: operations.  The steps of both backends, as they are seen by the *)
(* calls, the stream and the channels of the answers.                      *)

\* Changes of state enter and leave the streams.
StateMoves ==
  \/ stream' = stream
  \/ \E g \in Gens : \E e \in StateEvent : stream' = [stream EXCEPT ![g] = Append(@, e)]
  \/ \E g \in Gens : /\ stream[g] # <<>> /\ Head(stream[g]).kind = "state"
                     /\ stream' = [stream EXCEPT ![g] = Tail(@)]
LinkOnly ==
  /\ UNCHANGED <<nreq, chan, call, mixed, javaValue>>
  /\ outstanding' \subseteq outstanding /\ StateMoves

Starts(p) ==
  /\ call[p].pc = "idle"
  /\ \E k \in Kinds : \E g \in {0} \cup Gens : Send(p, k, g, p)
  /\ UNCHANGED <<chan, stream, javaValue>>
Writes(p) ==
  /\ call[p].pc = "valued"
  /\ Send(p, call[p].kind, call[p].gen, javaValue[call[p].kind])
  /\ UNCHANGED <<chan, stream, javaValue>>
WritesOnly(p) ==
  /\ call[p].pc = "valued" /\ call[p].kind = "write"
  /\ nreq' = nreq + 1
  /\ outstanding' = outstanding \cup {[id |-> nreq', kind |-> "write", gen |-> call[p].gen,
                                       by |-> javaValue["write"]]}
  /\ mixed' = mixed \cup {"write"}
  /\ call' = [call EXCEPT ![p] = Idle]
  /\ UNCHANGED <<chan, stream, javaValue>>
Drops(p) ==
  /\ call[p].pc \in {"valued", "done"}
  /\ call' = [call EXCEPT ![p] = Idle]
  /\ UNCHANGED <<outstanding, nreq, mixed, chan, stream, javaValue>>
Takes(p) ==
  /\ \E next \in {"populate", "done"} : TakeAnswer(p, next)
  /\ UNCHANGED <<stream, javaValue>>
Cancels(p) == CancelCall(p) /\ UNCHANGED <<stream, javaValue>>
Fills(p) ==
  /\ call[p].pc = "populate"
  /\ call' = [call EXCEPT ![p].pc = "done"]
  /\ UNCHANGED <<outstanding, nreq, mixed, chan, stream, javaValue>>
SetsValue(p, k) ==
  /\ call[p].pc = "idle" /\ handle \in Gens
  /\ javaValue' = [javaValue EXCEPT ![k] = p]
  /\ call' = [call EXCEPT ![p] = [Idle EXCEPT !.pc = "valued", !.kind = k, !.gen = handle]]
  /\ mixed' = IF Overlaps(p, k) THEN mixed \cup {k} ELSE mixed
  /\ UNCHANGED <<outstanding, nreq, chan, stream>>

CallStep(p) ==
  \/ Starts(p) \/ Writes(p) \/ WritesOnly(p) \/ Drops(p) \/ Takes(p) \/ Cancels(p) \/ Fills(p)
  \/ \E k \in Kinds \cap Written : SetsValue(p, k)

\* An answer enters the channel, the stream, or the channel from the stream.
Answers(r) ==
  /\ outstanding' = outstanding \ {r}
  /\ chan' = [chan EXCEPT ![r.kind] = Offer(@, Answered(r))]
  /\ UNCHANGED <<nreq, call, mixed, stream, javaValue>>
Streams(r) ==
  /\ outstanding' = outstanding \ {r}
  /\ stream' = [stream EXCEPT ![r.gen] = Append(@, r)]
  /\ UNCHANGED <<nreq, call, mixed, chan, javaValue>>
Reads(g) ==
  /\ stream[g] # <<>> /\ Head(stream[g]).kind # "state"
  /\ stream' = [stream EXCEPT ![g] = Tail(@)]
  /\ chan' = [chan EXCEPT ![Head(stream[g]).kind] = Offer(@, Answered(Head(stream[g])))]
  /\ UNCHANGED <<outstanding, nreq, call, mixed, javaValue>>

CallsStep ==
  \/ LinkOnly
  \/ \E p \in Callers : CallStep(p)
  \/ \E r \in outstanding : Answers(r) \/ Streams(r)
  \/ \E g \in Gens : Reads(g)

(* The numbers of the attempts. *)
LEMMA GenFacts ==
  /\ Gens \subseteq Nat \ {0} /\ MaxGen \in Gens /\ \A g \in Gens : g <= MaxGen
  /\ B!Gens = Gens /\ P!Gens = Gens
BY AndroidAssumption DEF Gens, B!Gens, P!Gens

(* What both backends take from GattCalls is the same. *)
LEMMA SameCalls ==
  /\ \A p, k, g, v : (B!Send(p, k, g, v) <=> Send(p, k, g, v)) /\ (P!Send(p, k, g, v) <=> Send(p, k, g, v))
  /\ \A p, n : (B!TakeAnswer(p, n) <=> TakeAnswer(p, n)) /\ (P!TakeAnswer(p, n) <=> TakeAnswer(p, n))
  /\ \A p : (B!CancelCall(p) <=> CancelCall(p)) /\ (P!CancelCall(p) <=> CancelCall(p))
  /\ \A p : (B!Return(p) <=> Return(p)) /\ (P!Return(p) <=> Return(p))
  /\ \A c, v : B!Offer(c, v) = Offer(c, v) /\ P!Offer(c, v) = Offer(c, v)
  /\ \A r : B!Answered(r) = Answered(r) /\ P!Answered(r) = Answered(r)
  /\ \A p, k : P!Overlaps(p, k) <=> Overlaps(p, k)
  /\ P!Idle = Idle
BY DEF B!Send, P!Send, Send, B!Overlaps, P!Overlaps, Overlaps, B!Idle, P!Idle, Idle, B!Nothing, P!Nothing, Nothing,
   B!NoCaller, P!NoCaller, NoCaller, B!TakeAnswer, P!TakeAnswer, TakeAnswer, B!CancelCall, P!CancelCall, CancelCall,
   B!Return, P!Return, Return, B!Offer, P!Offer, Offer, B!Answered, P!Answered, Answered

(* The steps over Binder. *)
LEMMA BinderFrame ==
  ASSUME CallTypes, B!Next, UNCHANGED proxyOnly
  PROVE  CallsStep
<1> USE DEF proxyOnly, B!binderVars, B!attempt, B!binder, B!register, B!calls
<1>1. CASE B!OnBluetoothServiceDown
  BY <1>1 DEF B!OnBluetoothServiceDown, CallsStep, LinkOnly, StateMoves
<1>2. CASE B!OnBluetoothServiceUp
  BY <1>2 DEF B!OnBluetoothServiceUp, CallsStep, LinkOnly, StateMoves
<1>3. ASSUME NEW g \in Gens, B!Connection(g) PROVE CallsStep
  <2>1. LinkOnly
    BY <1>3 DEF B!Connection, B!ConnectFails, B!RegisterClient, B!TakeRegistered, B!OnClientRegistered,
       B!ClientConnect, B!TakeConnState, B!MonitorTakes, B!ContextDone, B!DropLink, B!OnConnected, B!OnDisconnected,
       LinkOnly, StateMoves
  <2> QED
    BY <2>1 DEF CallsStep
<1>4. CASE B!CancelConnection
  BY <1>4 DEF B!CancelConnection, CallsStep, LinkOnly, StateMoves
<1>5. ASSUME NEW p \in Callers, B!Operation(p) PROVE CallsStep
  <2>1. ASSUME NEW k \in Kinds, B!Begin(p, k) PROVE Starts(p)
    <3>1. B!UpLink \in {0} \cup Gens
      BY GenFacts DEF B!UpLink
    <3>2. Send(p, k, B!UpLink, p) /\ call[p].pc = "idle" /\ UNCHANGED <<chan, stream, javaValue>>
      BY <2>1, SameCalls DEF B!Begin
    <3> QED
      BY <3>1, <3>2 DEF Starts
  <2>2. CASE B!EndOfCall(p)
    <3>1. TakeAnswer(p, "done") \/ CancelCall(p) \/ Return(p)
      BY <2>2, SameCalls DEF B!EndOfCall
    <3> QED
      BY <3>1 DEF Takes, Cancels, Drops, Return, CallStep, CallsStep
  <2> QED
    BY <1>5, <2>1, <2>2 DEF B!Operation, B!AskStack, B!UseCharacteristic, B!UseDescriptor, CallStep, CallsStep
<1>6. ASSUME NEW r \in outstanding, B!OnAnswer(r) PROVE CallsStep
  <2>1. Answers(r)
    BY <1>6, SameCalls DEF B!OnAnswer, Answers
  <2> QED
    BY <2>1 DEF CallsStep
<1> QED
  BY <1>1, <1>2, <1>3, <1>4, <1>5, <1>6, GenFacts DEF B!Next

(* The steps over a proxy. *)
LEMMA ProxyFrame ==
  ASSUME CallTypes, P!Next
  PROVE  CallsStep
<1> USE DEF P!proxyVars, P!attempt, P!pipe, P!link, P!objects, P!calls
<1>1. ASSUME NEW g \in Gens, P!Connection(g) PROVE CallsStep
  <2>1. CASE P!OnConnected(g)
    <3>1. [kind |-> "state", up |-> TRUE] \in StateEvent
      BY DEF StateEvent
    <3> QED
      BY <2>1, <3>1 DEF P!OnConnected, CallsStep, LinkOnly, StateMoves
  <2>2. CASE P!OnDisconnected(g)
    <3>1. [kind |-> "state", up |-> FALSE] \in StateEvent
      BY DEF StateEvent
    <3> QED
      BY <2>2, <3>1 DEF P!OnDisconnected, CallsStep, LinkOnly, StateMoves
  <2>3. CASE P!HandleState(g) \/ P!LoseState(g)
    BY <2>3 DEF P!HandleState, P!LoseState, P!Reading, P!Read, CallsStep, LinkOnly, StateMoves
  <2>4. CASE P!HandleAnswer(g)
    <3>1. Reads(g)
      BY <2>4, SameCalls DEF P!HandleAnswer, P!Reading, P!Read, Reads
    <3> QED
      BY <3>1 DEF CallsStep
  <2>5. CASE P!StreamEnds(g)
    BY <2>5 DEF P!StreamEnds, CallsStep, LinkOnly, StateMoves
  <2>6. CASE P!CloseGatt(g)
    BY <2>6 DEF P!CloseGatt, CallsStep, LinkOnly, StateMoves
  <2>7. CASE \/ P!ConnectFails(g) \/ P!Connect(g) \/ P!StoreGatt(g) \/ P!TakeConnState(g) \/ P!ForgetFailed(g)
             \/ P!MonitorTakes(g) \/ P!ContextDone(g) \/ P!ForgetGatt(g) \/ P!Abandon(g)
    BY <2>7 DEF P!ConnectFails, P!Connect, P!StoreGatt, P!TakeConnState, P!ForgetFailed, P!MonitorTakes,
       P!ContextDone, P!ForgetGatt, P!Abandon, CallsStep, LinkOnly, StateMoves
  <2> QED
    BY <1>1, <2>1, <2>2, <2>3, <2>4, <2>5, <2>6, <2>7 DEF P!Connection
<1>2. CASE P!CancelConnection
  BY <1>2 DEF P!CancelConnection, CallsStep, LinkOnly, StateMoves
<1>3. ASSUME NEW p \in Callers, P!Operation(p) PROVE CallsStep
  <2>1. ASSUME NEW k \in Kinds, P!Begin(p, k) PROVE CallsStep
    <3>1. Send(p, k, handle, p) /\ call[p].pc = "idle" /\ handle \in Gens /\ UNCHANGED <<chan, stream, javaValue>>
      BY <2>1, SameCalls DEF P!Begin, CallTypes
    <3> QED
      BY <3>1 DEF Starts, CallStep, CallsStep
  <2>2. CASE P!EndOfCall(p)
    <3>1. TakeAnswer(p, "done") \/ CancelCall(p) \/ Return(p)
      BY <2>2, SameCalls DEF P!EndOfCall
    <3>2. UNCHANGED <<stream, javaValue>>
      BY <2>2 DEF P!EndOfCall
    <3> QED
      BY <3>1, <3>2 DEF Takes, Cancels, Drops, Return, CallStep, CallsStep
  <2>3. ASSUME NEW k \in Kinds \cap P!Written, P!SetValue(p, k) PROVE CallsStep
    <3>1. SetsValue(p, k) /\ k \in Kinds \cap Written
      BY <2>3, SameCalls DEF P!SetValue, SetsValue, CallTypes, P!Written, Written
    <3> QED
      BY <3>1 DEF CallStep, CallsStep
  <2>4. CASE P!CallWrite(p)
    <3>1. Writes(p) \/ Drops(p)
      BY <2>4, SameCalls DEF P!CallWrite, Writes, Drops
    <3> QED
      BY <3>1 DEF CallStep, CallsStep
  <2>5. CASE P!CallWriteNoResp(p)
    <3>1. WritesOnly(p)
      BY <2>5, SameCalls DEF P!CallWriteNoResp, WritesOnly
    <3> QED
      BY <3>1 DEF CallStep, CallsStep
  <2>6. CASE P!Populate(p)
    <3>1. Takes(p)
      BY <2>6, SameCalls DEF P!Populate, Takes
    <3> QED
      BY <3>1 DEF CallStep, CallsStep
  <2>7. CASE P!Populated(p)
    <3>1. Fills(p)
      BY <2>7 DEF P!Populated, Fills
    <3> QED
      BY <3>1 DEF CallStep, CallsStep
  <2>8. CASE P!AskStack(p) \/ P!ReadObject(p)
    BY <2>1, <2>8 DEF P!AskStack, P!ReadObject
  <2> QED
    BY <1>3, <2>2, <2>3, <2>4, <2>5, <2>6, <2>7, <2>8 DEF P!Operation
<1>4. ASSUME NEW r \in outstanding, P!OnAnswer(r) PROVE CallsStep
  <2>1. Streams(r)
    BY <1>4 DEF P!OnAnswer, Streams
  <2> QED
    BY <2>1 DEF CallsStep
<1> QED
  BY <1>1, <1>2, <1>3, <1>4, GenFacts DEF P!Next

(* Every step is one of those. *)
LEMMA CallsFrame ==
  ASSUME CallTypes, [Next]_vars
  PROVE  CallsStep
<1>1. CASE UNCHANGED <<common, proxyOnly>>
  BY <1>1 DEF common, proxyOnly, calls, CallsStep, LinkOnly, StateMoves
<1> QED
  BY <1>1, BinderFrame, ProxyFrame DEF Next, vars

\* The other callers stay where they are.
Others(p) == call' = [q \in Callers |-> call'[q]] /\ \A q \in Callers : q # p => call'[q] = call[q]
Called(pc, kind, gen, id, res) == [pc |-> pc, kind |-> kind, gen |-> gen, id |-> id, res |-> res]

(* What becomes of the call that moves, and of the others. *)
LEMMA MoveFacts ==
  ASSUME CallTypes, NEW p \in Callers
  PROVE  /\ \A c : call' = [call EXCEPT ![p] = c] => Others(p) /\ call'[p] = c
         /\ \A pc : call' = [call EXCEPT ![p].pc = pc] =>
              Others(p) /\ call'[p] = Called(pc, call[p].kind, call[p].gen, call[p].id, call[p].res)
<1>1. call = [q \in Callers |-> call[q]] /\ IsCall(call[p])
  BY DEF CallTypes
<1>2. ASSUME NEW c, call' = [call EXCEPT ![p] = c] PROVE Others(p) /\ call'[p] = c
  BY <1>1, <1>2 DEF Others
<1>3. ASSUME NEW pc, call' = [call EXCEPT ![p].pc = pc]
      PROVE  Others(p) /\ call'[p] = Called(pc, call[p].kind, call[p].gen, call[p].id, call[p].res)
  BY <1>1, <1>3 DEF Others, IsCall, Called
<1> QED
  BY <1>2, <1>3

(* What a request adds. *)
LEMMA SendFacts ==
  ASSUME CallTypes, NEW p \in Callers, NEW k \in Kinds, NEW g \in {0} \cup Gens, NEW v \in Callers \cup {NoCaller},
         Send(p, k, g, v)
  PROVE  /\ Others(p) /\ call'[p] = Called("wait", k, g, nreq + 1, Nothing) /\ nreq' = nreq + 1
         /\ [id |-> nreq + 1, kind |-> k, gen |-> g, by |-> v] \in Request \/ g = 0
         /\ \A r \in outstanding' : r \in outstanding \/ (r = [id |-> nreq + 1, kind |-> k, gen |-> g, by |-> v] /\ g # 0)
         /\ mixed \subseteq mixed' /\ (k \notin mixed' => ~ Overlaps(p, k)) /\ mixed' \subseteq mixed \cup {k}
<1>1. nreq' = nreq + 1 /\ nreq + 1 \in Nat
  BY DEF Send, CallTypes
<1>2. Others(p) /\ call'[p] = Called("wait", k, g, nreq + 1, Nothing)
  <2>1. call = [q \in Callers |-> call[q]]
    BY DEF CallTypes
  <2> QED
    BY <1>1, <2>1 DEF Send, Idle, Called, Others
<1>3. [id |-> nreq + 1, kind |-> k, gen |-> g, by |-> v] \in Request \/ g = 0
  BY <1>1 DEF Request
<1>4. \A r \in outstanding' : r \in outstanding \/ (r = [id |-> nreq + 1, kind |-> k, gen |-> g, by |-> v] /\ g # 0)
  BY <1>1 DEF Send
<1>5. mixed \subseteq mixed' /\ (k \notin mixed' => ~ Overlaps(p, k)) /\ mixed' \subseteq mixed \cup {k}
  BY DEF Send
<1> QED
  BY <1>1, <1>2, <1>3, <1>4, <1>5

(* What a write begins with. *)
LEMMA ValueFacts ==
  ASSUME CallTypes, NEW p \in Callers, NEW k \in Kinds, SetsValue(p, k)
  PROVE  Others(p) /\ call'[p] = Called("valued", k, handle, 0, Nothing)
<1>1. call = [q \in Callers |-> call[q]]
  BY DEF CallTypes
<1> QED
  BY <1>1 DEF SetsValue, Idle, Called, Others

(* What an operation takes. *)
LEMMA TakeFacts ==
  ASSUME CallTypes, NEW p \in Callers, NEW next, TakeAnswer(p, next)
  PROVE  Others(p) /\ call'[p] = Called(next, call[p].kind, call[p].gen, call[p].id, Head(chan[call[p].kind]))
<1>1. call' = [call EXCEPT ![p].pc = next, ![p].res = Head(chan[call[p].kind])]
  BY DEF TakeAnswer
<1>2. call = [q \in Callers |-> call[q]] /\ IsCall(call[p])
  BY DEF CallTypes
<1> QED
  BY <1>1, <1>2 DEF Others, IsCall, Called

(* What an operation leaves when it returns. *)
LEMMA IdleFacts == IsCall(Idle) /\ Idle.pc = "idle"
BY DEF IsCall, Idle

(* An answer finds its channel empty or full. *)
LEMMA OfferFacts ==
  ASSUME NEW c, NEW S, NEW a \in S, Channel(c, S)
  PROVE  /\ Channel(Offer(c, a), S)
         /\ c = <<>> => Offer(c, a) = <<a>> /\ Head(Offer(c, a)) = a
         /\ c # <<>> => Offer(c, a) = c
<1>1. CASE c = <<>>
  BY <1>1 DEF Channel, Offer
<1>2. CASE c # <<>>
  BY <1>2 DEF Channel, Offer
<1> QED
  BY <1>1, <1>2

(* A channel whose value was taken is empty. *)
LEMMA EmptiedChannel ==
  ASSUME NEW c, NEW S, Channel(c, S), c # <<>>
  PROVE  Tail(c) = <<>> /\ Head(c) \in S
<1>1. \A x : Tail(<<x>>) = <<>>
  OBVIOUS
<1> QED
  BY <1>1 DEF Channel

(* Requests carry a kind, events of the stream too. *)
LEMMA EventFacts ==
  /\ "state" \notin Kinds
  /\ \A r \in Request : r.id \in Nat /\ r.kind \in Kinds /\ r.gen \in Gens /\ r.by \in Callers \cup {NoCaller}
                        /\ Answered(r) \in Answer /\ Answered(r).id = r.id /\ Answered(r).by = r.by
  /\ \A e \in StateEvent : e.kind = "state"
BY AndroidAssumption DEF Request, StateEvent, Answered, Answer

(* Calls, requests and answers keep their types. *)
LEMMA CallTypesStep ==
  ASSUME CallTypes, handle' \in {0} \cup Gens, [Next]_vars
  PROVE  CallTypes'
<1>1. CASE LinkOnly
  <2>1. stream' \in [Gens -> Seq(StateEvent \cup Request)]
    <3>1. ASSUME NEW g \in Gens, NEW e \in StateEvent, stream' = [stream EXCEPT ![g] = Append(@, e)]
          PROVE  stream' \in [Gens -> Seq(StateEvent \cup Request)]
      BY <3>1 DEF CallTypes
    <3>2. ASSUME NEW g \in Gens, stream[g] # <<>>, stream' = [stream EXCEPT ![g] = Tail(@)]
          PROVE  stream' \in [Gens -> Seq(StateEvent \cup Request)]
      BY <3>2 DEF CallTypes
    <3> QED
      BY <1>1, <3>1, <3>2 DEF LinkOnly, StateMoves, CallTypes
  <2> QED
    BY <1>1, <2>1 DEF LinkOnly, CallTypes, Channel
<1>2. ASSUME NEW p \in Callers, NEW k \in Kinds, NEW g \in {0} \cup Gens, NEW v \in Callers \cup {NoCaller},
             Send(p, k, g, v), UNCHANGED <<chan, stream, javaValue>>
      PROVE  CallTypes'
  <2>1. /\ Others(p) /\ call'[p] = Called("wait", k, g, nreq + 1, Nothing) /\ nreq' = nreq + 1
        /\ [id |-> nreq + 1, kind |-> k, gen |-> g, by |-> v] \in Request \/ g = 0
        /\ \A r \in outstanding' : r \in outstanding \/ (r = [id |-> nreq + 1, kind |-> k, gen |-> g, by |-> v] /\ g # 0)
    BY <1>2, SendFacts
  <2>2. outstanding' \subseteq Request /\ nreq' \in Nat
    BY <2>1 DEF CallTypes
  <2>3. IsCall(Called("wait", k, g, nreq + 1, Nothing))
    BY DEF IsCall, Called
  <2>4. call' = [q \in Callers |-> call'[q]] /\ \A q \in Callers : IsCall(call'[q])
    BY <2>1, <2>3 DEF Others, CallTypes
  <2> QED
    BY <1>2, <2>2, <2>4 DEF CallTypes, Channel
<1>3. ASSUME NEW p \in Callers, Starts(p) PROVE CallTypes'
  BY <1>2, <1>3 DEF Starts
<1>4. ASSUME NEW p \in Callers, Writes(p) PROVE CallTypes'
  <2>1. /\ call[p].kind \in Kinds /\ call[p].gen \in Gens
        /\ javaValue[call[p].kind] \in Callers \cup {NoCaller}
    BY <1>4 DEF Writes, CallTypes, IsCall
  <2> QED
    BY <1>2, <1>4, <2>1 DEF Writes
<1>5. ASSUME NEW p \in Callers, NEW c, IsCall(c), call' = [call EXCEPT ![p] = c] \/ (Others(p) /\ call'[p] = c)
      PROVE  call' = [q \in Callers |-> call'[q]] /\ \A q \in Callers : IsCall(call'[q])
  BY <1>5, MoveFacts DEF Others, CallTypes
<1>6. ASSUME NEW p \in Callers, WritesOnly(p) PROVE CallTypes'
  <2>1. /\ call[p].kind \in Kinds /\ call[p].kind = "write" /\ call[p].gen \in Gens
        /\ javaValue["write"] \in Callers \cup {NoCaller} /\ nreq' = nreq + 1 /\ nreq + 1 \in Nat
    BY <1>6 DEF WritesOnly, CallTypes, IsCall
  <2>2. [id |-> nreq', kind |-> "write", gen |-> call[p].gen, by |-> javaValue["write"]] \in Request
    BY <2>1 DEF Request
  <2>3. outstanding' \subseteq Request
    BY <1>6, <2>2 DEF WritesOnly, CallTypes
  <2>4. call' = [q \in Callers |-> call'[q]] /\ \A q \in Callers : IsCall(call'[q])
    BY <1>5, <1>6, IdleFacts DEF WritesOnly
  <2> QED
    BY <1>6, <2>1, <2>3, <2>4 DEF WritesOnly, CallTypes, Channel
<1>7. ASSUME NEW p \in Callers, Drops(p) PROVE CallTypes'
  <2>1. call' = [q \in Callers |-> call'[q]] /\ \A q \in Callers : IsCall(call'[q])
    BY <1>5, <1>7, IdleFacts DEF Drops
  <2> QED
    BY <1>7, <2>1 DEF Drops, CallTypes, Channel
<1>8. ASSUME NEW p \in Callers, Takes(p) PROVE CallTypes'
  <2>1. PICK next \in {"populate", "done"} : TakeAnswer(p, next)
    BY <1>8 DEF Takes
  <2>2. call[p].kind \in Kinds /\ IsCall(call[p]) /\ call[p].pc = "wait"
    BY <2>1 DEF TakeAnswer, CallTypes, IsCall
  <2>3. Others(p) /\ call'[p] = Called(next, call[p].kind, call[p].gen, call[p].id, Head(chan[call[p].kind]))
    BY <2>1, TakeFacts
  <2>4. IsCall(Called(next, call[p].kind, call[p].gen, call[p].id, Head(chan[call[p].kind])))
    BY <2>2 DEF IsCall, Called
  <2>5. call' = [q \in Callers |-> call'[q]] /\ \A q \in Callers : IsCall(call'[q])
    BY <1>5, <2>3, <2>4
  <2>6. chan' = [k \in Kinds |-> chan'[k]] /\ \A k \in Kinds : Channel(chan'[k], Answer)
    <3>1. chan' = [chan EXCEPT ![call[p].kind] = Tail(chan[call[p].kind])] /\ chan[call[p].kind] # <<>>
      BY <2>1 DEF TakeAnswer
    <3>2. Tail(chan[call[p].kind]) = <<>>
      BY <2>2, <3>1, EmptiedChannel DEF CallTypes
    <3> QED
      BY <2>2, <3>1, <3>2 DEF CallTypes, Channel
  <2> QED
    BY <1>8, <2>1, <2>5, <2>6 DEF Takes, TakeAnswer, CallTypes
<1>9. ASSUME NEW p \in Callers, Cancels(p) PROVE CallTypes'
  <2>1. call' = [q \in Callers |-> call'[q]] /\ \A q \in Callers : IsCall(call'[q])
    BY <1>5, <1>9, IdleFacts DEF Cancels, CancelCall
  <2> QED
    BY <1>9, <2>1 DEF Cancels, CancelCall, CallTypes, Channel
<1>10. ASSUME NEW p \in Callers, Fills(p) PROVE CallTypes'
  <2>1. Others(p) /\ call'[p] = Called("done", call[p].kind, call[p].gen, call[p].id, call[p].res)
    BY <1>10, MoveFacts DEF Fills
  <2>2. IsCall(Called("done", call[p].kind, call[p].gen, call[p].id, call[p].res))
    BY <1>10 DEF Fills, CallTypes, IsCall, Called
  <2>3. call' = [q \in Callers |-> call'[q]] /\ \A q \in Callers : IsCall(call'[q])
    BY <1>5, <2>1, <2>2
  <2> QED
    BY <1>10, <2>3 DEF Fills, CallTypes, Channel
<1>11. ASSUME NEW p \in Callers, NEW k \in Kinds \cap Written, SetsValue(p, k) PROVE CallTypes'
  <2>1. Others(p) /\ call'[p] = Called("valued", k, handle, 0, Nothing)
    BY <1>11, ValueFacts
  <2>2. IsCall(Called("valued", k, handle, 0, Nothing))
    BY <1>11 DEF SetsValue, IsCall, Called
  <2>3. call' = [q \in Callers |-> call'[q]] /\ \A q \in Callers : IsCall(call'[q])
    BY <1>5, <2>1, <2>2
  <2> QED
    BY <1>11, <2>3 DEF SetsValue, CallTypes, Channel
<1>12. ASSUME NEW r \in outstanding, Answers(r) PROVE CallTypes'
  <2>1. r.kind \in Kinds /\ Answered(r) \in Answer
    BY EventFacts DEF CallTypes
  <2>2. chan' = [k \in Kinds |-> chan'[k]] /\ \A k \in Kinds : Channel(chan'[k], Answer)
    BY <1>12, <2>1, OfferFacts DEF Answers, CallTypes
  <2> QED
    BY <1>12, <2>2 DEF Answers, CallTypes
<1>13. ASSUME NEW r \in outstanding, Streams(r) PROVE CallTypes'
  <2>1. r.gen \in Gens /\ r \in Request
    BY EventFacts DEF CallTypes
  <2>2. stream' \in [Gens -> Seq(StateEvent \cup Request)]
    BY <1>13, <2>1 DEF Streams, CallTypes
  <2> QED
    BY <1>13, <2>2 DEF Streams, CallTypes, Channel
<1>14. ASSUME NEW g \in Gens, Reads(g) PROVE CallTypes'
  <2>1. Head(stream[g]) \in StateEvent \cup Request
    BY <1>14 DEF Reads, CallTypes
  <2>2. Head(stream[g]).kind \in Kinds /\ Answered(Head(stream[g])) \in Answer
    BY <1>14, <2>1, EventFacts DEF Reads
  <2>3. chan' = [k \in Kinds |-> chan'[k]] /\ \A k \in Kinds : Channel(chan'[k], Answer)
    BY <1>14, <2>2, OfferFacts DEF Reads, CallTypes
  <2>4. stream' \in [Gens -> Seq(StateEvent \cup Request)]
    BY <1>14 DEF Reads, CallTypes
  <2> QED
    BY <1>14, <2>3, <2>4 DEF Reads, CallTypes
<1> QED
  BY CallsFrame, <1>1, <1>3, <1>4, <1>6, <1>7, <1>8, <1>9, <1>10, <1>11, <1>12, <1>13, <1>14 DEF CallsStep, CallStep

\* What the stream carries of kind k was there before, perhaps one place further on.
Shifted(g, k) ==
  \E d \in {0, 1} : \A i \in Nat : Carries(g, i, k)' => Carries(g, i + d, k) /\ stream'[g][i] = stream[g][i + d]

(* An answer that is awaited stays so while its operation waits. *)
LEMMA StillAwaited ==
  ASSUME NEW k, NEW a, Awaited(a, k), \A q \in Callers : Uses(q, k) => Uses(q, k)' /\ call'[q] = call[q]
  PROVE  \A b : b = a => Awaited(b, k)'
BY DEF Awaited, Uses

(* A step that has nothing to do with kind k. *)
LEMMA KindFrame ==
  ASSUME NEW k \in Kinds, KindInv(k),
         \A q \in Callers : (Uses(q, k)' <=> Uses(q, k)) /\ (Uses(q, k) => call'[q] = call[q]),
         \A r \in outstanding' : r.kind = k => r \in outstanding,
         chan'[k] = chan[k],
         \A g \in Gens : Shifted(g, k),
         \A q \in Callers : Uses(q, k) /\ call[q].pc = "valued" => javaValue'[k] = javaValue[k]
  PROVE  KindInv(k)'
<1>1. \A p, q \in Callers : Uses(p, k)' /\ Uses(q, k)' => p = q
  BY DEF KindInv
<1>2. ASSUME NEW a, Awaited(a, k) PROVE \A b : b = a => Awaited(b, k)'
  BY <1>2, StillAwaited
<1>3. \A g \in Gens : \A i \in Nat : Carries(g, i, k)' => \E j \in Nat : Carries(g, j, k) /\ stream'[g][i] = stream[g][j]
  BY DEF Shifted
<1>4. ASSUME NEW r \in outstanding', r.kind = k
      PROVE  /\ Awaited(r, k)' /\ chan'[k] = <<>>
             /\ \A s \in outstanding' : s.kind = k => s = r
             /\ \A g \in Gens : \A i \in Nat : ~ Carries(g, i, k)'
  BY <1>2, <1>3, <1>4 DEF KindInv
<1>5. ASSUME NEW g \in Gens, NEW i \in Nat, Carries(g, i, k)'
      PROVE  /\ chan'[k] = <<>>
             /\ \A b : b = stream'[g][i] => Awaited(b, k)'
             /\ \A h \in Gens : \A j \in Nat : Carries(h, j, k)' => h = g /\ j = i
  <2>1. PICK d \in {0, 1} : \A n \in Nat : Carries(g, n, k)' => Carries(g, n + d, k) /\ stream'[g][n] = stream[g][n + d]
    BY DEF Shifted
  <2>2. i + d \in Nat /\ Carries(g, i + d, k) /\ stream'[g][i] = stream[g][i + d]
    BY <1>5, <2>1
  <2>3. Awaited(stream[g][i + d], k) /\ chan[k] = <<>>
    BY <2>2 DEF KindInv
  <2>4. ASSUME NEW h \in Gens, NEW j \in Nat, Carries(h, j, k)' PROVE h = g /\ j = i
    <3>1. PICK e \in {0, 1} : Carries(h, j + e, k)
      BY <2>4 DEF Shifted
    <3>2. h = g
      BY <2>2, <3>1 DEF KindInv
    <3>3. Carries(g, j + d, k)
      BY <2>1, <2>4, <3>2
    <3>4. j + d = i + d
      BY <2>2, <3>3 DEF KindInv
    <3> QED
      BY <2>1, <3>2, <3>4
  <2> QED
    BY <1>2, <2>2, <2>3, <2>4
<1>6. chan'[k] # <<>> => Awaited(Head(chan[k]), k)'
  BY <1>2 DEF KindInv
<1>7. \A p \in Callers : Uses(p, k)' =>
        /\ call'[p].pc = "valued" => javaValue'[k] = p
        /\ call'[p].pc \in {"populate", "done"} => call'[p].res = [id |-> call'[p].id, by |-> p]
  BY DEF KindInv
<1> QED
  BY <1>1, <1>4, <1>5, <1>6, <1>7 DEF KindInv

(* A step that leaves the streams alone, one that adds an event of another kind
   to one of them, and one that takes the first. *)
LEMMA ShiftFacts ==
  ASSUME CallTypes, NEW k
  PROVE  /\ stream' = stream => \A g \in Gens : Shifted(g, k)
         /\ \A g \in Gens : \A e \in StateEvent \cup Request :
              e.kind # k /\ stream' = [stream EXCEPT ![g] = Append(@, e)] => \A h \in Gens : Shifted(h, k)
         /\ \A g \in Gens :
              stream[g] # <<>> /\ stream' = [stream EXCEPT ![g] = Tail(@)] => \A h \in Gens : Shifted(h, k)
<1>1. ASSUME NEW h \in Gens, stream'[h] = stream[h] PROVE Shifted(h, k)
  BY <1>1 DEF Shifted, Carries
<1>2. ASSUME NEW g \in Gens, NEW e \in StateEvent \cup Request, e.kind # k, stream'[g] = Append(stream[g], e)
      PROVE  Shifted(g, k)
  <2>1. stream[g] \in Seq(StateEvent \cup Request)
    BY DEF CallTypes
  <2>2. \A i \in DOMAIN stream'[g] : (i \in DOMAIN stream[g] /\ stream'[g][i] = stream[g][i]) \/ stream'[g][i] = e
    BY <1>2, <2>1
  <2>3. \A i \in Nat : Carries(g, i, k)' => Carries(g, i + 0, k) /\ stream'[g][i] = stream[g][i + 0]
    BY <1>2, <2>2 DEF Carries
  <2> QED
    BY <2>3 DEF Shifted
<1>3. ASSUME NEW g \in Gens, stream[g] # <<>>, stream'[g] = Tail(stream[g]) PROVE Shifted(g, k)
  <2>1. stream[g] \in Seq(StateEvent \cup Request)
    BY DEF CallTypes
  <2>2. \A i \in DOMAIN stream'[g] : i + 1 \in DOMAIN stream[g] /\ stream'[g][i] = stream[g][i + 1]
    BY <1>3, <2>1
  <2> QED
    BY <2>2 DEF Carries, Shifted
<1>4. \A g \in Gens : \A x : stream' = [stream EXCEPT ![g] = x] =>
        stream'[g] = x /\ \A h \in Gens : h # g => stream'[h] = stream[h]
  BY DEF CallTypes
<1> QED
  BY <1>1, <1>2, <1>3, <1>4

(* A step in which no caller of kind k waits before it has sent its request, and
   none is under way that it does not say. *)
LEMMA NobodyWaits ==
  ASSUME NEW k \in Kinds, KindInv(k), \A q \in Callers : Uses(q, k) => call[q].pc # "wait"
  PROVE  /\ chan[k] = <<>> /\ \A r \in outstanding : r.kind # k
         /\ \A g \in Gens : \A i \in Nat : ~ Carries(g, i, k)
BY DEF KindInv, Awaited

\* Of kind k nothing is on its way.
Clear(k) ==
  /\ chan[k] = <<>> /\ \A r \in outstanding : r.kind # k
  /\ \A g \in Gens : \A i \in Nat : ~ Carries(g, i, k)

(* A caller of kind k moves, and nothing is on its way. *)
LEMMA MoveClear ==
  ASSUME NEW k \in Kinds, NEW p \in Callers, KindInv(k), Clear(k)', Others(p),
         Uses(p, k)' => \A q \in Callers : q # p => ~ Uses(q, k),
         Uses(p, k)' /\ call'[p].pc = "valued" => javaValue'[k] = p,
         Uses(p, k)' /\ call'[p].pc \in {"populate", "done"} => call'[p].res = [id |-> call'[p].id, by |-> p],
         javaValue' = javaValue \/ \A q \in Callers : q # p => ~ Uses(q, k)
  PROVE  KindInv(k)'
<1>1. \A q \in Callers : q # p => (Uses(q, k)' <=> Uses(q, k)) /\ call'[q] = call[q]
  BY DEF Others, Uses
<1>2. \A s, q \in Callers : Uses(s, k)' /\ Uses(q, k)' => s = q
  BY <1>1 DEF KindInv
<1>3. \A q \in Callers : Uses(q, k)' =>
        /\ call'[q].pc = "valued" => javaValue'[k] = q
        /\ call'[q].pc \in {"populate", "done"} => call'[q].res = [id |-> call'[q].id, by |-> q]
  BY <1>1 DEF KindInv
<1> QED
  BY <1>2, <1>3 DEF KindInv, Clear

(* A caller that moves in another kind. *)
LEMMA MoveOther ==
  ASSUME NEW k \in Kinds, NEW p \in Callers, KindInv(k), Others(p), ~ Uses(p, k), ~ Uses(p, k)',
         \A r \in outstanding' : r.kind = k => r \in outstanding,
         chan'[k] = chan[k], \A g \in Gens : Shifted(g, k), javaValue'[k] = javaValue[k]
  PROVE  KindInv(k)'
<1>1. \A q \in Callers : (Uses(q, k)' <=> Uses(q, k)) /\ (Uses(q, k) => call'[q] = call[q])
  BY DEF Others, Uses
<1> QED
  BY <1>1, KindFrame

(* A caller of kind k sends its request. *)
LEMMA SendStep ==
  ASSUME CallTypes, AnswerInv, NEW p \in Callers, NEW k \in Kinds, NEW g \in {0} \cup Gens, NEW v \in Callers \cup {NoCaller},
         (call[p].pc = "idle" /\ v = p) \/ (call[p].pc = "valued" /\ call[p].kind = k /\ v = javaValue[k]),
         Send(p, k, g, v), UNCHANGED <<chan, stream, javaValue>>
  PROVE  AnswerInv'
<1>0. PICK new : new = [id |-> nreq + 1, kind |-> k, gen |-> g, by |-> v]
  OBVIOUS
<1>1. /\ Others(p) /\ call'[p] = Called("wait", k, g, nreq + 1, Nothing)
      /\ \A r \in outstanding' : r \in outstanding \/ (r = new /\ g # 0)
      /\ mixed \subseteq mixed' /\ (k \notin mixed' => ~ Overlaps(p, k))
  BY <1>0, SendFacts
<1>2. new.kind = k /\ new.id = nreq + 1 /\ new.by = v
  BY <1>0
<1>3. /\ call'[p].pc = "wait" /\ call'[p].kind = k /\ call'[p].id = nreq + 1
      /\ \A q \in Callers : q # p => call'[q] = call[q]
  BY <1>1 DEF Called, Others
<1> SUFFICES ASSUME NEW n \in Kinds \ mixed' PROVE KindInv(n)'
  BY DEF AnswerInv
<1>4. KindInv(n) /\ \A h \in Gens : Shifted(h, n)
  BY <1>1, ShiftFacts DEF AnswerInv
<1>5. CASE n # k
  <2>1. ~ Uses(p, n) /\ ~ Uses(p, n)' /\ \A r \in outstanding' : r.kind = n => r \in outstanding
    BY <1>1, <1>2, <1>3, <1>5 DEF Uses
  <2> QED
    BY <1>1, <1>4, <2>1, MoveOther
<1>6. CASE n = k
  <2>1. \A q \in Callers : q # p => ~ Uses(q, k)
    BY <1>1, <1>6 DEF Overlaps, Uses
  <2>2. chan[k] = <<>> /\ (\A r \in outstanding : r.kind # k) /\ \A h \in Gens : \A i \in Nat : ~ Carries(h, i, k)
    <3>1. \A q \in Callers : Uses(q, k) => call[q].pc # "wait"
      BY <2>1
    <3> QED
      BY <1>4, <1>6, <3>1, NobodyWaits
  <2>3. v = p
    BY <1>4, <1>6 DEF KindInv, Uses
  <2>4. Uses(p, k)' /\ \A q \in Callers : Uses(q, k)' => q = p
    BY <1>3, <2>1 DEF Uses
  <2>5. \A r \in outstanding' : r.kind = k => r = new /\ Awaited(r, k)'
    BY <1>1, <1>2, <1>3, <2>2, <2>3, <2>4 DEF Awaited
  <2>6. chan'[k] = <<>> /\ \A h \in Gens : \A i \in Nat : ~ Carries(h, i, k)'
    BY <2>2 DEF Carries
  <2> QED
    BY <1>3, <1>6, <2>4, <2>5, <2>6 DEF KindInv
<1> QED
  BY <1>5, <1>6

(* A call of kind k is over, or was given up. *)
LEMMA EndStep ==
  ASSUME CallTypes, AnswerInv, NEW p \in Callers, call' = [call EXCEPT ![p] = Idle],
         UNCHANGED <<chan, stream, javaValue>>, mixed \subseteq mixed',
         \A r \in outstanding' : r \in outstanding \/ r.kind \in mixed',
         call[p].pc \in {"valued", "done"} \/ call[p].kind \in mixed'
  PROVE  AnswerInv'
<1> SUFFICES ASSUME NEW n \in Kinds \ mixed' PROVE KindInv(n)'
  BY DEF AnswerInv
<1>1. Others(p) /\ call'[p] = Idle
  BY MoveFacts
<1>2. KindInv(n) /\ \A h \in Gens : Shifted(h, n)
  BY ShiftFacts DEF AnswerInv
<1>3. ~ Uses(p, n)' /\ \A r \in outstanding' : r.kind = n => r \in outstanding
  BY <1>1, IdleFacts DEF Uses
<1>4. CASE ~ Uses(p, n)
  BY <1>1, <1>2, <1>3, <1>4, MoveOther
<1>5. CASE Uses(p, n)
  <2>1. \A q \in Callers : Uses(q, n) => call[q].pc # "wait"
    BY <1>2, <1>5 DEF KindInv, Uses
  <2>2. chan[n] = <<>> /\ (\A r \in outstanding : r.kind # n) /\ \A h \in Gens : \A i \in Nat : ~ Carries(h, i, n)
    BY <1>2, <2>1, NobodyWaits
  <2>3. Clear(n)'
    BY <1>3, <2>2 DEF Clear, Carries
  <2> QED
    BY <1>1, <1>2, <1>3, <2>3, MoveClear
<1> QED
  BY <1>4, <1>5

(* An operation takes what is in its channel. *)
LEMMA TakeStep ==
  ASSUME CallTypes, AnswerInv, NEW p \in Callers, Takes(p)
  PROVE  AnswerInv'
<1>1. PICK next \in {"populate", "done"} : TakeAnswer(p, next)
  BY DEF Takes
<1>2. PICK k : k = call[p].kind
  OBVIOUS
<1>3. Uses(p, k) /\ call[p].pc = "wait" /\ k \in Kinds
  BY <1>1, <1>2 DEF TakeAnswer, CallTypes, IsCall, Uses
<1>4. chan[k] # <<>> /\ chan' = [chan EXCEPT ![k] = Tail(chan[k])] /\ UNCHANGED <<outstanding, mixed, stream, javaValue>>
  BY <1>1, <1>2 DEF TakeAnswer, Takes
<1>5. Others(p) /\ call'[p] = Called(next, k, call[p].gen, call[p].id, Head(chan[k]))
  BY <1>1, <1>2, TakeFacts
<1>6. call'[p].pc = next /\ call'[p].kind = k /\ call'[p].id = call[p].id /\ call'[p].res = Head(chan[k])
  BY <1>5 DEF Called
<1> SUFFICES ASSUME NEW n \in Kinds \ mixed' PROVE KindInv(n)'
  BY DEF AnswerInv
<1>7. KindInv(n) /\ \A h \in Gens : Shifted(h, n)
  BY <1>4, ShiftFacts DEF AnswerInv
<1>8. CASE n # k
  <2>1. ~ Uses(p, n) /\ ~ Uses(p, n)' /\ chan'[n] = chan[n]
    BY <1>2, <1>4, <1>6, <1>8 DEF Uses, CallTypes
  <2> QED
    BY <1>4, <1>5, <1>7, <2>1, MoveOther
<1>9. CASE n = k
  <2>1. Awaited(Head(chan[k]), k) /\ \A q \in Callers : q # p => ~ Uses(q, k)
    BY <1>3, <1>4, <1>7, <1>9 DEF KindInv
  <2>2. Head(chan[k]).id = call[p].id /\ Head(chan[k]).by = p
    BY <2>1 DEF Awaited
  <2>3. Head(chan[k]) \in Answer /\ Tail(chan[k]) = <<>>
    BY <1>3, <1>4, EmptiedChannel DEF CallTypes
  <2>4. Head(chan[k]) = [id |-> call[p].id, by |-> p]
    BY <2>2, <2>3 DEF Answer
  <2>5. (\A r \in outstanding : r.kind # k) /\ \A h \in Gens : \A i \in Nat : ~ Carries(h, i, k)
    BY <1>4, <1>7, <1>9 DEF KindInv
  <2>6. Clear(k)'
    BY <1>3, <1>4, <2>3, <2>5 DEF Clear, Carries, CallTypes
  <2> QED
    BY <1>1, <1>4, <1>5, <1>6, <1>7, <1>9, <2>1, <2>4, <2>6, MoveClear
<1> QED
  BY <1>8, <1>9

(* The tables of the services are filled. *)
LEMMA FillStep ==
  ASSUME CallTypes, AnswerInv, NEW p \in Callers, Fills(p)
  PROVE  AnswerInv'
<1>1. Others(p) /\ call'[p] = Called("done", call[p].kind, call[p].gen, call[p].id, call[p].res)
  BY MoveFacts DEF Fills
<1>2. call'[p].pc = "done" /\ call'[p].kind = call[p].kind /\ call'[p].id = call[p].id /\ call'[p].res = call[p].res
  BY <1>1 DEF Called
<1>3. call[p].pc = "populate" /\ UNCHANGED <<outstanding, mixed, chan, stream, javaValue>>
  BY DEF Fills
<1> SUFFICES ASSUME NEW n \in Kinds \ mixed' PROVE KindInv(n)'
  BY DEF AnswerInv
<1>4. KindInv(n) /\ \A h \in Gens : Shifted(h, n)
  BY <1>3, ShiftFacts DEF AnswerInv
<1>5. CASE call[p].kind # n
  <2>1. ~ Uses(p, n) /\ ~ Uses(p, n)'
    BY <1>2, <1>5 DEF Uses
  <2> QED
    BY <1>1, <1>3, <1>4, <2>1, MoveOther
<1>6. CASE call[p].kind = n
  <2>1. Uses(p, n) /\ \A q \in Callers : q # p => ~ Uses(q, n)
    BY <1>3, <1>4, <1>6 DEF KindInv, Uses
  <2>2. \A q \in Callers : Uses(q, n) => call[q].pc # "wait"
    BY <1>3, <2>1
  <2>3. chan[n] = <<>> /\ (\A r \in outstanding : r.kind # n) /\ \A h \in Gens : \A i \in Nat : ~ Carries(h, i, n)
    BY <1>4, <2>2, NobodyWaits
  <2>4. Clear(n)'
    BY <1>3, <2>3 DEF Clear, Carries
  <2>5. call[p].res = [id |-> call[p].id, by |-> p]
    BY <1>3, <1>4, <2>1 DEF KindInv
  <2> QED
    BY <1>1, <1>2, <1>3, <1>4, <2>1, <2>4, <2>5, MoveClear
<1> QED
  BY <1>5, <1>6

(* A write sets the value of the Java object. *)
LEMMA ValueStep ==
  ASSUME CallTypes, AnswerInv, NEW p \in Callers, NEW k \in Kinds \cap Written, SetsValue(p, k)
  PROVE  AnswerInv'
<1>1. Others(p) /\ call'[p] = Called("valued", k, handle, 0, Nothing)
  BY ValueFacts
<1>2. call'[p].pc = "valued" /\ call'[p].kind = k
  BY <1>1 DEF Called
<1>3. /\ UNCHANGED <<outstanding, chan, stream>> /\ call[p].pc = "idle"
      /\ mixed \subseteq mixed' /\ (k \notin mixed' => ~ Overlaps(p, k))
      /\ javaValue'[k] = p /\ \A n \in Written : n # k => javaValue'[n] = javaValue[n]
  BY DEF SetsValue, CallTypes
<1> SUFFICES ASSUME NEW n \in Kinds \ mixed' PROVE KindInv(n)'
  BY DEF AnswerInv
<1>4. KindInv(n) /\ \A h \in Gens : Shifted(h, n)
  BY <1>3, ShiftFacts DEF AnswerInv
<1>5. CASE n # k
  <2>1. ~ Uses(p, n) /\ ~ Uses(p, n)' /\ \A q \in Callers : q # p => call'[q] = call[q]
    BY <1>1, <1>2, <1>3, <1>5 DEF Uses, Others
  <2>2. \A q \in Callers : (Uses(q, n)' <=> Uses(q, n)) /\ (Uses(q, n) => call'[q] = call[q])
    BY <2>1 DEF Uses
  <2>3. \A q \in Callers : Uses(q, n) /\ call[q].pc = "valued" => javaValue'[n] = javaValue[n]
    BY <1>3, <1>5 DEF Uses, CallTypes, IsCall
  <2> QED
    BY <1>3, <1>4, <2>2, <2>3, KindFrame
<1>6. CASE n = k
  <2>1. \A q \in Callers : q # p => ~ Uses(q, n)
    BY <1>3, <1>6 DEF Overlaps, Uses
  <2>2. \A q \in Callers : Uses(q, n) => call[q].pc # "wait"
    BY <1>3, <2>1
  <2>3. chan[n] = <<>> /\ (\A r \in outstanding : r.kind # n) /\ \A h \in Gens : \A i \in Nat : ~ Carries(h, i, n)
    BY <1>4, <2>2, NobodyWaits
  <2>4. Clear(n)'
    BY <1>3, <2>3 DEF Clear, Carries
  <2> QED
    BY <1>1, <1>2, <1>3, <1>4, <1>6, <2>1, <2>4, MoveClear
<1> QED
  BY <1>5, <1>6

(* The answer to a request enters the channel of its kind. *)
LEMMA ChannelStep ==
  ASSUME CallTypes, AnswerInv, NEW r \in outstanding, Answers(r)
  PROVE  AnswerInv'
<1>1. r.kind \in Kinds /\ Answered(r) \in Answer /\ Answered(r).id = r.id /\ Answered(r).by = r.by
  BY EventFacts DEF CallTypes
<1>2. /\ outstanding' = outstanding \ {r} /\ UNCHANGED <<call, mixed, stream, javaValue>>
      /\ chan'[r.kind] = Offer(chan[r.kind], Answered(r)) /\ \A k \in Kinds : k # r.kind => chan'[k] = chan[k]
  BY <1>1 DEF Answers, CallTypes
<1> SUFFICES ASSUME NEW n \in Kinds \ mixed' PROVE KindInv(n)'
  BY DEF AnswerInv
<1>3. KindInv(n) /\ \A h \in Gens : Shifted(h, n)
  BY <1>2, ShiftFacts DEF AnswerInv
<1>4. \A q \in Callers : (Uses(q, n)' <=> Uses(q, n)) /\ (Uses(q, n) => call'[q] = call[q])
  BY <1>2 DEF Uses
<1>5. CASE n # r.kind
  BY <1>2, <1>3, <1>4, <1>5, KindFrame
<1>6. CASE n = r.kind
  <2>1. /\ Awaited(r, n) /\ chan[n] = <<>>
        /\ \A s \in outstanding : s.kind = n => s = r
        /\ \A g \in Gens : \A i \in Nat : ~ Carries(g, i, n)
    BY <1>3, <1>6 DEF KindInv
  <2>2. Head(chan'[n]) = Answered(r)
    <3>1. Channel(chan[n], Answer)
      BY DEF CallTypes
    <3>2. Head(Offer(chan[n], Answered(r))) = Answered(r)
      BY <1>1, <2>1, <3>1, OfferFacts
    <3> QED
      BY <1>2, <1>6, <3>2
  <2>3. Awaited(Answered(r), n)
    BY <1>1, <2>1 DEF Awaited
  <2>4. \A a : a = Answered(r) => Awaited(a, n)'
    BY <1>2, <2>3 DEF Awaited, Uses
  <2>5. \A a : a = Head(chan'[n]) => Awaited(a, n)'
    BY <2>2, <2>4
  <2>6. (\A s \in outstanding' : s.kind # n) /\ \A g \in Gens : \A i \in Nat : ~ Carries(g, i, n)'
    BY <1>2, <2>1 DEF Carries
  <2>7. \A q \in Callers : Uses(q, n)' <=> Uses(q, n)
    BY <1>4
  <2> QED
    BY <1>2, <1>3, <2>5, <2>6, <2>7 DEF KindInv
<1> QED
  BY <1>5, <1>6

(* The answer to a request enters the stream. *)
LEMMA StreamStep ==
  ASSUME CallTypes, AnswerInv, NEW r \in outstanding, Streams(r)
  PROVE  AnswerInv'
<1>1. r.kind \in Kinds /\ r.gen \in Gens /\ r \in Request
  BY EventFacts DEF CallTypes
<1>2. outstanding' = outstanding \ {r} /\ UNCHANGED <<call, mixed, chan, javaValue>>
  BY DEF Streams
<1>3. stream' = [stream EXCEPT ![r.gen] = Append(@, r)]
  BY DEF Streams
<1> SUFFICES ASSUME NEW n \in Kinds \ mixed' PROVE KindInv(n)'
  BY DEF AnswerInv
<1>4. KindInv(n)
  BY <1>2 DEF AnswerInv
<1>5. \A q \in Callers : (Uses(q, n)' <=> Uses(q, n)) /\ (Uses(q, n) => call'[q] = call[q])
  BY <1>2 DEF Uses
<1>6. CASE n # r.kind
  <2>1. \A h \in Gens : Shifted(h, n)
    BY <1>1, <1>3, <1>6, ShiftFacts
  <2> QED
    BY <1>2, <1>4, <1>5, <2>1, KindFrame
<1>7. CASE n = r.kind
  <2>1. /\ Awaited(r, n) /\ chan[n] = <<>>
        /\ \A s \in outstanding : s.kind = n => s = r
        /\ \A g \in Gens : \A i \in Nat : ~ Carries(g, i, n)
    BY <1>4, <1>7 DEF KindInv
  <2>2. stream[r.gen] \in Seq(StateEvent \cup Request)
    BY <1>1 DEF CallTypes
  <2>3. stream'[r.gen] = Append(stream[r.gen], r) /\ \A h \in Gens : h # r.gen => stream'[h] = stream[h]
    BY <1>1, <1>3 DEF CallTypes
  <2>4. \A i \in DOMAIN stream'[r.gen] :
          (i \in DOMAIN stream[r.gen] /\ stream'[r.gen][i] = stream[r.gen][i])
          \/ (i = Len(stream[r.gen]) + 1 /\ stream'[r.gen][i] = r)
    BY <1>1, <2>2, <2>3
  <2>5. \A g \in Gens : \A i \in Nat : Carries(g, i, n)' =>
          g = r.gen /\ i = Len(stream[r.gen]) + 1 /\ stream'[g][i] = r
    <3>1. ASSUME NEW g \in Gens, NEW i \in Nat, Carries(g, i, n)', g # r.gen PROVE FALSE
      BY <2>1, <2>3, <3>1 DEF Carries
    <3>2. ASSUME NEW i \in Nat, Carries(r.gen, i, n)' PROVE i = Len(stream[r.gen]) + 1 /\ stream'[r.gen][i] = r
      BY <1>1, <2>1, <2>4, <3>2 DEF Carries
    <3> QED
      BY <3>1, <3>2
  <2>6. \A a : a = r => Awaited(a, n)'
    BY <1>2, <2>1 DEF Awaited, Uses
  <2>7. \A g \in Gens : \A i \in Nat : Carries(g, i, n)' =>
          /\ \A a : a = stream'[g][i] => Awaited(a, n)'
          /\ chan'[n] = <<>>
          /\ \A h \in Gens : \A j \in Nat : Carries(h, j, n)' => h = g /\ j = i
    BY <1>2, <2>1, <2>5, <2>6
  <2>8. \A s \in outstanding' : s.kind # n
    BY <1>2, <2>1
  <2> QED
    BY <1>2, <1>4, <1>5, <2>1, <2>7, <2>8 DEF KindInv
<1> QED
  BY <1>6, <1>7

(* The answer at the head of a stream enters the channel of its kind. *)
LEMMA ReadStep ==
  ASSUME CallTypes, AnswerInv, NEW g \in Gens, Reads(g)
  PROVE  AnswerInv'
<1>1. PICK e : e = Head(stream[g])
  OBVIOUS
<1>2. stream[g] \in Seq(StateEvent \cup Request) /\ stream[g] # <<>> /\ e.kind # "state"
  BY <1>1 DEF Reads, CallTypes
<1>3. e = stream[g][1] /\ 1 \in DOMAIN stream[g] /\ e \in Request
  <2>1. e = stream[g][1] /\ 1 \in DOMAIN stream[g] /\ e \in StateEvent \cup Request
    BY <1>1, <1>2
  <2> QED
    BY <1>2, <2>1, EventFacts
<1>4. e.kind \in Kinds /\ Answered(e) \in Answer /\ Answered(e).id = e.id /\ Answered(e).by = e.by
  BY <1>3, EventFacts
<1>5. /\ UNCHANGED <<call, mixed, outstanding, javaValue>> /\ stream' = [stream EXCEPT ![g] = Tail(@)]
      /\ chan'[e.kind] = Offer(chan[e.kind], Answered(e)) /\ \A k \in Kinds : k # e.kind => chan'[k] = chan[k]
  BY <1>1, <1>4 DEF Reads, CallTypes
<1> SUFFICES ASSUME NEW n \in Kinds \ mixed' PROVE KindInv(n)'
  BY DEF AnswerInv
<1>6. KindInv(n) /\ \A h \in Gens : Shifted(h, n)
  BY <1>2, <1>5, ShiftFacts DEF AnswerInv
<1>7. \A q \in Callers : (Uses(q, n)' <=> Uses(q, n)) /\ (Uses(q, n) => call'[q] = call[q])
  BY <1>5 DEF Uses
<1>8. CASE n # e.kind
  BY <1>5, <1>6, <1>7, <1>8, KindFrame
<1>9. CASE n = e.kind
  <2>1. Carries(g, 1, n)
    BY <1>3, <1>9 DEF Carries
  <2>2. /\ Awaited(e, n) /\ chan[n] = <<>>
        /\ \A h \in Gens : \A j \in Nat : Carries(h, j, n) => h = g /\ j = 1
    BY <1>3, <1>6, <2>1 DEF KindInv
  <2>3. Head(chan'[n]) = Answered(e)
    <3>1. Channel(chan[n], Answer)
      BY DEF CallTypes
    <3>2. Head(Offer(chan[n], Answered(e))) = Answered(e)
      BY <1>4, <2>2, <3>1, OfferFacts
    <3> QED
      BY <1>5, <1>9, <3>2
  <2>4. Awaited(Answered(e), n)
    BY <1>4, <2>2 DEF Awaited
  <2>5. \A a : a = Answered(e) => Awaited(a, n)'
    BY <1>5, <2>4 DEF Awaited, Uses
  <2>6. \A a : a = Head(chan'[n]) => Awaited(a, n)'
    BY <2>3, <2>5
  <2>7. \A s \in outstanding' : s.kind # n
    BY <1>5, <1>6, <2>1 DEF KindInv
  <2>8. stream'[g] = Tail(stream[g]) /\ \A h \in Gens : h # g => stream'[h] = stream[h]
    BY <1>5 DEF CallTypes
  <2>9. \A i \in DOMAIN stream'[g] : i \in Nat \ {0} /\ i + 1 \in DOMAIN stream[g] /\ stream'[g][i] = stream[g][i + 1]
    BY <1>2, <2>8
  <2>10. \A h \in Gens : \A i \in Nat : ~ Carries(h, i, n)'
    <3>1. ASSUME NEW i \in Nat, Carries(g, i, n)' PROVE FALSE
      <4>1. Carries(g, i + 1, n) /\ i # 0
        BY <2>9, <3>1 DEF Carries
      <4> QED
        BY <2>2, <4>1
    <3>2. ASSUME NEW h \in Gens, NEW i \in Nat, Carries(h, i, n)', h # g PROVE FALSE
      BY <2>2, <2>8, <3>2 DEF Carries
    <3> QED
      BY <3>1, <3>2
  <2> QED
    BY <1>5, <1>6, <1>7, <2>6, <2>7, <2>10 DEF KindInv
<1> QED
  BY <1>8, <1>9

(* Every step keeps the answers in their places. *)
LEMMA AnswerStep ==
  ASSUME CallTypes, AnswerInv, [Next]_vars
  PROVE  AnswerInv'
<1>1. CASE LinkOnly
  <2> SUFFICES ASSUME NEW n \in Kinds \ mixed' PROVE KindInv(n)'
    BY DEF AnswerInv
  <2>1. \A h \in Gens : Shifted(h, n)
    <3>1. ASSUME NEW e \in StateEvent PROVE e.kind # n /\ e \in StateEvent \cup Request
      BY EventFacts
    <3> QED
      BY <1>1, <3>1, ShiftFacts DEF LinkOnly, StateMoves
  <2>2. KindInv(n) /\ \A q \in Callers : (Uses(q, n)' <=> Uses(q, n)) /\ (Uses(q, n) => call'[q] = call[q])
    BY <1>1 DEF AnswerInv, LinkOnly, Uses
  <2>3. chan'[n] = chan[n] /\ javaValue'[n] = javaValue[n] /\ outstanding' \subseteq outstanding
    BY <1>1 DEF LinkOnly
  <2> QED
    BY <2>1, <2>2, <2>3, KindFrame
<1>2. ASSUME NEW p \in Callers, Starts(p) PROVE AnswerInv'
  BY <1>2, SendStep DEF Starts
<1>3. ASSUME NEW p \in Callers, Writes(p) PROVE AnswerInv'
  <2>1. /\ call[p].kind \in Kinds /\ call[p].gen \in {0} \cup Gens
        /\ javaValue[call[p].kind] \in Callers \cup {NoCaller}
    BY <1>3 DEF Writes, CallTypes, IsCall
  <2> QED
    BY <1>3, <2>1, SendStep DEF Writes
<1>4. ASSUME NEW p \in Callers, WritesOnly(p) PROVE AnswerInv'
  <2>1. mixed \subseteq mixed' /\ call[p].pc \in {"valued", "done"} /\ call' = [call EXCEPT ![p] = Idle]
    BY <1>4 DEF WritesOnly
  <2>2. \A r \in outstanding' : r \in outstanding \/ r.kind \in mixed'
    BY <1>4 DEF WritesOnly
  <2> QED
    BY <1>4, <2>1, <2>2, EndStep DEF WritesOnly
<1>5. ASSUME NEW p \in Callers, Drops(p) PROVE AnswerInv'
  BY <1>5, EndStep DEF Drops
<1>6. ASSUME NEW p \in Callers, Cancels(p) PROVE AnswerInv'
  BY <1>6, EndStep DEF Cancels, CancelCall
<1> QED
  BY CallsFrame, <1>1, <1>2, <1>3, <1>4, <1>5, <1>6, TakeStep, FillStep, ValueStep, ChannelStep, StreamStep, ReadStep
     DEF CallsStep, CallStep

(* The handle is that of an attempt. *)
LEMMA HandleStep ==
  ASSUME handle \in {0} \cup Gens, [Next]_vars
  PROVE  handle' \in {0} \cup Gens
<1> USE GenFacts
<1>1. ASSUME B!Next PROVE handle' \in {0} \cup Gens
  <2>1. ASSUME NEW g \in Gens, B!Connection(g) PROVE handle' \in {handle, g, 0}
    BY <2>1 DEF B!Connection, B!ConnectFails, B!RegisterClient, B!TakeRegistered, B!OnClientRegistered,
       B!ClientConnect, B!TakeConnState, B!MonitorTakes, B!ContextDone, B!DropLink, B!OnConnected, B!OnDisconnected,
       B!attempt
  <2>2. ASSUME NEW p \in Callers, B!Operation(p) PROVE handle' = handle
    BY <2>2 DEF B!Operation, B!AskStack, B!UseCharacteristic, B!UseDescriptor, B!EndOfCall, B!Begin, B!binderVars,
       B!attempt
  <2>3. CASE B!OnBluetoothServiceDown \/ B!OnBluetoothServiceUp \/ B!CancelConnection \/ \E r \in outstanding : B!OnAnswer(r)
    BY <2>3 DEF B!OnBluetoothServiceDown, B!OnBluetoothServiceUp, B!CancelConnection, B!OnAnswer, B!binderVars, B!attempt
  <2> QED
    BY <1>1, <2>1, <2>2, <2>3 DEF B!Next
<1>2. ASSUME P!Next PROVE handle' \in {0} \cup Gens
  <2>1. ASSUME NEW g \in Gens, P!Connection(g) PROVE handle' \in {handle, g, 0}
    BY <2>1 DEF P!Connection, P!ConnectFails, P!Connect, P!StoreGatt, P!TakeConnState, P!ForgetFailed, P!MonitorTakes,
       P!ContextDone, P!ForgetGatt, P!CloseGatt, P!Abandon, P!OnConnected, P!OnDisconnected, P!HandleState, P!LoseState,
       P!StreamEnds, P!HandleAnswer, P!attempt
  <2>2. ASSUME NEW p \in Callers, P!Operation(p) PROVE handle' = handle
    BY <2>2 DEF P!Operation, P!AskStack, P!ReadObject, P!SetValue, P!CallWrite, P!CallWriteNoResp, P!Populate,
       P!Populated, P!EndOfCall, P!Begin, P!proxyVars, P!attempt
  <2>3. CASE P!CancelConnection \/ \E r \in outstanding : P!OnAnswer(r)
    BY <2>3 DEF P!CancelConnection, P!OnAnswer, P!attempt
  <2> QED
    BY <1>2, <2>1, <2>2, <2>3 DEF P!Next
<1>3. CASE UNCHANGED common
  BY <1>3 DEF common
<1> QED
  BY <1>1, <1>2, <1>3 DEF Next, vars

CallsInv == CallTypes /\ AnswerInv

(* At the start there are no calls. *)
LEMMA CallsStart == Init => CallsInv
<1> SUFFICES ASSUME Init PROVE CallsInv
  OBVIOUS
<1>1. /\ outstanding = {} /\ nreq = 0 /\ chan = [k \in Kinds |-> <<>>] /\ call = [p \in Callers |-> Idle]
      /\ handle = 0 /\ stream = [g \in Gens |-> <<>>] /\ javaValue = [k \in Written |-> NoCaller]
  BY DEF Init, B!Init, P!Init, B!CallsInit, B!Idle, Idle, B!Nothing, Nothing, B!NoCaller, P!NoCaller, NoCaller,
     P!Gens, Gens, P!Written, Written
<1>2. stream \in [Gens -> Seq(StateEvent \cup Request)] /\ javaValue \in [Written -> Callers \cup {NoCaller}]
  BY <1>1
<1>3. CallTypes
  BY <1>1, <1>2, IdleFacts DEF CallTypes, Channel
<1>4. \A p \in Callers : \A k : ~ Uses(p, k)
  BY <1>1, IdleFacts DEF Uses
<1>5. \A g \in Gens : \A i \in Nat : \A k : ~ Carries(g, i, k)
  BY <1>1 DEF Carries
<1>6. AnswerInv
  BY <1>1, <1>4, <1>5 DEF AnswerInv, KindInv
<1> QED
  BY <1>3, <1>6 DEF CallsInv

(* Of each kind that is not mixed there is one operation at most, and its request
   or its answer is in one place. *)
THEOREM CallsInvariant == Spec => []CallsInv
<1>1. CallsInv /\ [Next]_vars => CallsInv'
  <2> SUFFICES ASSUME CallsInv, [Next]_vars PROVE CallsInv'
    OBVIOUS
  <2>1. handle' \in {0} \cup Gens
    BY HandleStep DEF CallsInv, CallTypes
  <2> QED
    BY <2>1, CallTypesStep, AnswerStep DEF CallsInv
<1> QED
  BY <1>1, CallsStart, PTL DEF Spec

(* An operation returns the answer to the request it sent, with its own value
   (OwnResult), over either backend, whatever links and attempts come and go,
   unless an operation of its kind was cancelled, overlapped it or did not wait. *)
THEOREM OperationsGetTheirOwnAnswers == Spec => []OwnResult
<1>1. CallsInv => OwnResult
  <2> SUFFICES ASSUME CallsInv, NEW p \in Callers, call[p].pc = "done", call[p].kind \notin mixed
               PROVE  call[p].res = [id |-> call[p].id, by |-> p]
    BY DEF OwnResult
  <2>1. call[p].kind \in Kinds \ mixed
    BY DEF CallsInv, CallTypes, IsCall
  <2> QED
    BY <2>1 DEF CallsInv, AnswerInv, KindInv, Uses
<1> QED
  BY <1>1, CallsInvariant, PTL

-------------------------------------------------------------------------------
(* Proofs: connections over Binder                                         *)

links == <<handle, conn, java, connStateChanged, givenUp>>

(* Reports differ in what they tell and in whom they come from. *)
LEMMA ReportFacts ==
  /\ \A g, h \in Gens : \A u, v \in BOOLEAN :
       /\ <<[gen |-> g, up |-> u]>> # <<>>
       /\ Head(<<[gen |-> g, up |-> u]>>).up = u
       /\ Tail(<<[gen |-> g, up |-> u]>>) = <<>>
       /\ <<[gen |-> g, up |-> u]>> = <<[gen |-> h, up |-> v]>> => g = h /\ u = v
OBVIOUS

(* Only these steps touch a connection. *)
LEMMA BinderLinks ==
  ASSUME B!Next
  PROVE  \/ \E g \in Gens : B!Connection(g)
         \/ B!CancelConnection \/ B!OnBluetoothServiceDown \/ B!OnBluetoothServiceUp
         \/ UNCHANGED <<links, service>>
<1>1. ASSUME NEW p \in Callers, B!Operation(p) PROVE UNCHANGED <<links, service>>
  BY <1>1 DEF B!Operation, B!AskStack, B!UseCharacteristic, B!UseDescriptor, B!EndOfCall, B!Begin, B!binderVars,
     B!attempt, B!binder, links
<1>2. ASSUME NEW r \in outstanding, B!OnAnswer(r) PROVE UNCHANGED <<links, service>>
  BY <1>2 DEF B!OnAnswer, B!binderVars, B!attempt, B!binder, links
<1> QED
  BY <1>1, <1>2, GenFacts DEF B!Next

(* The end of a link. *)
LEMMA EndedFacts ==
  /\ B!Ended("connecting") = "refused" /\ B!Ended("up") = "gone"
  /\ P!Ended("connecting") = "refused" /\ P!Ended("up") = "gone"
  /\ \A s \in {"none", "gone", "refused"} : B!Ended(s) = s /\ P!Ended(s) = s
BY DEF B!Ended, P!Ended

(* A report that is offered to the channel. *)
LEMMA ReportOffered ==
  ASSUME LinkTypes, NEW g \in Gens, NEW u \in BOOLEAN, connStateChanged' = Offer(connStateChanged, [gen |-> g, up |-> u])
  PROVE  Channel(connStateChanged', Report) /\ (Quiet => connStateChanged' = <<[gen |-> g, up |-> u]>>)
<1>1. [gen |-> g, up |-> u] \in Report
  BY DEF Report
<1> QED
  BY <1>1, OfferFacts DEF LinkTypes, Quiet

(* Steps over Binder keep the types of the connections. *)
LEMMA BinderTypesStep ==
  ASSUME LinkTypes, BinderTypes, handle \in {0} \cup Gens, B!Next
  PROVE  LinkTypes' /\ BinderTypes'
<1> USE GenFacts DEF BinderTypes, B!LastService
<1>1. ASSUME NEW g \in Gens,
             \/ B!ConnectFails(g) \/ B!RegisterClient(g) \/ B!TakeRegistered(g) \/ B!ContextDone(g) \/ B!DropLink(g)
             \/ \E ok \in BOOLEAN : B!OnClientRegistered(g, ok) \/ B!ClientConnect(g, ok)
      PROVE  LinkTypes' /\ BinderTypes'
  <2>1. connStateChanged' = connStateChanged /\ service' = service
    BY <1>1 DEF B!ConnectFails, B!RegisterClient, B!TakeRegistered, B!ContextDone, B!DropLink, B!OnClientRegistered,
       B!ClientConnect, B!attempt, B!binder
  <2>2. conn' \in [Gens -> BinderPlaces]
    BY <1>1 DEF BinderPlaces, B!ConnectFails, B!RegisterClient, B!TakeRegistered, B!ContextDone, B!DropLink,
       B!OnClientRegistered, B!ClientConnect, B!attempt, B!binder
  <2>3. java' \in [Gens -> {"none", "connecting", "up", "gone", "refused"}] /\ givenUp' \subseteq Gens
    BY <1>1 DEF LinkTypes, B!ConnectFails, B!RegisterClient, B!TakeRegistered, B!ContextDone, B!DropLink,
       B!OnClientRegistered, B!ClientConnect, B!attempt, B!binder
  <2> QED
    BY <2>1, <2>2, <2>3 DEF LinkTypes, Channel
<1>2. ASSUME NEW g \in Gens, B!TakeConnState(g) \/ B!MonitorTakes(g) PROVE LinkTypes' /\ BinderTypes'
  <2>1. connStateChanged' = <<>>
    BY <1>2, EmptiedChannel DEF LinkTypes, B!TakeConnState, B!MonitorTakes
  <2> QED
    BY <1>2, <2>1 DEF LinkTypes, BinderPlaces, Channel, B!TakeConnState, B!MonitorTakes, B!binder
<1>3. ASSUME NEW g \in Gens, B!OnConnected(g) PROVE LinkTypes' /\ BinderTypes'
  <2>1. Channel(connStateChanged', Report)
    BY <1>3, SameCalls, ReportOffered DEF B!OnConnected
  <2> QED
    BY <1>3, <2>1 DEF LinkTypes, B!OnConnected, B!attempt, B!binder
<1>4. ASSUME NEW g \in Gens, B!OnDisconnected(g) PROVE LinkTypes' /\ BinderTypes'
  <2>1. Channel(connStateChanged', Report)
    BY <1>4, SameCalls, ReportOffered DEF B!OnDisconnected
  <2> QED
    BY <1>4, <2>1, EndedFacts DEF LinkTypes, B!OnDisconnected, B!attempt, B!binder
<1>5. CASE B!OnBluetoothServiceDown
  <2>1. \A g \in Gens : B!Ended(java[g]) \in {"none", "connecting", "up", "gone", "refused"}
    BY EndedFacts DEF LinkTypes
  <2> QED
    BY <1>5, <2>1 DEF LinkTypes, Channel, B!OnBluetoothServiceDown, B!attempt
<1>6. CASE B!OnBluetoothServiceUp \/ B!CancelConnection \/ UNCHANGED <<links, service>>
  BY <1>6 DEF LinkTypes, Channel, B!OnBluetoothServiceUp, B!CancelConnection, B!attempt, B!binder, links
<1> QED
  BY BinderLinks, <1>1, <1>2, <1>3, <1>4, <1>5, <1>6 DEF B!Connection

(* No attempt begins before the one before it is over. *)
LEMMA BinderOrderStep ==
  ASSUME LinkTypes, LinkOrder, BinderTypes, handle \in {0} \cup Gens, B!Next
  PROVE  LinkOrder'
<1> USE GenFacts DEF LinkOrder, LinkTypes, BinderTypes, BinderPlaces, B!MayConnect
<1>1. ASSUME NEW g \in Gens, B!ConnectFails(g) \/ B!RegisterClient(g) PROVE LinkOrder'
  BY <1>1 DEF B!ConnectFails, B!RegisterClient
<1>2. ASSUME NEW g \in Gens, B!TakeRegistered(g) PROVE LinkOrder'
  <2>1. conn[g] = "registering" /\ java' = java /\ handle' \in {handle, g}
    BY <1>2 DEF B!TakeRegistered
  <2>2. \E s \in {"stored", "over"} : conn' = [conn EXCEPT ![g] = s]
    BY <1>2 DEF B!TakeRegistered
  <2> QED
    BY <2>1, <2>2
<1>3. ASSUME NEW g \in Gens, B!ContextDone(g) \/ B!DropLink(g) PROVE LinkOrder'
  BY <1>3 DEF B!ContextDone, B!DropLink
<1>4. ASSUME NEW g \in Gens, NEW ok \in BOOLEAN, B!OnClientRegistered(g, ok) \/ B!ClientConnect(g, ok) PROVE LinkOrder'
  BY <1>4 DEF B!OnClientRegistered, B!ClientConnect, B!attempt
<1>5. ASSUME NEW g \in Gens, B!TakeConnState(g) \/ B!MonitorTakes(g) PROVE LinkOrder'
  BY <1>5 DEF B!TakeConnState, B!MonitorTakes
<1>6. ASSUME NEW g \in Gens, B!OnConnected(g) \/ B!OnDisconnected(g) PROVE LinkOrder'
  BY <1>6 DEF B!OnConnected, B!OnDisconnected, B!attempt
<1>7. CASE B!OnBluetoothServiceDown
  BY <1>7, EndedFacts DEF B!OnBluetoothServiceDown, B!attempt
<1>8. CASE B!OnBluetoothServiceUp \/ B!CancelConnection \/ UNCHANGED <<links, service>>
  BY <1>8 DEF B!OnBluetoothServiceUp, B!CancelConnection, B!attempt, links
<1> QED
  BY BinderLinks, <1>1, <1>2, <1>3, <1>4, <1>5, <1>6, <1>7, <1>8 DEF B!Connection

Alone(g) ==
  \A h \in Gens \ {g} :
    /\ conn[h] \in {"idle", "over"} /\ java[h] \in {"none", "gone", "refused"}
    /\ conn[h] = "over" => h \notin CanCancel

(* While an attempt is under way no other one has a link or is to hear of one. *)
LEMMA OneAttempt ==
  ASSUME LinkTypes, LinkOrder, OverInv, CanCancel \subseteq {MaxGen}, NEW g \in Gens, conn[g] \notin {"idle", "over"}
  PROVE  Alone(g)
<1> SUFFICES ASSUME NEW h \in Gens \ {g}
             PROVE  /\ conn[h] \in {"idle", "over"} /\ java[h] \in {"none", "gone", "refused"}
                    /\ conn[h] = "over" => h \notin CanCancel
  BY DEF Alone
<1>1. CASE h < g
  BY <1>1, GenFacts DEF LinkOrder, OverInv
<1>2. CASE g < h
  BY <1>2, GenFacts DEF LinkOrder, OverInv
<1> QED
  BY <1>1, <1>2, GenFacts

(* So with an attempt that was cancelled: it is the last one. *)
LEMMA StillAlone ==
  ASSUME LinkTypes, LinkOrder, OverInv, CanCancel \subseteq {MaxGen}, NEW g \in Gens,
         conn[g] # "idle", conn[g] = "over" => g \in CanCancel
  PROVE  Alone(g)
<1>1. CASE conn[g] # "over"
  BY <1>1, OneAttempt
<1>2. CASE conn[g] = "over"
  <2>1. g = MaxGen /\ \A h \in Gens \ {g} : conn[h] = "over" /\ h \notin CanCancel
    BY <1>2, GenFacts DEF LinkOrder
  <2> QED
    BY <2>1 DEF Alone, OverInv
<1> QED
  BY <1>1, <1>2

(* A report comes to the one attempt that waits for it. *)
LEMMA ReportComes ==
  ASSUME BinderTypes', NEW g \in Gens, \A h \in Gens \ {g} : conn'[h] \in {"idle", "over"},
         \/ conn'[g] = "waiting" /\ java'[g] = "up" /\ Came(g)'
         \/ conn'[g] = "waiting" /\ java'[g] = "refused" /\ Went(g)'
         \/ conn'[g] = "connected" /\ java'[g] = "gone" /\ Went(g)'
  PROVE  BinderReports'
BY DEF BinderReports

(* A report is taken before the next one comes. *)
LEMMA BinderReportsStep ==
  ASSUME LinkTypes, LinkOrder, OverInv, BinderReports, BinderTypes', CanCancel \subseteq {MaxGen}, B!Next
  PROVE  OverInv' /\ BinderReports'
<1> USE GenFacts DEF LinkOrder, LinkTypes, OverInv, BinderReports, BinderPlaces, Came, Went, Quiet
<1>1. ASSUME NEW g \in Gens, B!ConnectFails(g) PROVE OverInv' /\ BinderReports'
  BY <1>1 DEF B!ConnectFails, B!MayConnect, BinderTypes
<1>2. ASSUME NEW g \in Gens, B!RegisterClient(g) PROVE OverInv' /\ BinderReports'
  BY <1>2 DEF B!RegisterClient, B!MayConnect, BinderTypes
<1>3. ASSUME NEW g \in Gens, B!TakeRegistered(g) PROVE OverInv' /\ BinderReports'
  <2>1. Alone(g)
    BY <1>3, OneAttempt DEF B!TakeRegistered
  <2>2. conn[g] = "registering" /\ UNCHANGED <<java, connStateChanged, givenUp, service>>
    BY <1>3 DEF B!TakeRegistered, B!binder
  <2>3. CASE conn' = [conn EXCEPT ![g] = "stored"]
    BY <2>1, <2>2, <2>3 DEF BinderTypes, Alone
  <2>4. CASE conn' = [conn EXCEPT ![g] = "over"]
    BY <2>1, <2>2, <2>4 DEF BinderTypes, Alone
  <2> QED
    BY <1>3, <2>3, <2>4 DEF B!TakeRegistered
<1>4. ASSUME NEW g \in Gens, NEW ok \in BOOLEAN, B!OnClientRegistered(g, ok) PROVE OverInv' /\ BinderReports'
  BY <1>4 DEF B!OnClientRegistered, B!attempt, B!binder
<1>5. ASSUME NEW g \in Gens, NEW ok \in BOOLEAN, B!ClientConnect(g, ok) PROVE OverInv' /\ BinderReports'
  BY <1>5, OneAttempt DEF B!ClientConnect, B!binder, BinderTypes, Alone
<1>6. ASSUME NEW g \in Gens, B!TakeConnState(g) PROVE OverInv' /\ BinderReports'
  <2>1. Came(g) \/ Went(g)
    BY <1>6 DEF B!TakeConnState
  <2>2. connStateChanged' = <<>>
    BY <1>6, EmptiedChannel DEF B!TakeConnState
  <2>3. \/ java[g] \in {"up", "gone"} /\ (java[g] = "gone" => service # 1) /\ conn' = [conn EXCEPT ![g] = "connected"]
        \/ java[g] = "refused" /\ conn' = [conn EXCEPT ![g] = "over"]
    BY <1>6, ReportFacts DEF B!TakeConnState
  <2>4. conn[g] = "waiting" /\ UNCHANGED <<java, givenUp, service>>
    BY <1>6 DEF B!TakeConnState, B!binder
  <2>5. Alone(g)
    BY <2>4, OneAttempt
  <2>6. CASE conn' = [conn EXCEPT ![g] = "connected"] /\ java[g] \in {"up", "gone"} /\ (java[g] = "gone" => service # 1)
    BY <2>2, <2>4, <2>5, <2>6 DEF BinderTypes, Alone
  <2>7. CASE conn' = [conn EXCEPT ![g] = "over"] /\ java[g] = "refused"
    BY <2>2, <2>4, <2>5, <2>7 DEF BinderTypes, Alone
  <2> QED
    BY <2>3, <2>6, <2>7
<1>7. ASSUME NEW g \in Gens, B!MonitorTakes(g) PROVE OverInv' /\ BinderReports'
  <2>1. connStateChanged' = <<>> /\ java[g] = "gone"
    BY <1>7, EmptiedChannel DEF B!MonitorTakes
  <2>2. Alone(g)
    BY <1>7, OneAttempt DEF B!MonitorTakes
  <2> QED
    BY <1>7, <2>1, <2>2 DEF B!MonitorTakes, B!binder, BinderTypes, Alone
<1>8. ASSUME NEW g \in Gens, B!ContextDone(g) PROVE OverInv' /\ BinderReports'
  BY <1>8, OneAttempt DEF B!ContextDone, B!binder, BinderTypes, Alone
<1>9. ASSUME NEW g \in Gens, B!DropLink(g) PROVE OverInv' /\ BinderReports'
  BY <1>9, OneAttempt DEF B!DropLink, B!binder, BinderTypes, Alone
<1>10. ASSUME NEW g \in Gens, B!OnConnected(g) PROVE OverInv' /\ BinderReports'
  <2>1. java' = [java EXCEPT ![g] = "up"] /\ UNCHANGED <<conn, givenUp, service>> /\ java[g] = "connecting"
    BY <1>10 DEF B!OnConnected, B!attempt, B!binder
  <2>2. CASE conn[g] = "waiting"
    <3>1. connStateChanged' = <<[gen |-> g, up |-> TRUE]>>
      BY <1>10, <2>1, <2>2, SameCalls, ReportOffered, ReportFacts DEF B!OnConnected
    <3>2. Alone(g)
      BY <2>2, OneAttempt
    <3>3. /\ conn'[g] = "waiting" /\ java'[g] = "up"
          /\ \A h \in Gens \ {g} : conn'[h] \in {"idle", "over"} /\ java'[h] \in {"none", "gone", "refused"}
      BY <2>1, <2>2, <3>2 DEF Alone
    <3>4. OverInv'
      BY <3>1, <3>3
    <3>5. BinderReports'
      <4>1. Came(g)'
        BY <3>1
      <4> QED
        BY <3>3, <4>1, ReportComes
    <3> QED
      BY <3>4, <3>5
  <2>3. CASE conn[g] \in {"dropping", "over"} /\ g \in CanCancel
    <3>1. g = MaxGen /\ \A h \in Gens : h # g => conn[h] = "over"
      BY <2>3
    <3> QED
      BY <2>1, <2>3, <3>1 DEF BinderTypes
  <2> QED
    BY <2>1, <2>2, <2>3 DEF BinderTypes
<1>11. ASSUME NEW g \in Gens, B!OnDisconnected(g) PROVE OverInv' /\ BinderReports'
  <2>1. /\ java' = [java EXCEPT ![g] = IF java[g] = "up" THEN "gone" ELSE "refused"] /\ UNCHANGED <<conn, givenUp, service>>
        /\ java[g] \in {"up", "connecting"} /\ (java[g] = "up" => conn[g] # "waiting")
    BY <1>11, EndedFacts DEF B!OnDisconnected, B!attempt, B!binder
  <2>2. CASE conn[g] \in {"waiting", "connected"}
    <3>1. connStateChanged' = <<[gen |-> g, up |-> FALSE]>>
      BY <1>11, <2>1, <2>2, SameCalls, ReportOffered, ReportFacts DEF B!OnDisconnected
    <3>2. Alone(g)
      BY <2>2, OneAttempt
    <3>3. /\ conn'[g] = conn[g] /\ java'[g] = IF conn[g] = "waiting" THEN "refused" ELSE "gone"
          /\ \A h \in Gens \ {g} : conn'[h] \in {"idle", "over"} /\ java'[h] \in {"none", "gone", "refused"}
      BY <2>1, <2>2, <3>2 DEF Alone
    <3>4. OverInv'
      BY <2>2, <3>1, <3>3
    <3>5. BinderReports'
      <4>1. Went(g)'
        BY <3>1
      <4>2. CASE conn[g] = "waiting"
        BY <3>3, <4>1, <4>2, ReportComes
      <4>3. CASE conn[g] = "connected"
        BY <3>3, <4>1, <4>3, ReportComes
      <4> QED
        BY <2>2, <4>2, <4>3
    <3> QED
      BY <3>4, <3>5
  <2>3. CASE conn[g] \in {"dropping", "over"} /\ g \in CanCancel
    <3>1. g = MaxGen /\ \A h \in Gens : h # g => conn[h] = "over"
      BY <2>3
    <3> QED
      BY <2>1, <2>3, <3>1 DEF BinderTypes
  <2> QED
    BY <2>1, <2>2, <2>3 DEF BinderTypes
<1>12. CASE B!OnBluetoothServiceDown
  <2>1. /\ \A g \in Gens : java'[g] = CASE java[g] = "connecting" -> "refused" [] java[g] = "up" -> "gone" [] OTHER -> java[g]
        /\ UNCHANGED <<conn, connStateChanged, givenUp>> /\ service' = 0
    BY <1>12 DEF B!OnBluetoothServiceDown, B!attempt, B!Ended
  <2> QED
    BY <2>1
<1>13. CASE B!OnBluetoothServiceUp
  BY <1>13 DEF B!OnBluetoothServiceUp, B!attempt, B!LastService
<1>14. CASE B!CancelConnection
  BY <1>14 DEF B!CancelConnection, B!binder
<1>15. CASE UNCHANGED <<links, service>>
  BY <1>15 DEF links
<1> QED
  BY BinderLinks, <1>1, <1>2, <1>3, <1>4, <1>5, <1>6, <1>7, <1>8, <1>9, <1>10, <1>11, <1>12, <1>13, <1>14, <1>15
     DEF B!Connection

-------------------------------------------------------------------------------
(* Proofs: connections over a proxy                                        *)

(* The changes of state in a stream that grows at one end and is read at the other. *)
LEMMA StateFacts ==
  ASSUME NEW s \in Seq(StateEvent \cup Request), NEW u \in BOOLEAN
  PROVE  /\ \A e \in StateEvent : e.up = u /\ NoState(s) => OneState(Append(s, e), u)
         /\ \A e \in Request : /\ NoState(s) => NoState(Append(s, e))
                               /\ OneState(s, u) => OneState(Append(s, e), u)
         /\ s # <<>> /\ Head(s).kind # "state" => /\ NoState(s) => NoState(Tail(s))
                                                  /\ OneState(s, u) => OneState(Tail(s), u)
         /\ s # <<>> /\ Head(s).kind = "state" => /\ ~ NoState(s)
                                                  /\ OneState(s, u) => Head(s).up = u /\ NoState(Tail(s))
<1>1. ASSUME NEW e \in StateEvent \cup Request
      PROVE  /\ DOMAIN Append(s, e) = DOMAIN s \cup {Len(s) + 1} /\ Len(s) + 1 \notin DOMAIN s
             /\ Append(s, e)[Len(s) + 1] = e /\ \A i \in DOMAIN s : Append(s, e)[i] = s[i]
  OBVIOUS
<1>2. \A e \in StateEvent : e.kind = "state" /\ \A r \in Request : r.kind # "state"
  BY EventFacts
<1>3. ASSUME NEW e \in StateEvent, e.up = u, NoState(s) PROVE OneState(Append(s, e), u)
  BY <1>1, <1>2, <1>3 DEF NoState, OneState
<1>4. ASSUME NEW e \in Request PROVE (NoState(s) => NoState(Append(s, e))) /\ (OneState(s, u) => OneState(Append(s, e), u))
  <2>1. e.kind # "state"
    BY EventFacts
  <2>2. NoState(s) => NoState(Append(s, e))
    BY <1>1, <2>1 DEF NoState
  <2>3. ASSUME OneState(s, u) PROVE OneState(Append(s, e), u)
    BY <1>1, <2>1, <2>3 DEF OneState
  <2> QED
    BY <2>2, <2>3
<1>5. ASSUME s # <<>>
      PROVE  /\ 1 \in DOMAIN s /\ Head(s) = s[1]
             /\ \A i \in DOMAIN Tail(s) : i + 1 \in DOMAIN s /\ i \in Nat \ {0} /\ Tail(s)[i] = s[i + 1]
             /\ \A i \in DOMAIN s : i # 1 => i - 1 \in DOMAIN Tail(s) /\ Tail(s)[i - 1] = s[i] /\ i \in Nat
  BY <1>5
<1>6. ASSUME s # <<>>, Head(s).kind # "state"
      PROVE  (NoState(s) => NoState(Tail(s))) /\ (OneState(s, u) => OneState(Tail(s), u))
  <2>1. NoState(s) => NoState(Tail(s))
    BY <1>5, <1>6 DEF NoState
  <2>2. ASSUME OneState(s, u) PROVE OneState(Tail(s), u)
    <3>1. PICK i \in DOMAIN s : s[i].kind = "state" /\ s[i].up = u /\ \A j \in DOMAIN s : s[j].kind = "state" => j = i
      BY <2>2 DEF OneState
    <3>2. i - 1 \in DOMAIN Tail(s) /\ Tail(s)[i - 1] = s[i] /\ i \in Nat
      BY <1>5, <1>6, <3>1
    <3>3. \A j \in DOMAIN Tail(s) : Tail(s)[j].kind = "state" => j = i - 1
      <4> SUFFICES ASSUME NEW j \in DOMAIN Tail(s), Tail(s)[j].kind = "state" PROVE j = i - 1
        OBVIOUS
      <4>1. j + 1 \in DOMAIN s /\ s[j + 1].kind = "state" /\ j \in Nat
        BY <1>5, <1>6
      <4>2. j + 1 = i
        BY <3>1, <4>1
      <4> QED
        BY <3>2, <4>1, <4>2
    <3> QED
      BY <3>1, <3>2, <3>3 DEF OneState
  <2> QED
    BY <2>1, <2>2
<1>7. ASSUME s # <<>>, Head(s).kind = "state"
      PROVE  ~ NoState(s) /\ (OneState(s, u) => Head(s).up = u /\ NoState(Tail(s)))
  <2>1. ~ NoState(s)
    BY <1>5, <1>7 DEF NoState
  <2>2. ASSUME OneState(s, u) PROVE Head(s).up = u /\ NoState(Tail(s))
    <3>1. s[1].up = u /\ \A j \in DOMAIN s : s[j].kind = "state" => j = 1
      BY <1>5, <1>7, <2>2 DEF OneState
    <3>2. \A i \in DOMAIN Tail(s) : Tail(s)[i].kind # "state"
      BY <1>5, <1>7, <3>1
    <3> QED
      BY <1>5, <1>7, <3>1, <3>2 DEF NoState
  <2> QED
    BY <2>1, <2>2
<1> QED
  BY <1>3, <1>4, <1>6, <1>7

\* The answers in the streams move, and the changes of state stay.
AnswersMove ==
  /\ UNCHANGED <<links, deaf>>
  /\ \A g \in Gens : /\ NoState(stream[g]) => NoState(stream'[g])
                     /\ \A u \in BOOLEAN : OneState(stream[g], u) => OneState(stream'[g], u)

(* Only these steps touch a connection. *)
LEMMA ProxyLinks ==
  ASSUME CallTypes, P!Next
  PROVE  \/ \E g \in Gens : P!Connection(g) /\ ~ P!HandleAnswer(g)
         \/ P!CancelConnection \/ AnswersMove
<1>1. ASSUME NEW p \in Callers, P!Operation(p) PROVE AnswersMove
  BY <1>1 DEF P!Operation, P!AskStack, P!ReadObject, P!SetValue, P!CallWrite, P!CallWriteNoResp, P!Populate,
     P!Populated, P!EndOfCall, P!Begin, P!proxyVars, P!attempt, P!link, P!pipe, links, AnswersMove
<1>2. ASSUME NEW r \in outstanding, P!OnAnswer(r) PROVE AnswersMove
  <2>1. r \in Request /\ r.gen \in Gens
    BY EventFacts DEF CallTypes
  <2>2. stream[r.gen] \in Seq(StateEvent \cup Request)
    BY <2>1 DEF CallTypes
  <2>3. stream'[r.gen] = Append(stream[r.gen], r) /\ \A g \in Gens : g # r.gen => stream'[g] = stream[g]
    BY <1>2, <2>1 DEF P!OnAnswer, CallTypes
  <2>4. UNCHANGED <<links, deaf>>
    BY <1>2 DEF P!OnAnswer, P!attempt, links
  <2>5. ASSUME NEW g \in Gens, NEW u \in BOOLEAN
        PROVE  (NoState(stream[g]) => NoState(stream'[g])) /\ (OneState(stream[g], u) => OneState(stream'[g], u))
    <3>1. (NoState(stream[r.gen]) => NoState(stream'[r.gen])) /\ (OneState(stream[r.gen], u) => OneState(stream'[r.gen], u))
      <4>1. /\ NoState(stream[r.gen]) => NoState(Append(stream[r.gen], r))
            /\ OneState(stream[r.gen], u) => OneState(Append(stream[r.gen], r), u)
        BY <2>1, <2>2, StateFacts
      <4> QED
        BY <2>3, <4>1
    <3> QED
      BY <2>3, <3>1
  <2> QED
    BY <2>4, <2>5 DEF AnswersMove
<1>3. ASSUME NEW g \in Gens, P!HandleAnswer(g) PROVE AnswersMove
  <2>1. stream[g] \in Seq(StateEvent \cup Request)
    BY DEF CallTypes
  <2>2. /\ stream'[g] = Tail(stream[g]) /\ \A h \in Gens : h # g => stream'[h] = stream[h]
        /\ stream[g] # <<>> /\ Head(stream[g]).kind # "state"
    BY <1>3 DEF P!HandleAnswer, P!Reading, P!Read, CallTypes
  <2>3. UNCHANGED <<links, deaf>>
    BY <1>3 DEF P!HandleAnswer, P!attempt, links
  <2>4. ASSUME NEW h \in Gens, NEW u \in BOOLEAN
        PROVE  (NoState(stream[h]) => NoState(stream'[h])) /\ (OneState(stream[h], u) => OneState(stream'[h], u))
    BY <2>1, <2>2, StateFacts
  <2> QED
    BY <2>3, <2>4 DEF AnswersMove
<1> QED
  BY <1>1, <1>2, <1>3, GenFacts DEF P!Next

\* The steps of Connect and of the monitor that leave the radio, the streams and
\* the channel alone.
Waiting(g) ==
  P!ConnectFails(g) \/ P!StoreGatt(g) \/ P!ForgetFailed(g) \/ P!ForgetGatt(g) \/ P!Abandon(g)

(* Steps over a proxy keep the types of the connections. *)
LEMMA ProxyTypesStep ==
  ASSUME CallTypes, LinkTypes, ProxyTypes, handle \in {0} \cup Gens, P!Next
  PROVE  LinkTypes' /\ ProxyTypes'
<1> USE GenFacts DEF ProxyTypes
<1>1. ASSUME NEW g \in Gens, Waiting(g) PROVE LinkTypes' /\ ProxyTypes'
  <2>1. UNCHANGED <<java, connStateChanged, givenUp>>
    BY <1>1 DEF Waiting, P!ConnectFails, P!StoreGatt, P!ForgetFailed, P!ForgetGatt, P!Abandon, P!link
  <2>2. conn' \in [Gens -> ProxyPlaces]
    BY <1>1 DEF ProxyPlaces, Waiting, P!ConnectFails, P!StoreGatt, P!ForgetFailed, P!ForgetGatt, P!Abandon
  <2> QED
    BY <2>1, <2>2 DEF LinkTypes, Channel
<1>2. ASSUME NEW g \in Gens, P!Connect(g) \/ P!ContextDone(g) PROVE LinkTypes' /\ ProxyTypes'
  BY <1>2 DEF LinkTypes, Channel, ProxyPlaces, P!Connect, P!ContextDone
<1>3. ASSUME NEW g \in Gens, P!TakeConnState(g) \/ P!MonitorTakes(g) PROVE LinkTypes' /\ ProxyTypes'
  <2>1. connStateChanged' = <<>>
    BY <1>3, EmptiedChannel DEF LinkTypes, P!TakeConnState, P!MonitorTakes
  <2> QED
    BY <1>3, <2>1 DEF LinkTypes, ProxyPlaces, Channel, P!TakeConnState, P!MonitorTakes
<1>4. ASSUME NEW g \in Gens, P!CloseGatt(g) PROVE LinkTypes' /\ ProxyTypes'
  BY <1>4, EndedFacts DEF LinkTypes, Channel, ProxyPlaces, P!CloseGatt
<1>5. ASSUME NEW g \in Gens, P!OnConnected(g) \/ P!OnDisconnected(g) PROVE LinkTypes' /\ ProxyTypes'
  <2>1. UNCHANGED <<conn, givenUp, connStateChanged>>
    BY <1>5 DEF P!OnConnected, P!OnDisconnected, P!attempt
  <2>2. \E s \in {"up", "gone", "refused"} : java' = [java EXCEPT ![g] = s]
    BY <1>5, EndedFacts DEF P!OnConnected, P!OnDisconnected
  <2> QED
    BY <2>1, <2>2 DEF LinkTypes, Channel
<1>6. ASSUME NEW g \in Gens, P!HandleState(g) PROVE LinkTypes' /\ ProxyTypes'
  <2>1. Head(stream[g]).up \in BOOLEAN
    <3>1. Head(stream[g]) \in StateEvent \cup Request /\ Head(stream[g]).kind = "state"
      BY <1>6 DEF P!HandleState, P!Reading, CallTypes
    <3> QED
      BY <3>1, EventFacts DEF StateEvent
  <2>2. Channel(connStateChanged', Report)
    BY <1>6, <2>1, SameCalls, ReportOffered DEF P!HandleState
  <2> QED
    BY <1>6, <2>2 DEF LinkTypes, P!HandleState, P!attempt
<1>7. ASSUME NEW g \in Gens, P!LoseState(g) \/ P!StreamEnds(g) PROVE LinkTypes' /\ ProxyTypes'
  BY <1>7 DEF LinkTypes, Channel, P!LoseState, P!StreamEnds, P!attempt
<1>8. CASE P!CancelConnection \/ AnswersMove
  BY <1>8 DEF LinkTypes, Channel, P!CancelConnection, P!link, AnswersMove, links
<1> QED
  BY ProxyLinks, <1>1, <1>2, <1>3, <1>4, <1>5, <1>6, <1>7, <1>8 DEF P!Connection, Waiting

(* No attempt begins before the one before it is over. *)
LEMMA ProxyOrderStep ==
  ASSUME CallTypes, LinkTypes, LinkOrder, ProxyTypes, handle \in {0} \cup Gens, P!Next
  PROVE  LinkOrder'
<1> USE GenFacts DEF LinkOrder, LinkTypes, ProxyTypes, ProxyPlaces, P!MayConnect
<1>1. ASSUME NEW g \in Gens, P!ConnectFails(g) \/ P!Connect(g) PROVE LinkOrder'
  BY <1>1 DEF P!ConnectFails, P!Connect, P!link
<1>2. ASSUME NEW g \in Gens, P!StoreGatt(g) PROVE LinkOrder'
  BY <1>2 DEF P!StoreGatt, P!link
<1>3. ASSUME NEW g \in Gens, P!ForgetFailed(g) \/ P!ForgetGatt(g) \/ P!Abandon(g) PROVE LinkOrder'
  BY <1>3 DEF P!ForgetFailed, P!ForgetGatt, P!Abandon, P!link
<1>4. ASSUME NEW g \in Gens, P!ContextDone(g) PROVE LinkOrder'
  BY <1>4 DEF P!ContextDone
<1>5. ASSUME NEW g \in Gens, P!TakeConnState(g) \/ P!MonitorTakes(g) PROVE LinkOrder'
  BY <1>5 DEF P!TakeConnState, P!MonitorTakes
<1>6. ASSUME NEW g \in Gens, P!CloseGatt(g) PROVE LinkOrder'
  BY <1>6 DEF P!CloseGatt
<1>7. ASSUME NEW g \in Gens, P!OnConnected(g) \/ P!OnDisconnected(g) PROVE LinkOrder'
  BY <1>7 DEF P!OnConnected, P!OnDisconnected, P!attempt
<1>8. ASSUME NEW g \in Gens, P!HandleState(g) \/ P!LoseState(g) \/ P!StreamEnds(g) PROVE LinkOrder'
  BY <1>8 DEF P!HandleState, P!LoseState, P!StreamEnds, P!attempt
<1>9. CASE P!CancelConnection \/ AnswersMove
  BY <1>9 DEF P!CancelConnection, P!link, AnswersMove, links
<1> QED
  BY ProxyLinks, <1>1, <1>2, <1>3, <1>4, <1>5, <1>6, <1>7, <1>8, <1>9 DEF P!Connection

(* An attempt that is to begin finds nothing of an earlier one. *)
LEMMA FirstAlone ==
  ASSUME LinkOrder, OverInv, CanCancel \subseteq {MaxGen}, NEW g \in Gens, P!MayConnect(g)
  PROVE  Alone(g) /\ Quiet /\ conn[g] = "idle" /\ java[g] = "none"
<1>1. conn[g] = "idle" /\ java[g] = "none"
  BY DEF P!MayConnect, LinkOrder
<1>2. \A h \in Gens : h < g => conn[h] = "over" /\ h \notin CanCancel
  BY GenFacts DEF P!MayConnect
<1>3. \A h \in Gens : g < h => conn[h] = "idle"
  BY <1>1, GenFacts DEF LinkOrder
<1>4. ASSUME NEW h \in Gens \ {g} PROVE (conn[h] = "over" /\ h \notin CanCancel) \/ conn[h] = "idle"
  BY <1>2, <1>3, <1>4, GenFacts
<1>5. Alone(g)
  BY <1>4 DEF Alone, LinkOrder, OverInv
<1> QED
  BY <1>1, <1>4, <1>5 DEF OverInv

(* So is one whose link is up or to come, or whose stream has a report. *)
LEMMA LiveAlone ==
  ASSUME LinkTypes, LinkOrder, OverInv, ProxyReports, CanCancel \subseteq {MaxGen}, NEW g \in Gens,
         java[g] \in {"connecting", "up"} \/ ~ NoState(stream[g])
  PROVE  Alone(g) /\ conn[g] # "idle" /\ (conn[g] = "over" => g \in CanCancel)
<1>1. conn[g] # "idle" /\ (conn[g] = "over" => g \in CanCancel)
  BY DEF LinkOrder, OverInv, ProxyReports, ProxyPlace
<1> QED
  BY <1>1, StillAlone

(* A step of one attempt while it is alone. *)
LEMMA ProxyMove ==
  ASSUME ProxyReports, OverInv, ProxyTypes', NEW g \in Gens, Alone(g), ProxyPlace(g)',
         \A h \in Gens \ {g} : conn'[h] = conn[h] /\ java'[h] = java[h] /\ stream'[h] = stream[h],
         conn'[g] = "over" /\ g \notin CanCancel => java'[g] \in {"none", "gone", "refused"} /\ connStateChanged' = <<>>,
         conn'[g] # "idle"
  PROVE  OverInv' /\ ProxyReports'
<1>1. ASSUME NEW h \in Gens \ {g} PROVE ProxyPlace(h)'
  <2>1. conn'[h] \in {"idle", "over"} /\ (conn[h] = "over" => h \notin CanCancel) /\ stream'[h] = stream[h]
    BY DEF Alone
  <2>2. NoState(stream[h])
    BY <2>1 DEF ProxyReports, ProxyPlace
  <2> QED
    BY <2>1, <2>2 DEF ProxyPlace
<1>2. OverInv'
  BY DEF OverInv, Alone, Quiet
<1> QED
  BY <1>1, <1>2 DEF ProxyReports

(* A report is in one place until it is taken. *)
LEMMA ProxyReportsStep ==
  ASSUME CallTypes, LinkTypes, LinkOrder, OverInv, ProxyReports, ProxyTypes', CanCancel \subseteq {MaxGen}, P!Next
  PROVE  OverInv' /\ ProxyReports'
<1> USE DEF Quiet, OnTheWay, InStream, InChannel, Nowhere
<1>1. ASSUME NEW g \in Gens, NEW s \in ProxyPlaces \ {"idle"}, conn' = [conn EXCEPT ![g] = s]
      PROVE  conn'[g] = s /\ \A h \in Gens \ {g} : conn'[h] = conn[h]
  BY <1>1 DEF ProxyReports, ProxyTypes
<1>2. ASSUME NEW g \in Gens, NEW s, java' = [java EXCEPT ![g] = s]
      PROVE  java'[g] = s /\ \A h \in Gens \ {g} : java'[h] = java[h]
  BY <1>2 DEF LinkTypes
<1>3. ASSUME NEW g \in Gens, P!ConnectFails(g) PROVE OverInv' /\ ProxyReports'
  <2>1. Alone(g) /\ Quiet /\ conn[g] = "idle" /\ java[g] = "none" /\ conn' = [conn EXCEPT ![g] = "over"]
    BY <1>3, FirstAlone DEF P!ConnectFails
  <2>2. UNCHANGED <<java, connStateChanged, givenUp, stream, deaf>>
    BY <1>3 DEF P!ConnectFails, P!link, P!pipe
  <2>3. conn'[g] = "over" /\ \A h \in Gens \ {g} : conn'[h] = conn[h]
    BY <1>1, <2>1 DEF ProxyPlaces
  <2>4. ProxyPlace(g)'
    BY <2>1, <2>2, <2>3 DEF ProxyPlace, ProxyReports
  <2> QED
    BY <2>1, <2>2, <2>3, <2>4, ProxyMove
<1>4. ASSUME NEW g \in Gens, P!Connect(g) PROVE OverInv' /\ ProxyReports'
  <2>1. Alone(g) /\ Quiet /\ conn[g] = "idle" /\ java[g] = "none" /\ conn' = [conn EXCEPT ![g] = "called"]
    BY <1>4, FirstAlone DEF P!Connect
  <2>2. UNCHANGED <<connStateChanged, givenUp, stream, deaf>> /\ java' = [java EXCEPT ![g] = "connecting"]
    BY <1>4 DEF P!Connect, P!pipe
  <2>3. conn'[g] = "called" /\ \A h \in Gens \ {g} : conn'[h] = conn[h]
    BY <1>1, <2>1 DEF ProxyPlaces
  <2>4. java'[g] = "connecting" /\ \A h \in Gens \ {g} : java'[h] = java[h]
    BY <1>2, <2>2
  <2>5. ProxyPlace(g)'
    BY <2>1, <2>2, <2>3, <2>4 DEF ProxyPlace, ProxyReports
  <2> QED
    BY <2>1, <2>2, <2>3, <2>4, <2>5, ProxyMove
<1>5. ASSUME NEW g \in Gens, NEW s \in ProxyPlaces \ {"idle"}, conn[g] \notin {"idle", "over"},
             conn' = [conn EXCEPT ![g] = s], UNCHANGED <<java, stream>>, ProxyPlace(g)',
             s = "over" /\ g \notin CanCancel => java[g] \in {"none", "gone", "refused"} /\ connStateChanged' = <<>>
      PROVE  OverInv' /\ ProxyReports'
  <2>1. Alone(g) /\ conn'[g] = s /\ \A h \in Gens \ {g} : conn'[h] = conn[h]
    BY <1>1, <1>5, OneAttempt
  <2> QED
    BY <1>5, <2>1, ProxyMove
<1>6. ASSUME NEW g \in Gens, P!StoreGatt(g) PROVE OverInv' /\ ProxyReports'
  <2>1. UNCHANGED <<java, connStateChanged, givenUp, stream, deaf>> /\ conn[g] = "called" /\ conn' = [conn EXCEPT ![g] = "waiting"]
    BY <1>6 DEF P!StoreGatt, P!link, P!pipe
  <2>2. conn'[g] = "waiting"
    BY <1>1, <2>1 DEF ProxyPlaces
  <2>3. ProxyPlace(g)'
    BY <2>1, <2>2 DEF ProxyPlace, ProxyReports
  <2> QED
    BY <1>5, <2>1, <2>3 DEF ProxyPlaces
<1>7. ASSUME NEW g \in Gens, P!TakeConnState(g) PROVE OverInv' /\ ProxyReports'
  <2>1. connStateChanged' = <<>> /\ UNCHANGED <<java, stream, deaf, givenUp>> /\ conn[g] = "waiting" /\ connStateChanged # <<>>
    BY <1>7, EmptiedChannel DEF P!TakeConnState, P!pipe, LinkTypes
  <2>2. ProxyPlace(g)
    BY DEF ProxyReports
  <2>3. \/ java[g] = "up" /\ NoState(stream[g]) /\ connStateChanged = <<[gen |-> g, up |-> TRUE]>>
        \/ java[g] = "refused" /\ NoState(stream[g]) /\ connStateChanged = <<[gen |-> g, up |-> FALSE]>>
    BY <2>1, <2>2 DEF ProxyPlace
  <2>4. \/ java[g] = "up" /\ NoState(stream[g]) /\ conn' = [conn EXCEPT ![g] = "connected"]
        \/ java[g] = "refused" /\ NoState(stream[g]) /\ conn' = [conn EXCEPT ![g] = "failing"]
    BY <1>7, <2>3, ReportFacts DEF P!TakeConnState
  <2>5. CASE java[g] = "up" /\ NoState(stream[g]) /\ conn' = [conn EXCEPT ![g] = "connected"]
    <3>1. conn'[g] = "connected"
      BY <1>1, <2>5 DEF ProxyPlaces
    <3>2. ProxyPlace(g)'
      BY <2>1, <2>5, <3>1 DEF ProxyPlace
    <3> QED
      BY <1>5, <2>1, <2>5, <3>2 DEF ProxyPlaces
  <2>6. CASE java[g] = "refused" /\ NoState(stream[g]) /\ conn' = [conn EXCEPT ![g] = "failing"]
    <3>1. conn'[g] = "failing"
      BY <1>1, <2>6 DEF ProxyPlaces
    <3>2. ProxyPlace(g)'
      BY <2>1, <2>6, <3>1 DEF ProxyPlace
    <3> QED
      BY <1>5, <2>1, <2>6, <3>2 DEF ProxyPlaces
  <2> QED
    BY <2>4, <2>5, <2>6
<1>8. ASSUME NEW g \in Gens, P!ForgetFailed(g) PROVE OverInv' /\ ProxyReports'
  <2>1. UNCHANGED <<java, connStateChanged, givenUp, stream, deaf>> /\ conn[g] = "failing" /\ conn' = [conn EXCEPT ![g] = "over"]
    BY <1>8 DEF P!ForgetFailed, P!link, P!pipe
  <2>2. conn'[g] = "over" /\ java[g] = "refused" /\ Nowhere(g)
    BY <1>1, <2>1 DEF ProxyPlaces, ProxyPlace, ProxyReports
  <2>3. ProxyPlace(g)'
    BY <2>1, <2>2 DEF ProxyPlace
  <2> QED
    BY <1>5, <2>1, <2>2, <2>3 DEF ProxyPlaces
<1>9. ASSUME NEW g \in Gens, P!MonitorTakes(g) PROVE OverInv' /\ ProxyReports'
  <2>1. /\ connStateChanged' = <<>> /\ UNCHANGED <<java, stream, deaf, givenUp>> /\ conn[g] = "connected"
        /\ connStateChanged # <<>> /\ conn' = [conn EXCEPT ![g] = "dropping"]
    BY <1>9, EmptiedChannel DEF P!MonitorTakes, P!pipe, LinkTypes
  <2>2. java[g] = "gone" /\ NoState(stream[g]) /\ conn'[g] = "dropping"
    BY <1>1, <2>1 DEF ProxyReports, ProxyPlace, ProxyPlaces
  <2>3. ProxyPlace(g)'
    BY <2>1, <2>2 DEF ProxyPlace
  <2> QED
    BY <1>5, <2>1, <2>3 DEF ProxyPlaces
<1>10. ASSUME NEW g \in Gens, P!ContextDone(g) PROVE OverInv' /\ ProxyReports'
  <2>1. UNCHANGED <<java, connStateChanged, stream>> /\ g \in CanCancel /\ conn[g] \in {"waiting", "connected"}
    BY <1>10 DEF P!ContextDone
  <2>2. CASE conn[g] = "connected"
    <3>1. conn' = [conn EXCEPT ![g] = "abandoning"] /\ g \in givenUp'
      BY <1>10, <2>2 DEF P!ContextDone
    <3>2. conn'[g] = "abandoning"
      BY <1>1, <3>1 DEF ProxyPlaces
    <3>3. ProxyPlace(g)'
      BY <2>1, <3>1, <3>2 DEF ProxyPlace
    <3> QED
      BY <1>5, <2>1, <3>1, <3>3 DEF ProxyPlaces
  <2>3. CASE conn[g] = "waiting"
    <3>1. conn' = [conn EXCEPT ![g] = "over"]
      BY <1>10, <2>3 DEF P!ContextDone
    <3>2. conn'[g] = "over"
      BY <1>1, <3>1 DEF ProxyPlaces
    <3>3. ProxyPlace(g)'
      BY <2>1, <3>2 DEF ProxyPlace
    <3> QED
      BY <1>5, <2>1, <3>1, <3>3 DEF ProxyPlaces
  <2> QED
    BY <2>1, <2>2, <2>3
<1>11. ASSUME NEW g \in Gens, P!ForgetGatt(g) PROVE OverInv' /\ ProxyReports'
  <2>1. UNCHANGED <<java, connStateChanged, givenUp, stream, deaf>> /\ conn[g] = "dropping" /\ conn' = [conn EXCEPT ![g] = "closing"]
    BY <1>11 DEF P!ForgetGatt, P!link, P!pipe
  <2>2. conn'[g] = "closing" /\ java[g] = "gone" /\ Nowhere(g)
    BY <1>1, <2>1 DEF ProxyPlaces, ProxyPlace, ProxyReports
  <2>3. ProxyPlace(g)'
    BY <2>1, <2>2 DEF ProxyPlace
  <2> QED
    BY <1>5, <2>1, <2>3 DEF ProxyPlaces
<1>12. ASSUME NEW g \in Gens, P!CloseGatt(g) PROVE OverInv' /\ ProxyReports'
  <2>1. UNCHANGED <<connStateChanged, givenUp, stream, deaf>> /\ conn[g] = "closing" /\ conn' = [conn EXCEPT ![g] = "over"]
    BY <1>12 DEF P!CloseGatt, P!pipe
  <2>2. conn'[g] = "over" /\ java[g] = "gone" /\ Nowhere(g)
    BY <1>1, <2>1 DEF ProxyPlaces, ProxyPlace, ProxyReports
  <2>3. java' = java
    <3>1. P!Ended(java[g]) = java[g]
      BY <2>2, EndedFacts
    <3> QED
      BY <1>12, <3>1 DEF P!CloseGatt, LinkTypes
  <2>4. ProxyPlace(g)'
    BY <2>1, <2>2, <2>3 DEF ProxyPlace
  <2> QED
    BY <1>5, <2>1, <2>2, <2>3, <2>4 DEF ProxyPlaces
<1>13. ASSUME NEW g \in Gens, P!Abandon(g) PROVE OverInv' /\ ProxyReports'
  <2>1. UNCHANGED <<java, connStateChanged, givenUp, stream, deaf>> /\ conn[g] = "abandoning" /\ conn' = [conn EXCEPT ![g] = "over"]
    BY <1>13 DEF P!Abandon, P!link, P!pipe
  <2>2. conn'[g] = "over" /\ g \in CanCancel
    BY <1>1, <2>1 DEF ProxyPlaces, ProxyPlace, ProxyReports
  <2>3. ProxyPlace(g)'
    BY <2>1, <2>2 DEF ProxyPlace
  <2> QED
    BY <1>5, <2>1, <2>2, <2>3 DEF ProxyPlaces
<1>14. ASSUME NEW g \in Gens, NEW x, stream' = [stream EXCEPT ![g] = x]
       PROVE  stream'[g] = x /\ \A h \in Gens \ {g} : stream'[h] = stream[h]
  BY <1>14 DEF CallTypes
<1>15. ASSUME NEW g \in Gens, NEW x, NEW y, Alone(g), conn[g] # "idle", conn[g] = "over" => g \in CanCancel,
              conn' = conn, ProxyPlace(g)', java' = java \/ java' = [java EXCEPT ![g] = x], stream' = [stream EXCEPT ![g] = y]
       PROVE  OverInv' /\ ProxyReports'
  <2>1. \A h \in Gens \ {g} : conn'[h] = conn[h] /\ java'[h] = java[h] /\ stream'[h] = stream[h]
    BY <1>2, <1>14, <1>15
  <2> QED
    BY <1>15, <2>1, ProxyMove
<1>16. ASSUME NEW g \in Gens PROVE stream[g] \in Seq(StateEvent \cup Request) /\ ProxyPlace(g) /\ conn[g] \in ProxyPlaces
  BY DEF CallTypes, ProxyReports, ProxyTypes
<1>17. ASSUME NEW g \in Gens, P!OnConnected(g) PROVE OverInv' /\ ProxyReports'
  <2>1. PICK e \in StateEvent : e = [kind |-> "state", up |-> TRUE]
    BY DEF StateEvent
  <2>2. /\ java[g] = "connecting" /\ java' = [java EXCEPT ![g] = "up"] /\ UNCHANGED <<conn, connStateChanged, givenUp, deaf>>
        /\ stream' = [stream EXCEPT ![g] = Append(stream[g], e)]
    BY <1>17, <2>1 DEF P!OnConnected, P!attempt
  <2>3. Alone(g) /\ conn[g] # "idle" /\ (conn[g] = "over" => g \in CanCancel)
    BY <2>2, LiveAlone
  <2>4. java'[g] = "up" /\ stream'[g] = Append(stream[g], e) /\ e.up = TRUE
    BY <1>2, <1>14, <2>1, <2>2
  <2>5. NoState(stream[g]) => OneState(stream'[g], TRUE)
    <3>1. stream[g] \in Seq(StateEvent \cup Request)
      BY <1>16
    <3>2. \A x \in StateEvent : x.up = TRUE /\ NoState(stream[g]) => OneState(Append(stream[g], x), TRUE)
      BY <3>1, StateFacts
    <3> QED
      BY <2>1, <2>4, <3>2
  <2>6. ProxyPlace(g)'
    BY <1>16, <2>2, <2>3, <2>4, <2>5 DEF ProxyPlace
  <2> QED
    BY <1>15, <2>2, <2>3, <2>6
<1>18. ASSUME NEW g \in Gens, P!OnDisconnected(g) PROVE OverInv' /\ ProxyReports'
  <2>1. PICK e \in StateEvent : e = [kind |-> "state", up |-> FALSE]
    BY DEF StateEvent
  <2>2. /\ java[g] \in {"connecting", "up"} /\ (java[g] = "up" => conn[g] \notin {"called", "waiting"})
        /\ java' = [java EXCEPT ![g] = P!Ended(java[g])] /\ UNCHANGED <<conn, connStateChanged, givenUp, deaf>>
        /\ stream' = [stream EXCEPT ![g] = Append(stream[g], e)]
    BY <1>18, <2>1 DEF P!OnDisconnected, P!attempt
  <2>3. Alone(g) /\ conn[g] # "idle" /\ (conn[g] = "over" => g \in CanCancel)
    BY <2>2, LiveAlone
  <2>4. java'[g] = P!Ended(java[g]) /\ stream'[g] = Append(stream[g], e) /\ e.up = FALSE
    BY <1>2, <1>14, <2>1, <2>2
  <2>5. java'[g] = IF java[g] = "up" THEN "gone" ELSE "refused"
    BY <2>2, <2>4, EndedFacts
  <2>6. NoState(stream[g]) => OneState(stream'[g], FALSE)
    <3>1. stream[g] \in Seq(StateEvent \cup Request)
      BY <1>16
    <3>2. \A x \in StateEvent : x.up = FALSE /\ NoState(stream[g]) => OneState(Append(stream[g], x), FALSE)
      BY <3>1, StateFacts
    <3> QED
      BY <2>1, <2>4, <3>2
  <2>7. ProxyPlace(g)'
    BY <1>16, <2>2, <2>3, <2>5, <2>6 DEF ProxyPlace
  <2> QED
    BY <1>15, <2>2, <2>3, <2>7
<1>19. ASSUME NEW g \in Gens, P!HandleState(g) PROVE OverInv' /\ ProxyReports'
  <2>1. /\ conn[g] \notin {"idle", "called"} /\ stream[g] # <<>> /\ Head(stream[g]).kind = "state"
        /\ stream' = [stream EXCEPT ![g] = Tail(stream[g])] /\ UNCHANGED <<conn, java, givenUp, deaf>>
        /\ connStateChanged' = Offer(connStateChanged, [gen |-> g, up |-> Head(stream[g]).up])
    BY <1>19, SameCalls DEF P!HandleState, P!Reading, P!Read, P!attempt
  <2>2. ~ NoState(stream[g])
    BY <1>16, <2>1, StateFacts
  <2>3. Alone(g) /\ conn[g] # "idle" /\ (conn[g] = "over" => g \in CanCancel)
    BY <2>2, LiveAlone
  <2>4. stream'[g] = Tail(stream[g])
    BY <1>14, <2>1
  <2>5. ASSUME NEW u \in BOOLEAN, InStream(g, u) PROVE InChannel(g, u)'
    <3>1. Head(stream[g]).up = u /\ NoState(stream'[g])
      BY <1>16, <2>1, <2>4, <2>5, StateFacts
    <3>2. connStateChanged' = <<[gen |-> g, up |-> u]>>
      BY <2>1, <2>5, <3>1, ReportOffered
    <3> QED
      BY <3>1, <3>2
  <2>6. ProxyPlace(g)'
    <3>1. CASE conn[g] = "waiting"
      <4>1. (java[g] = "up" /\ InStream(g, TRUE)) \/ (java[g] = "refused" /\ InStream(g, FALSE))
        BY <1>16, <2>2, <3>1 DEF ProxyPlace
      <4>2. (java'[g] = "up" /\ InChannel(g, TRUE)') \/ (java'[g] = "refused" /\ InChannel(g, FALSE)')
        BY <2>1, <2>5, <4>1
      <4> QED
        BY <2>1, <3>1, <4>2 DEF ProxyPlace
    <3>2. CASE conn[g] = "connected"
      <4>1. java[g] = "gone" /\ InStream(g, FALSE)
        BY <1>16, <2>2, <3>2 DEF ProxyPlace
      <4>2. java'[g] = "gone" /\ InChannel(g, FALSE)'
        BY <2>1, <2>5, <4>1
      <4> QED
        BY <2>1, <3>2, <4>2 DEF ProxyPlace
    <3>3. CASE conn[g] \in {"abandoning", "over"}
      BY <1>16, <2>1, <2>3, <3>3 DEF ProxyPlace
    <3> QED
      BY <1>16, <2>1, <2>2, <3>1, <3>2, <3>3 DEF ProxyPlace, ProxyPlaces
  <2> QED
    BY <1>15, <2>1, <2>3, <2>6
<1>20. ASSUME NEW g \in Gens, P!LoseState(g) PROVE OverInv' /\ ProxyReports'
  <2>1. /\ conn[g] \notin {"idle", "called"} /\ stream[g] # <<>> /\ Head(stream[g]).kind = "state"
        /\ stream' = [stream EXCEPT ![g] = Tail(stream[g])] /\ UNCHANGED <<conn, java, givenUp, connStateChanged>>
        /\ g \in deaf'
    BY <1>20 DEF P!LoseState, P!Reading, P!Read, P!attempt
  <2>2. ~ NoState(stream[g])
    BY <1>16, <2>1, StateFacts
  <2>3. Alone(g) /\ conn[g] # "idle" /\ (conn[g] = "over" => g \in CanCancel)
    BY <2>2, LiveAlone
  <2>4. stream'[g] = Tail(stream[g])
    BY <1>14, <2>1
  <2>5. ASSUME NEW u \in BOOLEAN, InStream(g, u) PROVE Nowhere(g)'
    BY <1>16, <2>1, <2>4, <2>5, StateFacts
  <2>6. ProxyPlace(g)'
    <3>1. CASE conn[g] = "waiting"
      <4>1. (java[g] = "up" /\ InStream(g, TRUE)) \/ (java[g] = "refused" /\ InStream(g, FALSE))
        BY <1>16, <2>2, <3>1 DEF ProxyPlace
      <4>2. java'[g] \in {"up", "refused"} /\ Nowhere(g)'
        BY <2>1, <2>5, <4>1
      <4> QED
        BY <2>1, <3>1, <4>2 DEF ProxyPlace
    <3>2. CASE conn[g] = "connected"
      <4>1. java[g] = "gone" /\ InStream(g, FALSE)
        BY <1>16, <2>2, <3>2 DEF ProxyPlace
      <4>2. java'[g] = "gone" /\ Nowhere(g)'
        BY <2>1, <2>5, <4>1
      <4> QED
        BY <2>1, <3>2, <4>2 DEF ProxyPlace
    <3>3. CASE conn[g] \in {"abandoning", "over"}
      BY <1>16, <2>1, <2>3, <3>3 DEF ProxyPlace
    <3> QED
      BY <1>16, <2>1, <2>2, <3>1, <3>2, <3>3 DEF ProxyPlace, ProxyPlaces
  <2> QED
    BY <1>15, <2>1, <2>3, <2>6
<1>21. ASSUME UNCHANGED <<conn, java, connStateChanged, stream>>, givenUp \subseteq givenUp', deaf \subseteq deaf'
       PROVE  OverInv' /\ ProxyReports'
  <2>1. OverInv'
    BY <1>21 DEF OverInv
  <2>2. ASSUME NEW g \in Gens PROVE ProxyPlace(g)'
    BY <1>16, <1>21 DEF ProxyPlace
  <2> QED
    BY <2>1, <2>2 DEF ProxyReports
<1>22. ASSUME NEW g \in Gens, P!StreamEnds(g) PROVE OverInv' /\ ProxyReports'
  BY <1>21, <1>22 DEF P!StreamEnds, P!attempt
<1>23. CASE P!CancelConnection
  BY <1>21, <1>23 DEF P!CancelConnection, P!link, P!pipe
<1>24. CASE AnswersMove
  <2>1. UNCHANGED <<conn, java, connStateChanged, givenUp, deaf>>
    BY <1>24 DEF AnswersMove, links
  <2>2. ASSUME NEW g \in Gens PROVE ProxyPlace(g)'
    <3>1. /\ NoState(stream[g]) => NoState(stream'[g])
          /\ OneState(stream[g], TRUE) => OneState(stream'[g], TRUE)
          /\ OneState(stream[g], FALSE) => OneState(stream'[g], FALSE)
      BY <1>24 DEF AnswersMove
    <3> QED
      BY <1>16, <2>1, <3>1 DEF ProxyPlace
  <2>3. OverInv'
    BY <2>1 DEF OverInv
  <2> QED
    BY <2>2, <2>3 DEF ProxyReports
<1> QED
  BY ProxyLinks, <1>3, <1>4, <1>6, <1>7, <1>8, <1>9, <1>10, <1>11, <1>12, <1>13, <1>17, <1>18, <1>19, <1>20, <1>22,
     <1>23, <1>24 DEF P!Connection

-------------------------------------------------------------------------------
(* Proofs: connections over either backend                                 *)

\* The invariant of the connections.
LinkInv ==
  /\ backend \in Backends /\ LinkTypes /\ LinkOrder /\ OverInv
  /\ IF backend = "binder" THEN BinderReports ELSE ProxyReports

(* At the start there are no attempts. *)
LEMMA LinkStart == Init => LinkInv
<1> SUFFICES ASSUME Init PROVE LinkInv
  OBVIOUS
<1>1. /\ backend \in Backends /\ handle = 0 /\ conn = [g \in Gens |-> "idle"] /\ java = [g \in Gens |-> "none"]
      /\ connStateChanged = <<>> /\ givenUp = {} /\ service = 1 /\ stream = [g \in Gens |-> <<>>]
  BY GenFacts DEF Init, NewDevice, B!Init, P!Init
<1>2. LinkTypes /\ LinkOrder /\ OverInv
  BY <1>1, GenFacts DEF LinkTypes, LinkOrder, OverInv, Channel, Quiet
<1>3. BinderReports
  BY <1>1 DEF BinderReports, BinderTypes, BinderPlaces
<1>4. ProxyReports
  <2>1. ProxyTypes
    BY <1>1 DEF ProxyTypes, ProxyPlaces
  <2>2. ASSUME NEW g \in Gens PROVE ProxyPlace(g)
    BY <1>1 DEF ProxyPlace, NoState
  <2> QED
    BY <2>1, <2>2 DEF ProxyReports
<1> QED
  BY <1>1, <1>2, <1>3, <1>4 DEF LinkInv

(* Every step keeps the reports of the connections in their places. *)
LEMMA LinkStep ==
  ASSUME CanCancel \subseteq {MaxGen}, CallTypes, LinkInv, [Next]_vars
  PROVE  LinkInv'
<1>1. backend' = backend /\ handle \in {0} \cup Gens /\ backend \in {"binder", "jniproxy"}
  BY AndroidAssumption DEF Next, vars, CallTypes, LinkInv
<1>2. CASE UNCHANGED <<common, service, stream, deaf>>
  <2>1. UNCHANGED <<handle, conn, java, connStateChanged, givenUp, service, stream, deaf>>
    BY <1>2 DEF common
  <2>2. LinkTypes' /\ LinkOrder' /\ OverInv'
    BY <2>1 DEF LinkInv, LinkTypes, LinkOrder, OverInv, Quiet
  <2>3. CASE backend = "binder"
    BY <1>1, <2>1, <2>2, <2>3 DEF LinkInv, BinderReports, BinderTypes, Came, Went, Quiet
  <2>4. CASE backend = "jniproxy"
    <3>1. ASSUME NEW g \in Gens, ProxyPlace(g) PROVE ProxyPlace(g)'
      BY <2>1, <3>1 DEF ProxyPlace, OnTheWay, InStream, InChannel, Nowhere, NoState, OneState, Quiet
    <3>2. ProxyReports'
      BY <2>1, <2>4, <3>1 DEF LinkInv, ProxyReports, ProxyTypes
    <3> QED
      BY <1>1, <2>2, <2>4, <3>2 DEF LinkInv
  <2> QED
    BY <1>1, <2>3, <2>4
<1>3. CASE backend = "binder" /\ B!Next
  <2>1. LinkTypes' /\ BinderTypes'
    BY <1>1, <1>3, BinderTypesStep DEF LinkInv, BinderReports
  <2>2. LinkOrder'
    BY <1>1, <1>3, BinderOrderStep DEF LinkInv, BinderReports
  <2>3. OverInv' /\ BinderReports'
    BY <1>3, <2>1, BinderReportsStep DEF LinkInv
  <2> QED
    BY <1>1, <1>3, <2>1, <2>2, <2>3 DEF LinkInv
<1>4. CASE backend = "jniproxy" /\ P!Next
  <2>1. LinkTypes' /\ ProxyTypes'
    BY <1>1, <1>4, ProxyTypesStep DEF LinkInv, ProxyReports
  <2>2. LinkOrder'
    BY <1>1, <1>4, ProxyOrderStep DEF LinkInv, ProxyReports
  <2>3. OverInv' /\ ProxyReports'
    BY <1>4, <2>1, ProxyReportsStep DEF LinkInv
  <2> QED
    BY <1>1, <1>4, <2>1, <2>2, <2>3 DEF LinkInv
<1> QED
  BY <1>2, <1>3, <1>4 DEF Next, vars, common, binderOnly, proxyOnly

(* The report of every link is in one place, over either backend. *)
THEOREM LinkInvariant ==
  ASSUME CanCancel \subseteq {MaxGen}
  PROVE  Spec => []LinkInv
<1>1. CallsInv /\ LinkInv /\ [Next]_vars => LinkInv'
  BY LinkStep DEF CallsInv
<1> QED
  BY <1>1, LinkStart, CallsInvariant, PTL DEF Spec

(* The loss of a connected link is on its way to the monitor (LossSeen), unless the
   Bluetooth service went down (Binder) or the stream of the callbacks broke (proxy). *)
THEOREM LossesAreSeen ==
  ASSUME CanCancel \subseteq {MaxGen}
  PROVE  Spec => []LossSeen
<1>1. LinkInv => LossSeen
  <2> SUFFICES ASSUME LinkInv PROVE LossSeen
    OBVIOUS
  <2>1. CASE backend = "binder"
    BY <2>1, GenFacts DEF LinkInv, LossSeen, B!LossSeen, BinderReports, Went
  <2>2. CASE backend # "binder"
    <3> SUFFICES ASSUME NEW g \in Gens, conn[g] = "connected", java[g] # "up", g \notin deaf
                 PROVE  \/ connStateChanged = <<[gen |-> g, up |-> FALSE]>>
                        \/ \E i \in DOMAIN stream[g] : stream[g][i].kind = "state" /\ ~stream[g][i].up
      BY <2>2, GenFacts DEF LossSeen, P!LossSeen
    <3>1. OnTheWay(g, FALSE)
      BY <2>2 DEF LinkInv, ProxyReports, ProxyPlace
    <3> QED
      BY <3>1 DEF OnTheWay, InStream, InChannel, OneState
  <2> QED
    BY <2>1, <2>2
<1> QED
  BY <1>1, LinkInvariant, PTL

-------------------------------------------------------------------------------
(* Proofs: either backend keeps the promise of gatt.Device                 *)

\* What the application and the radio know of the attempts.
View == [g \in Gens |-> Told[conn[g]]]
Radio == [g \in Gens |-> Linked[java[g]]]

(* The stages of an attempt as the application sees them. *)
LEMMA BinderTold ==
  ASSUME backend = "binder"
  PROVE  /\ Told["idle"] = "idle" /\ Told["over"] = "over"
         /\ \A s \in {"registering", "stored", "waiting"} : Told[s] = "asked"
         /\ \A s \in {"connected", "dropping"} : Told[s] = "connected"
BY DEF Told, B!Told

(* The same over a proxy. *)
LEMMA ProxyTold ==
  ASSUME backend # "binder"
  PROVE  /\ Told["idle"] = "idle" /\ Told["over"] = "over"
         /\ \A s \in {"called", "waiting", "failing"} : Told[s] = "asked"
         /\ \A s \in {"connected", "dropping", "abandoning", "closing"} : Told[s] = "connected"
BY DEF Told, P!Told

(* The states of a link as the radio sees them. *)
LEMMA LinkedFacts ==
  /\ Linked["none"] = "never" /\ Linked["connecting"] = "never"
  /\ Linked["up"] = "up" /\ Linked["gone"] = "gone" /\ Linked["refused"] = "refused"
BY DEF Linked

(* A change of one attempt is a change of its entry in what is known. *)
LEMMA ViewFacts ==
  ASSUME NEW g \in Gens, backend' = backend, conn = [h \in Gens |-> conn[h]], LinkTypes
  PROVE  /\ View[g] = Told[conn[g]] /\ Radio[g] = Linked[java[g]]
         /\ conn' = conn => View' = View
         /\ java' = java => Radio' = Radio
         /\ \A s : conn' = [conn EXCEPT ![g] = s] =>
              View' = [View EXCEPT ![g] = Told[s]] /\ (Told[s] = Told[conn[g]] => View' = View)
         /\ \A s : java' = [java EXCEPT ![g] = s] =>
              Radio' = [Radio EXCEPT ![g] = Linked[s]] /\ (Linked[s] = Linked[java[g]] => Radio' = Radio)
<1>1. Told' = Told
  BY DEF Told, B!Told, P!Told
<1>2. \A h : Told'[h] = Told[h]
  BY <1>1
<1> QED
  BY <1>1, <1>2 DEF View, Radio, LinkTypes

(* What the steps of an attempt are to the application. *)
LEMMA AttemptSteps ==
  ASSUME NEW g \in Gens, NEW s, backend' = backend, conn = [h \in Gens |-> conn[h]], LinkTypes,
         conn' = [conn EXCEPT ![g] = s]
  PROVE  /\ Told[s] = Told[conn[g]] /\ Radio' = Radio /\ givenUp' = givenUp => UNCHANGED Life!lifeVars
         /\ Told[conn[g]] = "idle" /\ Told[s] = "asked" /\ Radio' = Radio /\ givenUp' = givenUp => Life!LifeNext
         /\ Told[conn[g]] = "asked" /\ Told[s] = "connected" /\ Linked[java[g]] \in {"up", "gone"}
              /\ Radio' = Radio /\ givenUp' = givenUp => Life!LifeNext
         /\ Told[conn[g]] \in {"idle", "asked"} /\ Told[s] = "over" /\ Radio' = Radio /\ givenUp' = givenUp => Life!LifeNext
         /\ Told[conn[g]] = "connected" /\ Told[s] = "over" /\ (Linked[java[g]] = "gone" \/ g \in givenUp)
              /\ Radio' = Radio /\ givenUp' = givenUp => Life!LifeNext
         /\ Told[conn[g]] # "idle" /\ Told[s] = Told[conn[g]] /\ Radio' = Radio /\ givenUp' = givenUp \cup {g}
              => Life!LifeNext
<1>1. /\ View[g] = Told[conn[g]] /\ Radio[g] = Linked[java[g]] /\ View' = [View EXCEPT ![g] = Told[s]]
      /\ Told[s] = Told[conn[g]] => View' = View
  BY ViewFacts
<1>2. Told[s] = Told[conn[g]] /\ Radio' = Radio /\ givenUp' = givenUp => UNCHANGED Life!lifeVars
  BY <1>1 DEF Life!lifeVars, View, Radio
<1>3. Told[conn[g]] = "idle" /\ Told[s] = "asked" /\ Radio' = Radio /\ givenUp' = givenUp => Life!Ask(g)
  BY <1>1 DEF Life!Ask, View, Radio
<1>4. Told[conn[g]] = "asked" /\ Told[s] = "connected" /\ Linked[java[g]] \in {"up", "gone"}
        /\ Radio' = Radio /\ givenUp' = givenUp => Life!ReportConnected(g)
  BY <1>1 DEF Life!ReportConnected, View, Radio
<1>5. Told[conn[g]] \in {"idle", "asked"} /\ Told[s] = "over" /\ Radio' = Radio /\ givenUp' = givenUp
        => Life!ReportFailed(g)
  BY <1>1 DEF Life!ReportFailed, Life!Released, View, Radio
<1>6. Told[conn[g]] = "connected" /\ Told[s] = "over" /\ (Linked[java[g]] = "gone" \/ g \in givenUp)
        /\ Radio' = Radio /\ givenUp' = givenUp => Life!ReportDisconnected(g)
  BY <1>1 DEF Life!ReportDisconnected, Life!Released, View, Radio
<1>7. Told[conn[g]] # "idle" /\ Told[s] = Told[conn[g]] /\ Radio' = Radio /\ givenUp' = givenUp \cup {g}
        => Life!GiveUp(g)
  BY <1>1 DEF Life!GiveUp, View, Radio
<1> QED
  BY <1>2, <1>3, <1>4, <1>5, <1>6, <1>7 DEF Life!LifeNext

(* What the steps of its link are. *)
LEMMA RadioSteps ==
  ASSUME NEW g \in Gens, NEW s, backend' = backend, conn = [h \in Gens |-> conn[h]], LinkTypes,
         java' = [java EXCEPT ![g] = s], UNCHANGED <<conn, givenUp>>, Told[conn[g]] # "idle",
         <<java[g], s>> \in {<<"connecting", "up">>, <<"connecting", "refused">>, <<"up", "gone">>}
  PROVE  Life!LifeNext
<1>1. View[g] = Told[conn[g]] /\ Radio[g] = Linked[java[g]] /\ View' = View /\ Radio' = [Radio EXCEPT ![g] = Linked[s]]
  BY ViewFacts
<1>2. CASE java[g] = "connecting" /\ s = "up"
  <2>1. Life!LinkUp(g)
    BY <1>1, <1>2, LinkedFacts DEF Life!LinkUp, View, Radio
  <2> QED
    BY <2>1 DEF Life!LifeNext
<1>3. CASE java[g] = "connecting" /\ s = "refused"
  <2>1. Life!LinkEnds(g)
    BY <1>1, <1>3, LinkedFacts DEF Life!LinkEnds, Life!Ended, View, Radio
  <2> QED
    BY <2>1 DEF Life!LifeNext
<1>4. CASE java[g] = "up" /\ s = "gone"
  <2>1. Life!LinkEnds(g)
    BY <1>1, <1>4, LinkedFacts DEF Life!LinkEnds, Life!Ended, View, Radio
  <2> QED
    BY <2>1 DEF Life!LifeNext
<1> QED
  BY <1>2, <1>3, <1>4

(* CancelConnection. *)
LEMMA CancelStep ==
  ASSUME backend' = backend, conn = [h \in Gens |-> conn[h]], LinkTypes, handle \in Gens, Told[conn[handle]] # "idle",
         givenUp' = givenUp \cup {handle}, UNCHANGED <<conn, java>>
  PROVE  Life!LifeNext
<1>1. View[handle] = Told[conn[handle]] /\ View' = View /\ Radio' = Radio
  BY ViewFacts
<1>2. Life!GiveUp(handle)
  BY <1>1 DEF Life!GiveUp, View, Radio
<1> QED
  BY <1>2 DEF Life!LifeNext

(* Every step over Binder is a step of the life of one attempt, or hidden. *)
LEMMA BinderLife ==
  ASSUME CanCancel \subseteq {MaxGen}, LinkInv, backend = "binder", backend' = backend, handle \in {0} \cup Gens, B!Next
  PROVE  [Life!LifeNext]_(Life!lifeVars)
<1>1. LinkTypes /\ LinkOrder /\ OverInv /\ BinderReports /\ conn = [h \in Gens |-> conn[h]]
  BY DEF LinkInv, BinderReports, BinderTypes
<1>2. ASSUME NEW g \in Gens PROVE conn[g] \in BinderPlaces /\ (conn[g] # "idle" => Told[conn[g]] # "idle")
  BY <1>1, BinderTold DEF BinderReports, BinderTypes, BinderPlaces
<1>3. java' = java => Radio' = Radio
  BY DEF Radio
<1>4. ASSUME NEW g \in Gens, B!ConnectFails(g) \/ B!RegisterClient(g) PROVE Life!LifeNext
  <2>1. \E s \in {"over", "registering"} : conn' = [conn EXCEPT ![g] = s]
    BY <1>4 DEF B!ConnectFails, B!RegisterClient
  <2>2. conn[g] = "idle" /\ UNCHANGED <<java, givenUp>>
    BY <1>4 DEF B!ConnectFails, B!RegisterClient, B!MayConnect
  <2> QED
    BY <1>1, <1>3, <2>1, <2>2, AttemptSteps, BinderTold
<1>5. ASSUME NEW g \in Gens, B!TakeRegistered(g) PROVE [Life!LifeNext]_(Life!lifeVars)
  <2>1. \E s \in {"over", "stored"} : conn' = [conn EXCEPT ![g] = s]
    BY <1>5 DEF B!TakeRegistered
  <2>2. conn[g] = "registering" /\ UNCHANGED <<java, givenUp>>
    BY <1>5 DEF B!TakeRegistered
  <2> QED
    BY <1>1, <1>3, <2>1, <2>2, AttemptSteps, BinderTold
<1>6. ASSUME NEW g \in Gens, NEW ok \in BOOLEAN, B!ClientConnect(g, ok) PROVE [Life!LifeNext]_(Life!lifeVars)
  <2>1. \E s \in {"over", "waiting"} : conn' = [conn EXCEPT ![g] = s]
    BY <1>6 DEF B!ClientConnect
  <2>2. conn[g] = "stored" /\ java[g] = "none" /\ givenUp' = givenUp
    BY <1>1, <1>6 DEF B!ClientConnect, BinderReports
  <2>3. Radio' = Radio
    <3>1. java' = java \/ java' = [java EXCEPT ![g] = "connecting"]
      BY <1>6 DEF B!ClientConnect
    <3>2. Linked["connecting"] = Linked[java[g]]
      BY <2>2, LinkedFacts
    <3> QED
      BY <1>1, <1>3, <3>1, <3>2, ViewFacts
  <2> QED
    BY <1>1, <2>1, <2>2, <2>3, AttemptSteps, BinderTold
<1>7. ASSUME NEW g \in Gens, B!TakeConnState(g) PROVE Life!LifeNext
  <2>1. conn[g] = "waiting" /\ UNCHANGED <<java, givenUp>>
    BY <1>7 DEF B!TakeConnState
  <2>2. CASE Head(connStateChanged).up
    <3>1. conn' = [conn EXCEPT ![g] = "connected"] /\ Linked[java[g]] \in {"up", "gone"}
      BY <1>1, <1>7, <2>2, ReportFacts, LinkedFacts DEF B!TakeConnState, BinderReports, Came, Went, Quiet
    <3> QED
      BY <1>1, <1>3, <2>1, <3>1, AttemptSteps, BinderTold
  <2>3. CASE ~ Head(connStateChanged).up
    <3>1. conn' = [conn EXCEPT ![g] = "over"]
      BY <1>7, <2>3 DEF B!TakeConnState
    <3> QED
      BY <1>1, <1>3, <2>1, <3>1, AttemptSteps, BinderTold
  <2> QED
    BY <2>2, <2>3
<1>8. ASSUME NEW g \in Gens, B!MonitorTakes(g) PROVE UNCHANGED Life!lifeVars
  <2>1. conn[g] = "connected" /\ conn' = [conn EXCEPT ![g] = "dropping"] /\ UNCHANGED <<java, givenUp>>
    BY <1>8 DEF B!MonitorTakes
  <2> QED
    BY <1>1, <1>3, <2>1, AttemptSteps, BinderTold
<1>9. ASSUME NEW g \in Gens, B!ContextDone(g) PROVE Life!LifeNext
  <2>1. java' = java
    BY <1>9 DEF B!ContextDone
  <2>2. CASE conn[g] = "connected"
    <3>1. conn' = [conn EXCEPT ![g] = "dropping"] /\ givenUp' = givenUp \cup {g}
      BY <1>9, <2>2 DEF B!ContextDone
    <3> QED
      BY <1>1, <1>3, <2>1, <2>2, <3>1, AttemptSteps, BinderTold
  <2>3. CASE conn[g] # "connected"
    <3>1. conn' = [conn EXCEPT ![g] = "over"] /\ givenUp' = givenUp /\ conn[g] \in {"registering", "waiting"}
      BY <1>9, <2>3 DEF B!ContextDone
    <3> QED
      BY <1>1, <1>3, <2>1, <3>1, AttemptSteps, BinderTold
  <2> QED
    BY <2>2, <2>3
<1>10. ASSUME NEW g \in Gens, B!DropLink(g) PROVE Life!LifeNext
  <2>1. conn[g] = "dropping" /\ conn' = [conn EXCEPT ![g] = "over"] /\ UNCHANGED <<java, givenUp>>
    BY <1>10 DEF B!DropLink
  <2>2. Linked[java[g]] = "gone" \/ g \in givenUp
    BY <1>1, <2>1, LinkedFacts DEF BinderReports
  <2> QED
    BY <1>1, <1>3, <2>1, <2>2, AttemptSteps, BinderTold
<1>11. ASSUME NEW g \in Gens, NEW s, java' = [java EXCEPT ![g] = s], UNCHANGED <<conn, givenUp>>,
              <<java[g], s>> \in {<<"connecting", "up">>, <<"connecting", "refused">>, <<"up", "gone">>}
       PROVE  Life!LifeNext
  <2>1. java[g] \in {"connecting", "up"}
    BY <1>11
  <2>2. Told[conn[g]] # "idle"
    BY <1>1, <1>2, <2>1 DEF LinkOrder
  <2> QED
    BY <1>1, <1>11, <2>2, RadioSteps
<1>12. ASSUME NEW g \in Gens, B!OnConnected(g) PROVE Life!LifeNext
  BY <1>11, <1>12 DEF B!OnConnected, B!attempt
<1>13. ASSUME NEW g \in Gens, B!OnDisconnected(g) PROVE Life!LifeNext
  <2>1. java[g] \in {"connecting", "up"} /\ java' = [java EXCEPT ![g] = B!Ended(java[g])] /\ UNCHANGED <<conn, givenUp>>
    BY <1>13 DEF B!OnDisconnected, B!attempt
  <2> QED
    BY <1>11, <2>1, EndedFacts
<1>14. CASE B!OnBluetoothServiceDown
  <2>1. java' = [h \in Gens |-> B!Ended(java[h])] /\ UNCHANGED <<conn, givenUp>>
    BY <1>14, GenFacts DEF B!OnBluetoothServiceDown, B!attempt
  <2>2. CASE \E g \in Gens : java[g] \in {"connecting", "up"}
    <3>1. PICK g \in Gens : java[g] \in {"connecting", "up"}
      BY <2>2
    <3>2. Alone(g)
      <4>1. conn[g] # "idle" /\ (conn[g] = "over" => g \in CanCancel)
        BY <1>1, <3>1 DEF LinkOrder, OverInv
      <4> QED
        BY <1>1, <4>1, StillAlone
    <3>3. java' = [java EXCEPT ![g] = B!Ended(java[g])]
      <4>1. \A h \in Gens \ {g} : B!Ended(java[h]) = java[h]
        BY <3>2, EndedFacts DEF Alone
      <4> QED
        BY <1>1, <2>1, <4>1 DEF LinkTypes
    <3> QED
      BY <1>11, <2>1, <3>1, <3>3, EndedFacts
  <2>3. CASE \A g \in Gens : java[g] \notin {"connecting", "up"}
    <3>1. \A h \in Gens : B!Ended(java[h]) = java[h]
      BY <1>1, <2>3, EndedFacts DEF LinkTypes
    <3>2. java' = java
      BY <1>1, <2>1, <3>1 DEF LinkTypes
    <3> QED
      BY <2>1, <3>2 DEF Life!lifeVars, Told
  <2> QED
    BY <2>2, <2>3
<1>15. CASE B!CancelConnection
  <2>1. handle \in Gens /\ conn[handle] # "idle" /\ givenUp' = givenUp \cup {handle} /\ UNCHANGED <<conn, java>>
    BY <1>1, <1>15 DEF B!CancelConnection, LinkOrder
  <2> QED
    BY <1>1, <1>2, <2>1, CancelStep
<1>16. CASE UNCHANGED <<conn, java, givenUp>>
  BY <1>16 DEF Life!lifeVars, Told
<1>17. ASSUME B!OnBluetoothServiceUp \/ UNCHANGED <<links, service>> \/
              \E g \in Gens : \E ok \in BOOLEAN : B!OnClientRegistered(g, ok)
       PROVE  UNCHANGED <<conn, java, givenUp>>
  BY <1>17 DEF B!OnBluetoothServiceUp, links, B!OnClientRegistered, B!attempt
<1> QED
  BY BinderLinks, <1>4, <1>5, <1>6, <1>7, <1>8, <1>9, <1>10, <1>12, <1>13, <1>14, <1>15, <1>16, <1>17 DEF B!Connection

(* Every step over a proxy is a step of the life of one attempt, or hidden. *)
LEMMA ProxyLife ==
  ASSUME CanCancel \subseteq {MaxGen}, CallTypes, LinkInv, backend = "jniproxy", backend' = backend, P!Next
  PROVE  [Life!LifeNext]_(Life!lifeVars)
<1>1. /\ LinkTypes /\ LinkOrder /\ OverInv /\ ProxyReports /\ conn = [h \in Gens |-> conn[h]]
      /\ handle \in {0} \cup Gens
  BY DEF LinkInv, ProxyReports, ProxyTypes, CallTypes
<1>2. ASSUME NEW g \in Gens PROVE ProxyPlace(g) /\ (conn[g] # "idle" => Told[conn[g]] # "idle")
  BY <1>1, ProxyTold DEF ProxyReports, ProxyTypes, ProxyPlaces
<1>3. java' = java => Radio' = Radio
  BY DEF Radio
<1>4. ASSUME NEW g \in Gens, P!ConnectFails(g) PROVE Life!LifeNext
  <2>1. conn[g] = "idle" /\ conn' = [conn EXCEPT ![g] = "over"] /\ UNCHANGED <<java, givenUp>>
    BY <1>4 DEF P!ConnectFails, P!MayConnect, P!link
  <2> QED
    BY <1>1, <1>3, <2>1, AttemptSteps, ProxyTold
<1>5. ASSUME NEW g \in Gens, P!Connect(g) PROVE Life!LifeNext
  <2>1. /\ conn[g] = "idle" /\ conn' = [conn EXCEPT ![g] = "called"] /\ givenUp' = givenUp
        /\ java[g] = "none" /\ java' = [java EXCEPT ![g] = "connecting"]
    BY <1>1, <1>5 DEF P!Connect, P!MayConnect, LinkOrder
  <2>2. Radio' = Radio
    <3>1. Linked["connecting"] = Linked[java[g]]
      BY <2>1, LinkedFacts
    <3> QED
      BY <1>1, <2>1, <3>1, ViewFacts
  <2> QED
    BY <1>1, <2>1, <2>2, AttemptSteps, ProxyTold
<1>6. ASSUME NEW g \in Gens, P!StoreGatt(g) \/ P!MonitorTakes(g) \/ P!ForgetGatt(g) PROVE UNCHANGED Life!lifeVars
  <2>1. \E s : conn' = [conn EXCEPT ![g] = s] /\ Told[s] = Told[conn[g]]
    BY <1>6, ProxyTold DEF P!StoreGatt, P!MonitorTakes, P!ForgetGatt
  <2>2. UNCHANGED <<java, givenUp>>
    BY <1>6 DEF P!StoreGatt, P!MonitorTakes, P!ForgetGatt, P!link
  <2> QED
    BY <1>1, <1>3, <2>1, <2>2, AttemptSteps
<1>7. ASSUME NEW g \in Gens, P!TakeConnState(g) PROVE [Life!LifeNext]_(Life!lifeVars)
  <2>1. conn[g] = "waiting" /\ connStateChanged # <<>> /\ UNCHANGED <<java, givenUp>>
    BY <1>7 DEF P!TakeConnState
  <2>2. CASE Head(connStateChanged).up
    <3>1. conn' = [conn EXCEPT ![g] = "connected"]
      BY <1>7, <2>2 DEF P!TakeConnState
    <3>2. java[g] = "up"
      BY <1>2, <2>1, <2>2, ReportFacts DEF ProxyPlace, OnTheWay, InStream, InChannel, Nowhere, Quiet
    <3> QED
      BY <1>1, <1>3, <2>1, <3>1, <3>2, AttemptSteps, ProxyTold, LinkedFacts
  <2>3. CASE ~ Head(connStateChanged).up
    <3>1. conn' = [conn EXCEPT ![g] = "failing"]
      BY <1>7, <2>3 DEF P!TakeConnState
    <3> QED
      BY <1>1, <1>3, <2>1, <3>1, AttemptSteps, ProxyTold
  <2> QED
    BY <2>2, <2>3
<1>8. ASSUME NEW g \in Gens, P!ForgetFailed(g) PROVE Life!LifeNext
  <2>1. conn[g] = "failing" /\ conn' = [conn EXCEPT ![g] = "over"] /\ UNCHANGED <<java, givenUp>>
    BY <1>8 DEF P!ForgetFailed, P!link
  <2> QED
    BY <1>1, <1>3, <2>1, AttemptSteps, ProxyTold
<1>9. ASSUME NEW g \in Gens, P!ContextDone(g) PROVE Life!LifeNext
  <2>1. java' = java
    BY <1>9 DEF P!ContextDone
  <2>2. CASE conn[g] = "connected"
    <3>1. conn' = [conn EXCEPT ![g] = "abandoning"] /\ givenUp' = givenUp \cup {g}
      BY <1>9, <2>2 DEF P!ContextDone
    <3> QED
      BY <1>1, <1>3, <2>1, <2>2, <3>1, AttemptSteps, ProxyTold
  <2>3. CASE conn[g] # "connected"
    <3>1. conn' = [conn EXCEPT ![g] = "over"] /\ givenUp' = givenUp /\ conn[g] = "waiting"
      BY <1>9, <2>3 DEF P!ContextDone
    <3> QED
      BY <1>1, <1>3, <2>1, <3>1, AttemptSteps, ProxyTold
  <2> QED
    BY <2>2, <2>3
<1>10. ASSUME NEW g \in Gens, P!CloseGatt(g) PROVE Life!LifeNext
  <2>1. conn[g] = "closing" /\ conn' = [conn EXCEPT ![g] = "over"] /\ givenUp' = givenUp
    BY <1>10 DEF P!CloseGatt
  <2>2. java[g] = "gone"
    BY <1>2, <2>1 DEF ProxyPlace
  <2>3. java' = java
    <3>1. P!Ended(java[g]) = java[g]
      BY <2>2, EndedFacts
    <3> QED
      BY <1>1, <1>10, <3>1 DEF P!CloseGatt, LinkTypes
  <2> QED
    BY <1>1, <1>3, <2>1, <2>2, <2>3, AttemptSteps, ProxyTold, LinkedFacts
<1>11. ASSUME NEW g \in Gens, P!Abandon(g) PROVE Life!LifeNext
  <2>1. conn[g] = "abandoning" /\ conn' = [conn EXCEPT ![g] = "over"] /\ UNCHANGED <<java, givenUp>>
    BY <1>11 DEF P!Abandon, P!link
  <2>2. g \in givenUp
    BY <1>2, <2>1 DEF ProxyPlace
  <2> QED
    BY <1>1, <1>3, <2>1, <2>2, AttemptSteps, ProxyTold
<1>12. ASSUME NEW g \in Gens, NEW s, java' = [java EXCEPT ![g] = s], UNCHANGED <<conn, givenUp>>,
              <<java[g], s>> \in {<<"connecting", "up">>, <<"connecting", "refused">>, <<"up", "gone">>}
       PROVE  Life!LifeNext
  <2>1. java[g] \in {"connecting", "up"}
    BY <1>12
  <2>2. Told[conn[g]] # "idle"
    BY <1>1, <1>2, <2>1 DEF LinkOrder
  <2> QED
    BY <1>1, <1>12, <2>2, RadioSteps
<1>13. ASSUME NEW g \in Gens, P!OnConnected(g) PROVE Life!LifeNext
  BY <1>12, <1>13 DEF P!OnConnected, P!attempt
<1>14. ASSUME NEW g \in Gens, P!OnDisconnected(g) PROVE Life!LifeNext
  <2>1. java[g] \in {"connecting", "up"} /\ java' = [java EXCEPT ![g] = P!Ended(java[g])] /\ UNCHANGED <<conn, givenUp>>
    BY <1>14 DEF P!OnDisconnected, P!attempt
  <2> QED
    BY <1>12, <2>1, EndedFacts
<1>15. CASE P!CancelConnection
  <2>1. handle \in Gens /\ conn[handle] # "idle" /\ givenUp' = givenUp \cup {handle} /\ UNCHANGED <<conn, java>>
    BY <1>1, <1>15 DEF P!CancelConnection, LinkOrder, P!link
  <2> QED
    BY <1>1, <1>2, <2>1, CancelStep
<1>16. CASE UNCHANGED <<conn, java, givenUp>>
  BY <1>16 DEF Life!lifeVars, Told
<1>17. ASSUME AnswersMove \/ \E g \in Gens : P!HandleState(g) \/ P!LoseState(g) \/ P!StreamEnds(g)
       PROVE  UNCHANGED <<conn, java, givenUp>>
  BY <1>17 DEF AnswersMove, links, P!HandleState, P!LoseState, P!StreamEnds, P!attempt
<1> QED
  BY ProxyLinks, <1>4, <1>5, <1>6, <1>7, <1>8, <1>9, <1>10, <1>11, <1>13, <1>14, <1>15, <1>16, <1>17 DEF P!Connection

(* Connect and the monitor of either backend keep what gatt.Device promises about an
   attempt (KeepsPromise): AndroidDevice implements PeripheralLife. *)
THEOREM PromiseIsKept ==
  ASSUME CanCancel \subseteq {MaxGen}
  PROVE  Spec => KeepsPromise
<1>1. Init => Life!LifeInit
  <2> SUFFICES ASSUME Init PROVE Life!LifeInit
    OBVIOUS
  <2>1. conn = [g \in Gens |-> "idle"] /\ java = [g \in Gens |-> "none"] /\ givenUp = {}
    BY GenFacts DEF Init, B!Init
  <2>2. Told["idle"] = "idle"
    BY BinderTold, ProxyTold
  <2> QED
    BY <2>1, <2>2, LinkedFacts DEF Life!LifeInit
<1>2. CallsInv /\ LinkInv /\ [Next]_vars => [Life!LifeNext]_(Life!lifeVars)
  <2> SUFFICES ASSUME CallTypes, LinkInv, [Next]_vars PROVE [Life!LifeNext]_(Life!lifeVars)
    BY DEF CallsInv
  <2>1. backend' = backend /\ handle \in {0} \cup Gens
    BY DEF Next, vars, CallTypes
  <2>2. CASE UNCHANGED common
    BY <2>1, <2>2 DEF Life!lifeVars, Told, common
  <2>3. CASE backend = "binder" /\ B!Next
    BY <2>1, <2>3, BinderLife
  <2>4. CASE backend = "jniproxy" /\ P!Next
    BY <2>1, <2>4, ProxyLife
  <2> QED
    BY <2>2, <2>3, <2>4 DEF Next, vars
<1> QED
  BY <1>1, <1>2, CallsInvariant, LinkInvariant, PTL DEF Spec, KeepsPromise, Life!LifeSpec
===============================================================================
