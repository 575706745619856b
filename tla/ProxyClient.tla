----------------------------- MODULE ProxyClient -----------------------------
(***************************************************************************)
(* The client side of the Android backend over a JNI proxy: Connect, the   *)
(* monitor of a connection and CancelConnection                            *)
(* (android/jniproxy/connect.go) and the operations of a peripheral        *)
(* (peripheral.go).  Every use of a Java object is an RPC, and the         *)
(* callbacks of an attempt come in order on a stream of its own, which one *)
(* goroutine (processGattProxy) reads until the stream ends: with the      *)
(* context of Connect, or with the connection to the proxy.                *)
(*                                                                         *)
(* External: BluetoothGatt, as in JniClient, and the proxy that carries    *)
(* its callbacks.                                                          *)
(***************************************************************************)
EXTENDS GattCalls

CONSTANTS
  CanCancel,  \* the attempts whose context may be cancelled
  CanBreak    \* the attempts whose stream and RPCs may fail

Exclusive == {"read", "descread", "descwrite", "write"}
\* Written in two RPCs: the value is set in the Java object, then written.
Written == {"write", "descwrite"}

VARIABLES
  handle,            \* per.gattHandle: 0, or the attempt whose BluetoothGatt it is
  conn,              \* conn[g]: where Connect and the monitor of attempt g are
  java,              \* java[g]: the link as BluetoothGatt g knows it
  connStateChanged,  \* the channel per.connStateChanged
  givenUp,           \* attempts the application cancelled
  closed,            \* the BluetoothGatts that were closed
  stream,            \* stream[g]: callbacks sent and not yet read
  ended,             \* attempts whose stream has ended
  deaf,              \* auxiliary: those and the ones that lost a change of state
  charHandles,       \* p.charHandles holds what a discovery found
  javaValue          \* whose value each Java object that is written holds

attempt == <<handle, conn, givenUp>>
pipe == <<stream, ended, deaf>>
link == <<java, closed, pipe, connStateChanged>>
objects == <<charHandles, javaValue>>
proxyVars == <<attempt, link, objects>>
vars == <<proxyVars, calls>>

\* The device was started and its peripheral found, perhaps connected before.
Init ==
  /\ handle = 0 /\ conn = [g \in Gens |-> "idle"] /\ java = [g \in Gens |-> "none"]
  /\ connStateChanged = <<>> /\ givenUp = {} /\ closed = {}
  /\ stream = [g \in Gens |-> <<>>] /\ ended = {} /\ deaf = {}
  /\ charHandles \in BOOLEAN /\ javaValue = [k \in Written |-> NoCaller]
  /\ CallsInit

Ended(state) ==
  CASE state = "connecting" -> "refused" [] state = "up" -> "gone" [] OTHER -> state

-------------------------------------------------------------------------------
(* Connections                                                             *)

\* The application calls Connect again only when the last attempt is over.
MayConnect(g) == conn[g] = "idle" /\ \A h \in Gens : h < g => conn[h] = "over"

\* Connect fails before there is a BluetoothGatt: the stream, the proxy of the
\* callback or connectGatt.
ConnectFails(g) ==
  /\ MayConnect(g)
  /\ conn' = [conn EXCEPT ![g] = "over"]
  /\ UNCHANGED <<handle, givenUp, link, objects, calls>>

\* connectGatt; from here callbacks come, but nobody reads them yet.
Connect(g) ==
  /\ MayConnect(g)
  /\ conn' = [conn EXCEPT ![g] = "called"]
  /\ java' = [java EXCEPT ![g] = "connecting"]
  /\ UNCHANGED <<handle, givenUp, closed, pipe, connStateChanged, objects, calls>>

\* per.gattHandle is stored, under per.mu, and the reader of the stream started.
StoreGatt(g) ==
  /\ conn[g] = "called"
  /\ conn' = [conn EXCEPT ![g] = "waiting"]
  /\ handle' = g
  /\ UNCHANGED <<givenUp, link, objects, calls>>

\* Connect takes the first change of state: success, or anything else.
TakeConnState(g) ==
  /\ conn[g] = "waiting" /\ connStateChanged # <<>>
  /\ connStateChanged' = Tail(connStateChanged)
  /\ conn' = [conn EXCEPT ![g] = IF Head(connStateChanged).up THEN "connected" ELSE "failing"]
  /\ UNCHANGED <<handle, givenUp, java, closed, pipe, objects, calls>>

\* A failed Connect deletes its references, then forgets the handle and reports.
ForgetFailed(g) ==
  /\ conn[g] = "failing"
  /\ handle' = 0
  /\ conn' = [conn EXCEPT ![g] = "over"]
  /\ UNCHANGED <<givenUp, link, objects, calls>>

\* The monitor takes the next change of state for the end of the connection.
MonitorTakes(g) ==
  /\ conn[g] = "connected" /\ connStateChanged # <<>>
  /\ connStateChanged' = Tail(connStateChanged)
  /\ conn' = [conn EXCEPT ![g] = "dropping"]
  /\ UNCHANGED <<handle, givenUp, java, closed, pipe, objects, calls>>

\* The context ends while Connect waits, which leaves per.gattHandle, or while
\* the monitor does.  The stream ends with it.
ContextDone(g) ==
  /\ g \in CanCancel /\ conn[g] \in {"waiting", "connected"}
  /\ conn' = [conn EXCEPT ![g] = IF @ = "connected" THEN "abandoning" ELSE "over"]
  /\ givenUp' = IF conn[g] = "connected" THEN givenUp \cup {g} ELSE givenUp
  /\ ended' = ended \cup {g} /\ deaf' = deaf \cup {g}
  /\ UNCHANGED <<handle, java, closed, stream, connStateChanged, objects, calls>>

\* The monitor forgets the handle, under per.mu ...
ForgetGatt(g) ==
  /\ conn[g] = "dropping"
  /\ handle' = 0
  /\ conn' = [conn EXCEPT ![g] = "closing"]
  /\ UNCHANGED <<givenUp, link, objects, calls>>

\* ... then closes the BluetoothGatt, if its RPCs succeed, and reports ...
CloseGatt(g) ==
  /\ conn[g] = "closing"
  /\ conn' = [conn EXCEPT ![g] = "over"]
  /\ \/ g \in CanBreak /\ UNCHANGED <<closed, java, outstanding>>
     \/ /\ closed' = closed \cup {g}
        /\ java' = [java EXCEPT ![g] = Ended(@)]
        /\ outstanding' = {r \in outstanding : r.gen # g}
  /\ UNCHANGED <<handle, givenUp, pipe, connStateChanged, objects, nreq, chan, call, mixed>>

\* ... but under a context that has ended every RPC fails: the link stays.
Abandon(g) ==
  /\ conn[g] = "abandoning"
  /\ handle' = 0
  /\ conn' = [conn EXCEPT ![g] = "over"]
  /\ UNCHANGED <<givenUp, link, objects, calls>>

\* CancelConnection only asks: the report comes with the change of state.
CancelConnection ==
  /\ handle # 0 /\ handle \notin givenUp
  /\ givenUp' = givenUp \cup {handle}
  /\ UNCHANGED <<handle, conn, link, objects, calls>>

\* onConnectionStateChange is sent (external): the link comes up; it is lost, or
\* was never had.  A link is not lost before Connect has seen that it is up.
OnConnected(g) ==
  /\ java[g] = "connecting" /\ g \notin closed
  /\ java' = [java EXCEPT ![g] = "up"]
  /\ stream' = [stream EXCEPT ![g] = Append(@, [kind |-> "state", up |-> TRUE])]
  /\ UNCHANGED <<attempt, closed, ended, deaf, connStateChanged, objects, calls>>

OnDisconnected(g) ==
  /\ java[g] \in {"connecting", "up"} /\ g \notin closed
  /\ java[g] = "up" => conn[g] \notin {"called", "waiting"}
  /\ java' = [java EXCEPT ![g] = Ended(@)]
  /\ stream' = [stream EXCEPT ![g] = Append(@, [kind |-> "state", up |-> FALSE])]
  /\ outstanding' = {r \in outstanding : r.gen # g}
  /\ UNCHANGED <<attempt, closed, ended, deaf, connStateChanged, objects, nreq, chan, call, mixed>>

-------------------------------------------------------------------------------
(* processGattProxy and handleGattCallback                                 *)

Read(g) == [stream EXCEPT ![g] = Tail(@)]
Reading(g) == conn[g] \notin {"idle", "called"} /\ g \notin ended /\ stream[g] # <<>>

\* A change of state is offered to connStateChanged ...
HandleState(g) ==
  /\ Reading(g) /\ Head(stream[g]).kind = "state"
  /\ stream' = Read(g)
  /\ connStateChanged' = Offer(connStateChanged, [gen |-> g, up |-> Head(stream[g]).up])
  /\ UNCHANGED <<attempt, java, closed, ended, deaf, objects, calls>>

\* ... unless the RPC that unboxes it fails.
LoseState(g) ==
  /\ g \in CanBreak /\ Reading(g) /\ Head(stream[g]).kind = "state"
  /\ stream' = Read(g)
  /\ deaf' = deaf \cup {g}
  /\ UNCHANGED <<attempt, java, closed, ended, connStateChanged, objects, calls>>

\* The stream may end at any time, and processGattProxy with it.
StreamEnds(g) ==
  /\ g \in CanBreak /\ conn[g] \in {"waiting", "connected"} /\ g \notin ended
  /\ ended' = ended \cup {g} /\ deaf' = deaf \cup {g}
  /\ UNCHANGED <<attempt, java, closed, stream, connStateChanged, objects, calls>>

\* An answer is offered to the channel of its kind.
HandleAnswer(g) ==
  LET e == Head(stream[g])
  IN /\ Reading(g) /\ e.kind # "state"
     /\ stream' = Read(g)
     /\ chan' = [chan EXCEPT ![e.kind] = Offer(@, Answered(e))]
     /\ UNCHANGED <<attempt, java, closed, ended, deaf, connStateChanged, objects, outstanding, nreq, call, mixed>>

\* BluetoothGatt answers a request: the callback enters the stream (external).
OnAnswer(r) ==
  /\ r \in outstanding
  /\ outstanding' = outstanding \ {r}
  /\ stream' = [stream EXCEPT ![r.gen] = Append(@, r)]
  /\ UNCHANGED <<attempt, java, closed, ended, deaf, connStateChanged, objects, nreq, chan, call, mixed>>

-------------------------------------------------------------------------------
(* Operations                                                              *)

\* What BluetoothGatt accepts (external).
Accepts(g, k) ==
  /\ g \notin closed /\ java[g] = "up"
  /\ k \in Exclusive => ~\E r \in outstanding : r.gen = g /\ r.kind \in Exclusive

\* An operation reads per.gattHandle and the handle of its target under p.mu and
\* makes its RPC; one that cannot returns and leaves no trace.
Begin(p, k) ==
  /\ call[p].pc = "idle" /\ handle # 0 /\ nreq < MaxReq
  /\ Accepts(handle, k)
  /\ Send(p, k, handle, p)
  /\ UNCHANGED <<proxyVars, chan>>

\* DiscoverServices, ReadRSSI and SetMTU need only the connection ...
AskStack(p) == \E k \in Kinds \cap {"services", "rssi", "mtu"} : Begin(p, k)
\* ... ReadCharacteristic and ReadDescriptor also an object that a discovery left.
ReadObject(p) == charHandles /\ \E k \in Kinds \cap {"read", "descread"} : Begin(p, k)

SetValue_unset(p, k) ==
  /\ call[p].pc = "idle" /\ handle # 0 /\ charHandles /\ nreq < MaxReq
  /\ call' = [call EXCEPT ![p] = [Idle EXCEPT !.pc = "valued", !.kind = k, !.gen = handle]]
  /\ mixed' = IF Overlaps(p, k) THEN mixed \cup {k} ELSE mixed
  /\ UNCHANGED <<proxyVars, outstanding, nreq, chan>>

\* WriteCharacteristic and WriteDescriptor set the value of the Java object ...
SetValue(p, k) ==
  /\ call[p].pc = "idle" /\ handle # 0 /\ charHandles /\ nreq < MaxReq
  /\ javaValue' = [javaValue EXCEPT ![k] = p]
  /\ call' = [call EXCEPT ![p] = [Idle EXCEPT !.pc = "valued", !.kind = k, !.gen = handle]]
  /\ mixed' = IF Overlaps(p, k) THEN mixed \cup {k} ELSE mixed
  /\ UNCHANGED <<attempt, link, charHandles, outstanding, nreq, chan>>

\* ... and write it, whosever it is by then ...
CallWrite(p) ==
  LET c == call[p]
  IN /\ c.pc = "valued" /\ nreq < MaxReq
     /\ IF Accepts(c.gen, c.kind)
          THEN Send(p, c.kind, c.gen, javaValue[c.kind])
          ELSE call' = [call EXCEPT ![p] = Idle] /\ UNCHANGED <<outstanding, nreq, mixed>>
     /\ UNCHANGED <<proxyVars, chan>>

\* ... but a write without response does not wait for its callback.
CallWriteNoResp(p) ==
  LET c == call[p]
  IN /\ c.pc = "valued" /\ c.kind = "write" /\ nreq < MaxReq
     /\ Accepts(c.gen, "write")
     /\ nreq' = nreq + 1
     /\ outstanding' = outstanding \cup {[id |-> nreq', kind |-> "write", gen |-> c.gen,
                                          by |-> javaValue["write"]]}
     /\ mixed' = mixed \cup {"write"}
     /\ call' = [call EXCEPT ![p] = Idle]
     /\ UNCHANGED <<proxyVars, chan>>

\* populateServices: the tables are emptied, then filled by many RPCs, one of
\* which may fail.
Populate(p) ==
  /\ call[p].kind = "services"
  /\ TakeAnswer(p, "populate")
  /\ charHandles' = FALSE
  /\ UNCHANGED <<attempt, link, javaValue>>

Populated(p) ==
  /\ call[p].pc = "populate"
  /\ call' = [call EXCEPT ![p].pc = "done"]
  /\ charHandles' \in BOOLEAN
  /\ UNCHANGED <<attempt, link, javaValue, outstanding, nreq, chan, mixed>>

EndOfCall(p) ==
  /\ TakeAnswer(p, "done") \/ CancelCall(p) \/ Return(p)
  /\ UNCHANGED proxyVars

-------------------------------------------------------------------------------
Connection(g) ==
  \/ ConnectFails(g) \/ Connect(g) \/ StoreGatt(g) \/ TakeConnState(g) \/ ForgetFailed(g)
  \/ MonitorTakes(g) \/ ContextDone(g) \/ ForgetGatt(g) \/ CloseGatt(g) \/ Abandon(g)
  \/ OnConnected(g) \/ OnDisconnected(g)
  \/ HandleState(g) \/ LoseState(g) \/ StreamEnds(g) \/ HandleAnswer(g)

Operation(p) ==
  \/ AskStack(p) \/ ReadObject(p)
  \/ \E k \in Kinds \cap Written : SetValue(p, k)
  \/ CallWrite(p) \/ CallWriteNoResp(p) \/ Populate(p) \/ Populated(p) \/ EndOfCall(p)

Next ==
  \/ \E g \in Gens : Connection(g)
  \/ CancelConnection
  \/ \E p \in Callers : Operation(p)
  \/ \E r \in outstanding : OnAnswer(r)

-------------------------------------------------------------------------------
\* The loss of a connected link is on its way to the monitor, in the stream or in
\* the channel, as long as the stream lives.
LossSeen ==
  \A g \in Gens :
    conn[g] = "connected" /\ java[g] # "up" /\ g \notin deaf
      => \/ connStateChanged = <<[gen |-> g, up |-> FALSE]>>
         \/ \E i \in DOMAIN stream[g] : stream[g][i].kind = "state" /\ ~stream[g][i].up

Told == [idle |-> "idle", called |-> "asked", waiting |-> "asked", failing |-> "asked",
         connected |-> "connected", dropping |-> "connected", abandoning |-> "connected",
         closing |-> "connected", over |-> "over"]
===============================================================================
