------------------------------ MODULE JniServer ------------------------------
(***************************************************************************)
(* The device of the Android backend over JNI (android/jni/device.go,      *)
(* advertising.go, gatt_server.go, central.go): scanning, advertising and  *)
(* the GATT server with its centrals and notifiers.                        *)
(*                                                                         *)
(* Three kinds of threads meet here.  The application calls the methods of *)
(* the device; each call is a script of steps, one per critical section or *)
(* Java call.  The callbacks of a server come on a thread of its own, one  *)
(* at a time.  And for every subscription the application's ServeNotify    *)
(* writes to a notifier.  Java objects are used through global references, *)
(* which must not be used once deleted.                                    *)
(*                                                                         *)
(* External: the Java side.  It reports a central's connection, requests   *)
(* and disconnection in this order, and nothing more of a closed server.   *)
(***************************************************************************)
EXTENDS Naturals, Sequences, FiniteSets, FiniteSetsExt

CONSTANTS
  Users,       \* goroutines of the application that call the device
  Addr,        \* addresses of centrals
  Chars,       \* characteristics, each the only one of its service
  MaxCalls,    \* bound: calls of the device
  MaxSessions, \* bound: scans, advertisements and servers started
  MaxCentrals, \* bound: central objects made
  MaxNotifiers \* bound: notifiers made

Sessions == 1 .. MaxSessions
Centrals == 1 .. MaxCentrals
Notifiers == 1 .. MaxNotifiers

ASSUME JniServerAssumption ==
  /\ IsFiniteSet(Users) /\ IsFiniteSet(Addr) /\ IsFiniteSet(Chars)
  /\ \A n \in {MaxCalls, MaxSessions, MaxCentrals, MaxNotifiers} : n \in Nat

VARIABLES
  adapter,     \* d.adapter is set
  services,    \* d.services
  scanner,     \* d.scanner: 0, or the scan it stands for
  advState,    \* d.advState, likewise
  gattServer,  \* d.gattServer, likewise
  running,     \* the scans, advertisements and servers running on the Java side
  known,       \* d.peripherals: devices a scan has reported
  sessions,    \* number of sessions started
  user,        \* user[u]: the rest of the script and the locals of u's call
  calls,       \* number of calls made
  srv,         \* srv[i]: the gattServerState of server i
  central,     \* central[k]: a central and whether its device reference is live
  notifier,    \* notifier[n]: a serverNotifier
  writing,     \* writing[n]: where a Write of notifier n is
  cb,          \* cb[i]: the callback server i is in
  up,          \* up[i]: the centrals Java has reported as connected to server i
  subscribed,  \* subscribed[i]: what those centrals have subscribed to
  replaced     \* auxiliary: d.gattServer was set over an open server

device == <<adapter, services, scanner, advState, gattServer, running, known, sessions>>
app == <<user, calls>>
server == <<srv, central, notifier, cb, up, subscribed>>
vars == <<device, app, server, writing, replaced>>

Keys == Chars \X Addr
NoServer == [open |-> FALSE, chars |-> {}, refs |-> {}, centrals |-> [a \in Addr |-> 0],
             notifiers |-> [k \in Keys |-> 0], mu |-> FALSE, stopped |-> FALSE]
NoCentral == [made |-> FALSE, live |-> FALSE]
NoNotifier == [made |-> FALSE, c |-> 0, srv |-> 0, key |-> <<>>, done |-> FALSE, late |-> FALSE]
Free == [script |-> <<>>, id |-> 0, gs |-> 0, set |-> {}, ending |-> {}]
Resting == [pc |-> "idle", addr |-> "none", char |-> "none", on |-> FALSE, c |-> 0, old |-> 0, stale |-> {}]

TypeOK ==
  /\ services \subseteq Chars /\ known \subseteq Addr
  /\ {scanner, advState, gattServer} \subseteq {0} \cup Sessions
  /\ running \subseteq Sessions
  /\ \A i \in Sessions :
       /\ srv[i].refs \subseteq Chars
       /\ \A a \in Addr : srv[i].centrals[a] \in {0} \cup Centrals
       /\ \A k \in Keys : srv[i].notifiers[k] \in {0} \cup Notifiers
       /\ cb[i].stale \subseteq Notifiers
  /\ \A n \in Notifiers : writing[n] # "idle" => notifier[n].made

Init ==
  /\ adapter = TRUE /\ services \in SUBSET Chars
  /\ scanner = 0 /\ advState = 0 /\ gattServer = 0
  /\ running = {} /\ known = {} /\ sessions = 0
  /\ user = [u \in Users |-> Free] /\ calls = 0
  /\ srv = [i \in Sessions |-> NoServer]
  /\ central = [k \in Centrals |-> NoCentral]
  /\ notifier = [n \in Notifiers |-> NoNotifier] /\ writing = [n \in Notifiers |-> "idle"]
  /\ cb = [i \in Sessions |-> Resting]
  /\ up = [i \in Sessions |-> {}] /\ subscribed = [i \in Sessions |-> {}]
  /\ replaced = FALSE

-------------------------------------------------------------------------------
(* Calls of the device: the script of each, in the order of the code.      *)

ScanScript == <<"checkScan", "startScan", "storeScan">>
StopScanScript == <<"takeScan", "stopScan">>
AdvertiseScript == <<"checkAdv", "startAdv", "storeAdv", "openServer", "addServices", "storeServer">>
StopAdvScript == <<"takeAdv", "stopAdv">>
CloseScript == <<"takeServer", "lockServer", "stopNotifiers", "takeCentrals", "closeCentrals", "deleteRefs", "closeServer">>
\* Mutant: Stop leaves the advertisement alone.
StopScript_adv == StopScanScript \o CloseScript \o <<"adapterOff">>
StopScript == StopScanScript \o CloseScript \o StopAdvScript \o <<"adapterOff">>

Invoke(u, script, set) ==
  /\ user[u].script = <<>> /\ calls < MaxCalls
  /\ calls' = calls + 1
  /\ user' = [user EXCEPT ![u] = [Free EXCEPT !.script = script, !.set = set]]
  /\ UNCHANGED <<device, server, writing, replaced>>

Scan(u) == adapter /\ Invoke(u, ScanScript, {})
StopScanning(u) == Invoke(u, StopScanScript, {})
Advertise(u) == adapter /\ Invoke(u, AdvertiseScript, {})
StopAdvertising(u) == Invoke(u, StopAdvScript, {})
AddService(u) == \E c \in Chars \ services : Invoke(u, <<"addService", "addServices">>, {c})
\* SetServices and, with the empty set, RemoveAllServices.
SetServices(u) == \E s \in SUBSET Chars : Invoke(u, CloseScript \o <<"setServices">>, s)
Stop(u) == Invoke(u, StopScript, {})

At(u, step) == user[u].script # <<>> /\ Head(user[u].script) = step
\* The call goes on, with locals as given, or returns.
GoOn(u, l) == user' = [user EXCEPT ![u] = [l EXCEPT !.script = Tail(user[u].script)]]
Return(u) == user' = [user EXCEPT ![u] = Free]
\* closeGattServer, StopScanning and StopAdvertising find nothing: on to what follows.
SkipTo(u, n) == user' = [user EXCEPT ![u].script = SubSeq(@, n + 1, Len(@))]

-------------------------------------------------------------------------------
(* Scanning: Scan, StopScanning, handleScanCallback.                       *)

CheckScan(u) ==
  /\ At(u, "checkScan")
  /\ IF scanner # 0 THEN Return(u) ELSE GoOn(u, user[u])
  /\ UNCHANGED <<device, calls, server, writing, replaced>>

\* startScanWithSettings: starts, or fails at one of its JNI calls.
StartScan(u) ==
  /\ At(u, "startScan")
  /\ \/ /\ sessions < MaxSessions
        /\ sessions' = sessions + 1
        /\ running' = running \cup {sessions'}
        /\ GoOn(u, [user[u] EXCEPT !.id = sessions'])
     \/ /\ Return(u)
        /\ UNCHANGED <<sessions, running>>
  /\ UNCHANGED <<adapter, services, scanner, advState, gattServer, known, calls, server, writing, replaced>>

StoreScan(u) ==
  /\ At(u, "storeScan")
  /\ scanner' = user[u].id
  /\ GoOn(u, user[u])
  /\ UNCHANGED <<adapter, services, advState, gattServer, running, known, sessions, calls, server, writing, replaced>>

TakeScan(u) ==
  /\ At(u, "takeScan")
  /\ IF scanner = 0 THEN SkipTo(u, 2) ELSE GoOn(u, [user[u] EXCEPT !.id = scanner])
  /\ scanner' = 0
  /\ UNCHANGED <<adapter, services, advState, gattServer, running, known, sessions, calls, server, writing, replaced>>

StopScan(u) ==
  /\ At(u, "stopScan")
  /\ running' = running \ {user[u].id}
  /\ GoOn(u, user[u])
  /\ UNCHANGED <<adapter, services, scanner, advState, gattServer, known, sessions, calls, server, writing, replaced>>

\* processScanResult, rememberScanDevice: a device is remembered, for good, when first seen.
OnScanResult(a) ==
  /\ \/ scanner \in running
     \/ \E u \in Users : At(u, "storeScan")
  /\ a \notin known
  /\ known' = known \cup {a}
  /\ UNCHANGED <<adapter, services, scanner, advState, gattServer, running, sessions, app, server, writing, replaced>>

-------------------------------------------------------------------------------
(* Advertising, and the opening of the GATT server.                        *)

CheckAdv(u) ==
  /\ At(u, "checkAdv")
  /\ IF advState # 0 THEN Return(u) ELSE GoOn(u, user[u])
  /\ UNCHANGED <<device, calls, server, writing, replaced>>

\* startAdvertising: builds settings, data and callback, and starts; each may fail.
StartAdv(u) ==
  /\ At(u, "startAdv")
  /\ \/ /\ sessions < MaxSessions
        /\ sessions' = sessions + 1
        /\ running' = running \cup {sessions'}
        /\ GoOn(u, [user[u] EXCEPT !.id = sessions'])
     \/ /\ Return(u)
        /\ UNCHANGED <<sessions, running>>
  /\ UNCHANGED <<adapter, services, scanner, advState, gattServer, known, calls, server, writing, replaced>>

StoreAdv(u) ==
  /\ At(u, "storeAdv")
  /\ advState' = user[u].id
  /\ IF services = {} THEN Return(u) ELSE GoOn(u, user[u])
  /\ UNCHANGED <<adapter, services, scanner, gattServer, running, known, sessions, calls, server, writing, replaced>>

TakeAdv(u) ==
  /\ At(u, "takeAdv")
  /\ IF advState = 0 THEN SkipTo(u, 2) ELSE GoOn(u, [user[u] EXCEPT !.id = advState])
  /\ advState' = 0
  /\ UNCHANGED <<adapter, services, scanner, gattServer, running, known, sessions, calls, server, writing, replaced>>

StopAdv(u) ==
  /\ At(u, "stopAdv")
  /\ running' = running \ {user[u].id}
  /\ GoOn(u, user[u])
  /\ UNCHANGED <<adapter, services, scanner, advState, gattServer, known, sessions, calls, server, writing, replaced>>

\* openGattServer: the services are copied and the server opened, or not.
OpenServer(u) ==
  /\ At(u, "openServer")
  /\ \/ /\ services # {} /\ sessions < MaxSessions
        /\ sessions' = sessions + 1
        /\ running' = running \cup {sessions'}
        /\ srv' = [srv EXCEPT ![sessions'].open = TRUE]
        /\ GoOn(u, [user[u] EXCEPT !.gs = sessions', !.set = services])
     \/ /\ Return(u)
        /\ UNCHANGED <<sessions, running, srv>>
  /\ UNCHANGED <<adapter, services, scanner, advState, gattServer, known, calls,
                 central, notifier, cb, up, subscribed, writing, replaced>>

\* AddService: under d.mu; the server is told only if there is one.
AddServiceStep(u) ==
  /\ At(u, "addService")
  /\ services' = services \cup user[u].set
  /\ IF gattServer = 0 THEN Return(u) ELSE GoOn(u, [user[u] EXCEPT !.gs = gattServer])
  /\ UNCHANGED <<adapter, scanner, advState, gattServer, running, known, sessions, calls, server, writing, replaced>>

\* createJavaCharacteristic and addServiceToGattServer: the characteristic is entered
\* in charByUUID and charObjByUUID, or skipped when an object cannot be made.
CreateJavaCharacteristic(i, c) ==
  {srv[i], [srv[i] EXCEPT !.chars = @ \cup {c}, !.refs = @ \cup {c}]}

AddServiceToGattServer(u) ==
  LET i == user[u].gs
  IN /\ At(u, "addServices")
     /\ \/ /\ user[u].set = {}
           /\ GoOn(u, user[u])
           /\ UNCHANGED <<srv, running>>
        \/ \E c \in user[u].set : \E s \in CreateJavaCharacteristic(i, c) :
             \/ /\ srv' = [srv EXCEPT ![i] = s]
                /\ user' = [user EXCEPT ![u].set = @ \ {c}]
                /\ UNCHANGED running
             \* addService fails: a server that is being opened is closed again.
             \/ /\ Return(u)
                /\ IF Len(user[u].script) > 1
                     THEN running' = running \ {i} /\ srv' = [srv EXCEPT ![i] = [s EXCEPT !.open = FALSE]]
                     ELSE srv' = [srv EXCEPT ![i] = s] /\ UNCHANGED running
     /\ UNCHANGED <<adapter, services, scanner, advState, gattServer, known, sessions, calls,
                    central, notifier, cb, up, subscribed, writing, replaced>>

StoreServer(u) ==
  /\ At(u, "storeServer")
  /\ gattServer' = user[u].gs
  /\ replaced' = (replaced \/ gattServer # 0)
  /\ GoOn(u, user[u])
  /\ UNCHANGED <<adapter, services, scanner, advState, running, known, sessions, calls, server, writing>>

SetServicesStep(u) ==
  /\ At(u, "setServices")
  /\ services' = user[u].set
  /\ GoOn(u, user[u])
  /\ UNCHANGED <<adapter, scanner, advState, gattServer, running, known, sessions, calls, server, writing, replaced>>

AdapterOff(u) ==
  /\ At(u, "adapterOff")
  /\ adapter' = FALSE
  /\ GoOn(u, user[u])
  /\ UNCHANGED <<services, scanner, advState, gattServer, running, known, sessions, calls, server, writing, replaced>>

-------------------------------------------------------------------------------
(* closeGattServer.                                                        *)

TakeServer(u) ==
  /\ At(u, "takeServer")
  /\ IF gattServer = 0 THEN SkipTo(u, Len(CloseScript)) ELSE GoOn(u, [user[u] EXCEPT !.gs = gattServer])
  /\ gattServer' = 0
  /\ UNCHANGED <<adapter, services, scanner, advState, running, known, sessions, calls, server, writing, replaced>>

LockServer(u) ==
  /\ At(u, "lockServer") /\ ~srv[user[u].gs].mu
  /\ srv' = [srv EXCEPT ![user[u].gs].mu = TRUE]
  /\ GoOn(u, user[u])
  /\ UNCHANGED <<device, calls, central, notifier, cb, up, subscribed, writing, replaced>>

\* Mutant: stop sets done without waiting for the Write under way.
Stoppable_nowait(n) == TRUE

\* serverNotifier.stop waits for a Write that is under way.
Stoppable(n) == writing[n] = "idle"
Active(i) == {n \in Range(srv[i].notifiers) \ {0} : ~notifier[n].done}

\* gs.mu is held until every notifier in the map is stopped and the map is empty.
StopNotifiers(u) ==
  LET i == user[u].gs
  IN /\ At(u, "stopNotifiers")
     /\ IF Active(i) # {}
          THEN /\ \E n \in Active(i) : Stoppable(n) /\ notifier' = [notifier EXCEPT ![n].done = TRUE]
               /\ UNCHANGED <<srv, user>>
          ELSE /\ srv' = [srv EXCEPT ![i].notifiers = NoServer.notifiers, ![i].mu = FALSE, ![i].stopped = TRUE]
               /\ GoOn(u, user[u])
               /\ UNCHANGED notifier
     /\ UNCHANGED <<device, calls, central, cb, up, subscribed, writing, replaced>>

\* closeCentrals: the map is emptied under gs.mu, then each central is closed.
TakeCentrals(u) ==
  LET i == user[u].gs
  IN /\ At(u, "takeCentrals") /\ ~srv[i].mu
     /\ srv' = [srv EXCEPT ![i].centrals = NoServer.centrals]
     /\ GoOn(u, [user[u] EXCEPT !.ending = Range(srv[i].centrals) \ {0}])
     /\ UNCHANGED <<device, calls, central, notifier, cb, up, subscribed, writing, replaced>>

\* central.Close takes c.mu, which a Write holds while it uses the device object.
Closable(c) == \A n \in Notifiers : writing[n] = "device" => notifier[n].c # c
CloseCentral(c) == Closable(c) /\ central' = [central EXCEPT ![c].live = FALSE]

CloseCentrals(u) ==
  /\ At(u, "closeCentrals")
  /\ IF user[u].ending # {}
       THEN \E c \in user[u].ending : CloseCentral(c) /\ user' = [user EXCEPT ![u].ending = @ \ {c}]
       ELSE GoOn(u, user[u]) /\ UNCHANGED central
  /\ UNCHANGED <<device, calls, srv, notifier, cb, up, subscribed, writing, replaced>>

DeleteRefs(u) ==
  /\ At(u, "deleteRefs")
  /\ srv' = [srv EXCEPT ![user[u].gs].refs = {}]
  /\ GoOn(u, user[u])
  /\ UNCHANGED <<device, calls, central, notifier, cb, up, subscribed, writing, replaced>>

CloseServer(u) ==
  /\ At(u, "closeServer")
  /\ srv' = [srv EXCEPT ![user[u].gs].open = FALSE]
  /\ running' = running \ {user[u].gs}
  /\ GoOn(u, user[u])
  /\ UNCHANGED <<adapter, services, scanner, advState, gattServer, known, sessions, calls,
                 central, notifier, cb, up, subscribed, writing, replaced>>

-------------------------------------------------------------------------------
(* Callbacks of server i.  A callback begins while the server is open.     *)

Called(i) == srv[i].open /\ cb[i].pc = "idle" /\ ~srv[i].mu
Fresh(S) == CHOOSE x \in {y \in DOMAIN S : ~S[y].made} : TRUE
MayMake(S) == \E y \in DOMAIN S : ~S[y].made
PoppedFor(i, a) == {srv[i].notifiers[k] : k \in {k \in Keys : k[2] = a}} \ {0}
Without(i, a) == [k \in Keys |-> IF k[2] = a THEN 0 ELSE srv[i].notifiers[k]]

\* rememberConnectedCentral: a central under the same address is replaced, and its
\* notifiers are popped, under gs.mu; then they are stopped and it is closed.
OnConnected(i, a) ==
  LET old == srv[i].centrals[a]
      new == Fresh(central)
  IN /\ Called(i) /\ a \notin up[i] /\ MayMake(central)
     /\ up' = [up EXCEPT ![i] = @ \cup {a}]
     /\ central' = [central EXCEPT ![new] = [made |-> TRUE, live |-> TRUE]]
     /\ srv' = [srv EXCEPT ![i].centrals[a] = new,
                           ![i].notifiers = IF old = 0 THEN @ ELSE Without(i, a)]
     /\ cb' = [cb EXCEPT ![i] = IF old = 0 THEN Resting
                                ELSE [Resting EXCEPT !.pc = "stale", !.old = old, !.stale = PoppedFor(i, a)]]
     /\ UNCHANGED <<device, app, notifier, writing, subscribed, replaced>>

\* Mutant: the notifiers of the central stay in the map.
OnDisconnected_kept(i, a) ==
  /\ Called(i) /\ a \in up[i]
  /\ up' = [up EXCEPT ![i] = @ \ {a}]
  /\ subscribed' = [subscribed EXCEPT ![i] = {k \in @ : k[2] # a}]
  /\ srv' = [srv EXCEPT ![i].centrals[a] = 0]
  /\ cb' = [cb EXCEPT ![i] = [Resting EXCEPT !.pc = "stale", !.old = srv[i].centrals[a]]]
  /\ UNCHANGED <<device, app, central, notifier, writing, replaced>>

\* disconnectCentral.
OnDisconnected(i, a) ==
  /\ Called(i) /\ a \in up[i]
  /\ up' = [up EXCEPT ![i] = @ \ {a}]
  /\ subscribed' = [subscribed EXCEPT ![i] = {k \in @ : k[2] # a}]
  /\ srv' = [srv EXCEPT ![i].centrals[a] = 0, ![i].notifiers = Without(i, a)]
  /\ cb' = [cb EXCEPT ![i] = [Resting EXCEPT !.pc = "stale", !.old = srv[i].centrals[a], !.stale = PoppedFor(i, a)]]
  /\ UNCHANGED <<device, app, central, notifier, writing, replaced>>

StopStale(i) ==
  /\ cb[i].pc = "stale"
  /\ IF cb[i].stale # {}
       THEN \E n \in cb[i].stale :
              /\ Stoppable(n)
              /\ notifier' = [notifier EXCEPT ![n].done = TRUE]
              /\ cb' = [cb EXCEPT ![i].stale = @ \ {n}]
              /\ UNCHANGED central
       ELSE /\ IF cb[i].old = 0 THEN UNCHANGED central ELSE CloseCentral(cb[i].old)
            /\ cb' = [cb EXCEPT ![i] = Resting]
            /\ UNCHANGED notifier
  /\ UNCHANGED <<device, app, srv, up, subscribed, writing, replaced>>

\* findCentral: a request of a central that is not in the map makes one, under gs.mu.
FindCentral(i, a) ==
  IF srv[i].centrals[a] # 0
    THEN UNCHANGED <<srv, central>>
    ELSE /\ MayMake(central)
         /\ central' = [central EXCEPT ![Fresh(central)] = [made |-> TRUE, live |-> TRUE]]
         /\ srv' = [srv EXCEPT ![i].centrals[a] = Fresh(central)]

\* handleCharacteristicReadRequest, handleCharacteristicWriteRequest: of the state
\* of the server they change what findCentral changes.
OnRequest(i, a) ==
  /\ Called(i) /\ a \in up[i] /\ srv[i].centrals[a] = 0
  /\ FindCentral(i, a)
  /\ UNCHANGED <<device, app, notifier, cb, up, subscribed, writing, replaced>>

\* handleDescriptorWriteRequest of a CCCD; Java asks only for what it was given.
OnCCCDWrite(i, a, c, on) ==
  /\ Called(i) /\ a \in up[i] /\ c \in srv[i].chars
  /\ FindCentral(i, a)
  /\ subscribed' = [subscribed EXCEPT ![i] = IF on THEN @ \cup {<<c, a>>} ELSE @ \ {<<c, a>>}]
  /\ cb' = [cb EXCEPT ![i] = [Resting EXCEPT !.pc = "lookup", !.addr = a, !.char = c, !.on = on,
                                             !.c = srv'[i].centrals[a]]]
  /\ UNCHANGED <<device, app, notifier, up, writing, replaced>>

\* handleCCCDWrite: the notifier there is, is looked up under gs.mu, ...
LookUp(i) ==
  LET b == cb[i]
  IN /\ b.pc = "lookup" /\ ~srv[i].mu
     /\ cb' = [cb EXCEPT ![i].pc = "stop", ![i].old = srv[i].notifiers[<<b.char, b.addr>>]]
     /\ UNCHANGED <<device, app, srv, central, notifier, up, subscribed, writing, replaced>>

\* Mutant: the notifier there is, is not stopped.
StopExisting_kept(i) ==
  /\ cb[i].pc = "stop"
  /\ cb' = [cb EXCEPT ![i].pc = "enter"]
  /\ UNCHANGED <<device, app, srv, central, notifier, up, subscribed, writing, replaced>>

\* ... stopped without it, ...
StopExisting(i) ==
  /\ cb[i].pc = "stop"
  /\ IF cb[i].old = 0 THEN UNCHANGED notifier
       ELSE Stoppable(cb[i].old) /\ notifier' = [notifier EXCEPT ![cb[i].old].done = TRUE]
  /\ cb' = [cb EXCEPT ![i].pc = "enter"]
  /\ UNCHANGED <<device, app, srv, central, up, subscribed, writing, replaced>>

\* ... and deleted, or replaced by a new one, under gs.mu again.
EnterNotifier(i) ==
  LET b == cb[i]
      key == <<b.char, b.addr>>
      n == Fresh(notifier)
  IN /\ b.pc = "enter" /\ ~srv[i].mu
     /\ IF b.on
          THEN /\ MayMake(notifier)
               /\ notifier' = [notifier EXCEPT ![n] = [made |-> TRUE, c |-> b.c, srv |-> i, key |-> key,
                                                       done |-> FALSE, late |-> srv[i].stopped]]
               /\ srv' = [srv EXCEPT ![i].notifiers[key] = n]
          ELSE /\ srv' = [srv EXCEPT ![i].notifiers[key] = IF b.old = 0 THEN @ ELSE 0]
               /\ UNCHANGED notifier
     /\ cb' = [cb EXCEPT ![i] = Resting]
     /\ UNCHANGED <<device, app, central, up, subscribed, writing, replaced>>

-------------------------------------------------------------------------------
(* serverNotifier.Write, under a read lock of n.mu.                        *)

\* Unless it is done, the value is set through the reference of the characteristic, ...
WriteBegins(n) ==
  /\ notifier[n].made /\ ~notifier[n].done /\ writing[n] = "idle"
  /\ writing' = [writing EXCEPT ![n] = "value"]
  /\ UNCHANGED <<device, app, server, replaced>>

\* ... and then, under c.mu, sent to the device object, if the central has one.
WithBluetoothDeviceObject(n) ==
  /\ writing[n] = "value"
  /\ writing' = [writing EXCEPT ![n] = IF central[notifier[n].c].live THEN "device" ELSE "idle"]
  /\ UNCHANGED <<device, app, server, replaced>>

WriteEnds(n) ==
  /\ writing[n] = "device"
  /\ writing' = [writing EXCEPT ![n] = "idle"]
  /\ UNCHANGED <<device, app, server, replaced>>

-------------------------------------------------------------------------------
Application(u) ==
  \/ Scan(u) \/ StopScanning(u) \/ Advertise(u) \/ StopAdvertising(u)
  \/ AddService(u) \/ SetServices(u) \/ Stop(u)

DeviceStep(u) ==
  \/ CheckScan(u) \/ StartScan(u) \/ StoreScan(u) \/ TakeScan(u) \/ StopScan(u)
  \/ CheckAdv(u) \/ StartAdv(u) \/ StoreAdv(u) \/ TakeAdv(u) \/ StopAdv(u)
  \/ OpenServer(u) \/ AddServiceStep(u) \/ AddServiceToGattServer(u) \/ StoreServer(u)
  \/ SetServicesStep(u) \/ AdapterOff(u)
  \/ TakeServer(u) \/ LockServer(u) \/ StopNotifiers(u) \/ TakeCentrals(u) \/ CloseCentrals(u)
  \/ DeleteRefs(u) \/ CloseServer(u)

Callback(i) ==
  \/ \E a \in Addr : OnConnected(i, a) \/ OnDisconnected(i, a) \/ OnRequest(i, a)
  \/ \E a \in Addr, c \in Chars, on \in BOOLEAN : OnCCCDWrite(i, a, c, on)
  \/ StopStale(i) \/ LookUp(i) \/ StopExisting(i) \/ EnterNotifier(i)

Write(n) == WriteBegins(n) \/ WithBluetoothDeviceObject(n) \/ WriteEnds(n)

Next ==
  \/ \E u \in Users : Application(u) \/ DeviceStep(u)
  \/ \E a \in Addr : OnScanResult(a)
  \/ \E i \in Sessions : Callback(i)
  \/ \E n \in Notifiers : Write(n)

Spec == Init /\ [][Next]_vars

-------------------------------------------------------------------------------
(* Properties                                                              *)

\* closeGattServer stops all notifiers (its comment), so that no Write uses a
\* characteristic reference which it then deletes.  Two kinds of notifiers
\* escape it: one that a CCCD write enters after the map was emptied, and one
\* that a callback has popped from the map and not yet stopped.
CharRefLiveUnraced ==
  \A n \in Notifiers :
    writing[n] # "idle" /\ ~notifier[n].late /\ n \notin cb[notifier[n].srv].stale
      => notifier[n].key[1] \in srv[notifier[n].srv].refs

\* At most one notifier of a server, characteristic and central is not done:
\* a central that subscribes again is not notified twice.
OneActive ==
  \A m, n \in Notifiers :
    m # n /\ notifier[m].made /\ notifier[n].made /\ ~notifier[m].done /\ ~notifier[n].done
      => notifier[m].srv # notifier[n].srv \/ notifier[m].key # notifier[n].key

\* The subscription that a read of the CCCD shows is the one the central last
\* wrote in this connection, between callbacks and until the server is closed.
Mirrored ==
  \A i \in Sessions, k \in Keys :
    srv[i].open /\ cb[i].pc = "idle" /\ ~srv[i].stopped /\ ~srv[i].mu
      => (srv[i].notifiers[k] \in Active(i) <=> k \in subscribed[i])

\* After Stop nothing is left running on the Java side, unless the device
\* advertised again while its server was open: openGattServer then replaces
\* it and nobody closes the first.
StopClosesAll ==
  ~adapter /\ ~replaced /\ (\A u \in Users : user[u].script = <<>>) => running = {}
===============================================================================
