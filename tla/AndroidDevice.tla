---------------------------- MODULE AndroidDevice ----------------------------
(***************************************************************************)
(* A device of the Android package over Binder or over a JNI proxy         *)
(* (android/registry.go: NewDevice asks the factory of the backend that    *)
(* was named).  In each backend the scans and the connections share no     *)
(* state but the table of peripherals, so a behaviour of this module       *)
(* follows one of the two: the instances below side by side, over shared   *)
(* variables where they keep the same state.                               *)
(***************************************************************************)
EXTENDS GattCalls

CONSTANTS
  Backends,   \* the backends that are registered
  CanCancel,  \* the attempts whose context may be cancelled
  CanBreak,   \* the attempts whose stream and RPCs may fail (proxy)
  MaxScans,   \* bound: calls of Scan
  Stoppers,   \* goroutines that call StopScanning
  StreamEnd   \* whether the streams of the scans may end

Parts == {"scan", "connect"}

ASSUME AndroidAssumption ==
  /\ IsFiniteSet(Callers) /\ NoCaller \notin Callers
  /\ MaxGen \in Nat \ {0} /\ MaxReq \in Nat /\ MaxScans \in Nat
  /\ Kinds \subseteq {"services", "read", "write", "descread", "descwrite", "rssi", "mtu"}
  /\ Backends \subseteq {"binder", "jniproxy"}
  /\ CanCancel \subseteq Gens /\ CanBreak \subseteq Gens
  /\ 0 \notin Stoppers /\ StreamEnd \in BOOLEAN

VARIABLES
  backend, part,     \* the backend that was asked for, and the part that is followed
  handle, conn, java, connStateChanged, givenUp,
  btProxy, cachedGatt, service, registering, clientRegistered,
  closed, stream, ended, deaf, charHandles, javaValue,
  power, scan, stop, raced, found,
  scanCallback, running,
  scanCtxCancel, cancelled, loop

common == <<handle, conn, java, connStateChanged, givenUp, calls>>
binderOnly == <<btProxy, cachedGatt, service, registering, clientRegistered>>
proxyOnly == <<closed, stream, ended, deaf, charHandles, javaValue>>
scanning == <<power, scan, stop, raced, found>>
binderScan == <<scanCallback, running>>
proxyScan == <<scanCtxCancel, cancelled, loop>>
vars == <<backend, part, common, binderOnly, proxyOnly, scanning, binderScan, proxyScan>>

B == INSTANCE BinderClient
P == INSTANCE ProxyClient
BS == INSTANCE BinderScan
PS == INSTANCE ProxyScan

\* NewDevice.
NewDevice == backend \in Backends /\ part \in Parts

Init ==
  /\ NewDevice
  /\ B!Init /\ BS!Init /\ PS!Init
  /\ P!Init /\ (charHandles => backend = "jniproxy" /\ part = "connect")

Next ==
  /\ UNCHANGED <<backend, part>>
  /\ \/ /\ backend = "binder" /\ part = "connect"
        /\ B!Next
        /\ UNCHANGED <<proxyOnly, scanning, binderScan, proxyScan>>
     \/ /\ backend = "jniproxy" /\ part = "connect"
        /\ P!Next
        /\ UNCHANGED <<binderOnly, scanning, binderScan, proxyScan>>
     \/ /\ backend = "binder" /\ part = "scan"
        /\ BS!Next
        /\ UNCHANGED <<common, binderOnly, proxyOnly, proxyScan>>
     \/ /\ backend = "jniproxy" /\ part = "scan"
        /\ PS!Next
        /\ UNCHANGED <<common, binderOnly, proxyOnly, binderScan>>

Spec == Init /\ [][Next]_vars

-------------------------------------------------------------------------------
(* Properties (OwnResult is GattCalls')                                    *)

\* The loss of a connected link is on its way to the monitor of the connection,
\* as long as the Bluetooth service stays up (Binder) or the stream of the
\* callbacks lives (proxy).
LossSeen == IF backend = "binder" THEN B!LossSeen ELSE P!LossSeen

\* A scan that goes on is recorded in the device, about to be, or being stopped,
\* as long as no two Scans overlapped: StopScanning never leaves one behind.
ScanOwned == IF backend = "binder" THEN BS!ScanOwned ELSE PS!ScanOwned

Linked == [none |-> "never", connecting |-> "never", up |-> "up", gone |-> "gone", refused |-> "refused"]
Told == IF backend = "binder" THEN B!Told ELSE P!Told
Life == INSTANCE PeripheralLife WITH
  Attempts <- Gens,
  link <- [g \in Gens |-> Linked[java[g]]],
  view <- [g \in Gens |-> Told[conn[g]]],
  givenUp <- givenUp

\* Connect and the monitor of either backend refine the life of a connection
\* attempt that gatt.Device promises.
KeepsPromise == Life!LifeSpec
===============================================================================
