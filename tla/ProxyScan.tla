------------------------------ MODULE ProxyScan ------------------------------
(***************************************************************************)
(* Start, Stop, Scan and StopScanning of the Android backend over a JNI    *)
(* proxy (android/jniproxy/device.go and scanning.go).  A goroutine reads  *)
(* the callbacks of a scan from a stream (processScanProxy) and hands      *)
(* what it finds to the handler of the application, which may call         *)
(* StopScanning.  StopScanning cancels the context of the scan and waits   *)
(* for that goroutine; the stream was opened with the context of the       *)
(* caller of Scan, so only the end of that one, or of the connection to    *)
(* the proxy, ends it.                                                     *)
(***************************************************************************)
EXTENDS Naturals, FiniteSets

CONSTANTS
  MaxScans,   \* bound: calls of Scan
  Stoppers,   \* goroutines that call StopScanning
  StreamEnd   \* whether the streams of the scans may end

Scans == 1 .. MaxScans
\* The callers of StopScanning: Stop (Device), the handler that a scan runs, others.
Device == 0
Waiters == Stoppers \cup Scans \cup {Device}

VARIABLES
  power,          \* Start and Stop: "new", "failed", "on", "stopping" or "off"
  scan,           \* scan[s]: where call s of Scan is
  scanCtxCancel,  \* d.scanCtxCancel: 0 or the call that recorded it
  cancelled,      \* the scans whose scanCtx was cancelled
  loop,           \* loop[s]: the goroutine of scan s
  stop,           \* stop[q]: the scan that q waits for, 0 when none
  raced,          \* auxiliary: two Scans overlapped
  found           \* d.peripherals holds the peripheral

vars == <<power, scan, scanCtxCancel, cancelled, loop, stop, raced, found>>

Init ==
  /\ power = "new" /\ scan = [s \in Scans |-> "idle"] /\ scanCtxCancel = 0 /\ cancelled = {}
  /\ loop = [s \in Scans |-> "none"] /\ stop = [q \in Waiters |-> 0]
  /\ raced = FALSE /\ found = FALSE

\* Start gets the application, the manager and the adapter, or fails on the way
\* with no adapter.
Start ==
  /\ power \in {"new", "failed"}
  /\ power' \in {"on", "failed"}
  /\ UNCHANGED <<scan, scanCtxCancel, cancelled, loop, stop, raced, found>>

\* StopScanning takes the scan away under d.mu, calls cancel() and waits.
TakeScan(q) ==
  /\ stop' = [stop EXCEPT ![q] = scanCtxCancel]
  /\ cancelled' = cancelled \cup ({scanCtxCancel} \cap Scans)
  /\ scanCtxCancel' = 0

\* Stop begins with StopScanning and releases the handles when that returns.
Stop ==
  /\ power = "on"
  /\ power' = "stopping"
  /\ TakeScan(Device)
  /\ UNCHANGED <<scan, loop, raced, found>>

ReleaseHandles ==
  /\ power = "stopping" /\ stop[Device] = 0
  /\ power' = "off"
  /\ UNCHANGED <<scan, scanCtxCancel, cancelled, loop, stop, raced, found>>

InScan(s) == scan[s] \in {"checked", "started"}

\* Scan finds an adapter and, under d.mu, no other scan.
ScanCheck(s) ==
  /\ scan[s] = "idle" /\ power \in {"on", "stopping"} /\ (\A t \in Scans : t < s => scan[t] # "idle")
  /\ scanCtxCancel = 0
  /\ scan' = [scan EXCEPT ![s] = "checked"]
  /\ raced' = (raced \/ \E t \in Scans : InScan(t))
  /\ UNCHANGED <<power, scanCtxCancel, cancelled, loop, stop, found>>

\* One of its RPCs fails.
ScanFails(s) ==
  /\ scan[s] = "checked"
  /\ scan' = [scan EXCEPT ![s] = "over"]
  /\ UNCHANGED <<power, scanCtxCancel, cancelled, loop, stop, raced, found>>

\* The stream is open and startScan was called.
StartScan(s) ==
  /\ scan[s] = "checked"
  /\ scan' = [scan EXCEPT ![s] = "started"]
  /\ UNCHANGED <<power, scanCtxCancel, cancelled, loop, stop, raced, found>>

RecordScan(s) ==
  /\ scan[s] = "started"
  /\ scan' = [scan EXCEPT ![s] = "over"]
  /\ scanCtxCancel' = s
  /\ loop' = [loop EXCEPT ![s] = "reading"]
  /\ UNCHANGED <<power, cancelled, stop, raced, found>>

-------------------------------------------------------------------------------
(* processScanProxy                                                        *)

\* A result of a device: it is reported when it is new or duplicates are wanted;
\* after cancel() the RPCs that read it fail and it is left out.
HandleOnScanResult(s, dup) ==
  /\ loop[s] = "reading"
  /\ s \notin cancelled
  /\ found' = TRUE
  /\ loop' = [loop EXCEPT ![s] = IF ~found \/ dup THEN "handling" ELSE "reading"]
  /\ UNCHANGED <<power, scan, scanCtxCancel, cancelled, stop, raced>>

\* The handler of the application returns ...
HandlerReturns(s) ==
  /\ loop[s] = "handling" /\ stop[s] = 0
  /\ loop' = [loop EXCEPT ![s] = "reading"]
  /\ UNCHANGED <<power, scan, scanCtxCancel, cancelled, stop, raced, found>>

\* ... or calls StopScanning first, which may wait for the goroutine it runs on.
HandlerStops(s) ==
  /\ loop[s] = "handling" /\ stop[s] = 0 /\ scanCtxCancel # 0
  /\ TakeScan(s)
  /\ UNCHANGED <<power, scan, loop, raced, found>>

\* Recv fails: the context of Scan or the connection to the proxy has ended.
StreamEnds(s) ==
  /\ StreamEnd
  /\ loop[s] = "reading"
  /\ loop' = [loop EXCEPT ![s] = "ended"]
  /\ UNCHANGED <<power, scan, scanCtxCancel, cancelled, stop, raced, found>>

-------------------------------------------------------------------------------
(* StopScanning                                                            *)

StopScanning(q) ==
  /\ stop[q] = 0 /\ scanCtxCancel # 0
  /\ TakeScan(q)
  /\ UNCHANGED <<power, scan, loop, raced, found>>

\* <-done
StopReturns(q) ==
  /\ stop[q] # 0 /\ loop[stop[q]] = "ended"
  /\ stop' = [stop EXCEPT ![q] = 0]
  /\ UNCHANGED <<power, scan, scanCtxCancel, cancelled, loop, raced, found>>

ProxyScanStep(s) ==
  HandlerReturns(s) \/ HandlerStops(s) \/ StreamEnds(s) \/ \E dup \in BOOLEAN : HandleOnScanResult(s, dup)

Next ==
  \/ Start \/ Stop \/ ReleaseHandles
  \/ \E s \in Scans :
       ScanCheck(s) \/ ScanFails(s) \/ StartScan(s) \/ RecordScan(s) \/ ProxyScanStep(s)
  \/ \E q \in Stoppers : StopScanning(q)
  \/ \E q \in Waiters : StopReturns(q)

Spec == Init /\ [][Next]_vars

\* The goroutines of the program run when they can; the handler returns.
FairSpec ==
  /\ Spec
  /\ \A s \in Scans : WF_vars(HandlerReturns(s)) /\ WF_vars(RecordScan(s))
  /\ \A q \in Waiters : WF_vars(StopReturns(q))

-------------------------------------------------------------------------------
\* A goroutine that may still report what it finds is recorded in the device or
\* a StopScanning waits for it, as long as no two Scans overlapped: no report
\* comes after StopScanning has returned.
ScanOwned ==
  ~raced => \A s \in Scans :
    loop[s] \in {"reading", "handling"} => scanCtxCancel = s \/ \E q \in Waiters : stop[q] = s

\* StopScanning waits for the goroutine of the scan to finish, and it does.
StopScanningReturns == \A q \in Stoppers : [](stop[q] # 0 => <>(stop[q] = 0))
===============================================================================
