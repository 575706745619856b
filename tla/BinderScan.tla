------------------------------ MODULE BinderScan ------------------------------
(***************************************************************************)
(* Start, Stop, Scan and StopScanning of the Android backend over Binder   *)
(* (android/binder/device.go) and the callbacks of a scanner               *)
(* (scan_callback.go).  Scan checks that no scan runs, registers a scanner *)
(* and waits for its number, starts it, and only then records it, so that  *)
(* two Scans may both pass the check.                                      *)
(*                                                                         *)
(* External: the Bluetooth service, which stops the scanners of a process  *)
(* that closes its binder driver.                                          *)
(***************************************************************************)
EXTENDS Naturals, FiniteSets

CONSTANTS
  MaxScans,  \* bound: calls of Scan
  Stoppers   \* goroutines that call StopScanning

Scans == 1 .. MaxScans
\* The callers of StopScanning: Stop (Device), the handler that a scan runs, others.
Device == 0
Waiters == Stoppers \cup Scans \cup {Device}

VARIABLES
  power,         \* Start and Stop: "new", "failed", "on", "stopping" or "off"
  scan,          \* scan[s]: where call s of Scan is
  scanCallback,  \* d.scanCallback: 0 or the call that recorded it
  running,       \* the scanners the service runs (external)
  stop,          \* stop[q]: the scan that q is stopping, 0 when none
  raced,         \* auxiliary: two Scans overlapped
  found          \* d.peripherals holds the one peripheral, "unknown"

vars == <<power, scan, scanCallback, running, stop, raced, found>>

Init ==
  /\ power = "new" /\ scan = [s \in Scans |-> "idle"] /\ scanCallback = 0
  /\ running = {} /\ stop = [q \in Waiters |-> 0] /\ raced = FALSE /\ found = FALSE

\* Start opens the driver and finds the service; one that fails closes it again.
Start ==
  /\ power \in {"new", "failed"}
  /\ power' \in {"on", "failed"}
  /\ UNCHANGED <<scan, scanCallback, running, stop, raced, found>>

\* StopScanning takes the scan away under d.mu ...
TakeScan(q) ==
  /\ stop' = [stop EXCEPT ![q] = scanCallback]
  /\ scanCallback' = 0

StopScanning(q) ==
  /\ stop[q] = 0 /\ scanCallback # 0
  /\ TakeScan(q)
  /\ UNCHANGED <<power, scan, running, raced, found>>

\* ... and asks the service to stop it, which it does.
StopScan(q) ==
  /\ stop[q] # 0
  /\ running' = running \ {stop[q]}
  /\ stop' = [stop EXCEPT ![q] = 0]
  /\ UNCHANGED <<power, scan, scanCallback, raced, found>>

\* Stop begins with StopScanning; then it closes the driver, and d.btProxy stays.
Stop ==
  /\ power = "on"
  /\ power' = "stopping"
  /\ TakeScan(Device)
  /\ UNCHANGED <<scan, running, raced, found>>

CloseDriver ==
  /\ power = "stopping" /\ stop[Device] = 0
  /\ power' = "off"
  /\ running' = {}
  /\ UNCHANGED <<scan, scanCallback, stop, raced, found>>

\* A transaction needs the driver (external).
Open == power \in {"on", "stopping"}

InScan(s) == scan[s] \in {"checked", "registering", "registered", "started"}

ScanCheck_none(s) ==
  /\ scan[s] = "idle" /\ power \notin {"new", "failed"} /\ (\A t \in Scans : t < s => scan[t] # "idle")
  /\ scan' = [scan EXCEPT ![s] = "checked"]
  /\ raced' = (raced \/ \E t \in Scans : InScan(t))
  /\ UNCHANGED <<power, scanCallback, running, stop, found>>

\* Scan finds an adapter and, under d.mu, no other scan.
ScanCheck(s) ==
  /\ scan[s] = "idle" /\ power \notin {"new", "failed"} /\ (\A t \in Scans : t < s => scan[t] # "idle")
  /\ scanCallback = 0
  /\ scan' = [scan EXCEPT ![s] = "checked"]
  /\ raced' = (raced \/ \E t \in Scans : InScan(t))
  /\ UNCHANGED <<power, scanCallback, running, stop, found>>

\* It fails, is cancelled, or gets no scanner: nothing was started.
ScanFails(s) ==
  /\ scan[s] \in {"checked", "registering", "registered"}
  /\ scan' = [scan EXCEPT ![s] = "over"]
  /\ UNCHANGED <<power, scanCallback, running, stop, raced, found>>

RegisterScanner(s) ==
  /\ scan[s] = "checked" /\ Open
  /\ scan' = [scan EXCEPT ![s] = "registering"]
  /\ UNCHANGED <<power, scanCallback, running, stop, raced, found>>

\* The number comes through a channel of this scan.
OnScannerRegistered(s) ==
  /\ scan[s] = "registering" /\ Open
  /\ scan' = [scan EXCEPT ![s] = "registered"]
  /\ UNCHANGED <<power, scanCallback, running, stop, raced, found>>

StartScan(s) ==
  /\ scan[s] = "registered" /\ Open
  /\ scan' = [scan EXCEPT ![s] = "started"]
  /\ running' = running \cup {s}
  /\ UNCHANGED <<power, scanCallback, stop, raced, found>>

RecordScan(s) ==
  /\ scan[s] = "started"
  /\ scan' = [scan EXCEPT ![s] = "over"]
  /\ scanCallback' = s
  /\ UNCHANGED <<power, running, stop, raced, found>>

\* Every result is of the one placeholder peripheral.
OnScanResult(s) ==
  /\ s \in running /\ Open
  /\ found' = TRUE
  /\ UNCHANGED <<power, scan, scanCallback, running, stop, raced>>

Next ==
  \/ Start \/ Stop \/ CloseDriver
  \/ \E s \in Scans :
       \/ ScanCheck(s) \/ ScanFails(s) \/ RegisterScanner(s) \/ OnScannerRegistered(s)
       \/ StartScan(s) \/ RecordScan(s) \/ OnScanResult(s)
  \/ \E q \in Stoppers \cup running : StopScanning(q)
  \/ \E q \in Waiters : StopScan(q)

-------------------------------------------------------------------------------
\* A scan that runs can be stopped: it is recorded in the device, about to be, or
\* being stopped, as long as no two Scans overlapped.
ScanOwned ==
  ~raced => \A s \in running : \/ scanCallback = s \/ scan[s] = "started"
                               \/ \E q \in Waiters : stop[q] = s
===============================================================================
