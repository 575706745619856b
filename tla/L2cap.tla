-------------------------------- MODULE L2cap --------------------------------
(***************************************************************************)
(* The L2CAP connection (linux/l2cap.go) from the writers of one end to    *)
(* the reader of the other, both ends running this code.                   *)
(*                                                                         *)
(* conn.write prepends a four-byte header to a payload and cuts the frame  *)
(* into ACL packets of at most bufSize bytes.  Each packet takes one slot  *)
(* of the channel bufCnt before it goes to the controller; the slot is     *)
(* given back by handleNumberOfCompletedPkts.  At the other end conn.loop  *)
(* collects the packets of a frame, and puts the payload of every complete *)
(* one into the buffered channel dataCh, from which Read takes it.         *)
(* Nothing serialises the writers of a connection.                         *)
(*                                                                         *)
(* Frames are sequences of bytes, with the header the code reads.  The two *)
(* controllers and the radio between them are external: they keep order    *)
(* and lose nothing while the connection lasts.                            *)
(***************************************************************************)
EXTENDS Naturals, Sequences, FiniteSets

CONSTANTS
  Writers,    \* goroutines that write to the connection
  Payloads,   \* Payloads[x]: what x writes, a sequence of channels and payloads
  BufSize,    \* HCI.bufSize: bytes of an ACL packet
  Credits,    \* the capacity of HCI.bufCnt
  DataCap,    \* the capacity of conn.dataCh
  Padding,    \* numbers of zero bytes the far controller may add to a packet
  Drops       \* 1 when the connection may be lost, 0 when it may not

HeaderLen == 4
AttCid == 4     \* the channel of conn.Write
SignalCid == 5  \* the channel of updateConnection, ignored by the receiver
Bytes == 0 .. 255
Frags == [start : BOOLEAN, b : Seq(Bytes)]

ASSUME L2capAssumption ==
  /\ IsFiniteSet(Writers)
  /\ BufSize \in Nat \ {0} /\ Credits \in Nat \ {0} /\ DataCap \in Nat \ {0}
  /\ Padding \subseteq Nat /\ 0 \in Padding /\ Drops \in {0, 1}
  /\ \A x \in Writers : Payloads[x] \in Seq([cid : {AttCid, SignalCid}, b : Seq(Bytes)])

VARIABLES
  wpc,       \* program counter of each writer
  wnext,     \* index of the payload it is writing, or will write next
  w,         \* w[x]: the bytes of x's frame that have not been sent
  flag,      \* flag[x]: x has sent the first packet of its frame
  bufCnt,    \* slots of HCI.bufCnt in use
  ctrl,      \* packets in the controller
  completed, \* packets sent by the controller and not yet counted back
  aclCh,     \* packets received by the far end and not yet taken by its loop
  rpc,       \* program counter of conn.loop
  buf,       \* its reassembly buffer
  dataCh,    \* conn.dataCh
  got,       \* the payloads returned by Read so far
  up,        \* the connection exists
  mixed      \* auxiliary: a packet went out between two of another frame

writers == <<wpc, wnext, w, flag>>
rx == <<rpc, buf>>
vars == <<writers, rx, bufCnt, ctrl, completed, aclCh, dataCh, got, up, mixed>>

\* The frame of payload p: length, channel, payload.
Frame(p) == <<Len(p.b) % 256, (Len(p.b) \div 256) % 256, p.cid, 0>> \o p.b

\* Prefix and rest of a byte sequence.
Take(s, n) == SubSeq(s, 1, n)
Drop(s, n) == SubSeq(s, n + 1, Len(s))
Min2(m, n) == IF m < n THEN m ELSE n

TypeOK ==
  /\ wpc \in [Writers -> {"idle", "credit", "send"}]
  /\ wnext \in [Writers -> Nat \ {0}]
  /\ \A x \in Writers : wpc[x] # "idle" => wnext[x] \in DOMAIN Payloads[x] /\ w[x] # <<>>
  /\ w \in [Writers -> Seq(Bytes)]
  /\ flag \in [Writers -> BOOLEAN]
  /\ bufCnt \in 0 .. Credits
  /\ ctrl \in Seq(Frags)
  /\ completed \in Nat
  /\ aclCh \in Seq(Frags)
  /\ rpc \in {"recv", "parse"}
  /\ buf \in Seq(Bytes)
  /\ dataCh \in Seq(Seq(Bytes)) /\ Len(dataCh) <= DataCap
  /\ got \in Seq(Seq(Bytes))
  /\ up \in BOOLEAN /\ mixed \in BOOLEAN

Init ==
  /\ wpc = [x \in Writers |-> "idle"]
  /\ wnext = [x \in Writers |-> 1]
  /\ w = [x \in Writers |-> <<>>]
  /\ flag = [x \in Writers |-> FALSE]
  /\ bufCnt = 0 /\ ctrl = <<>> /\ completed = 0 /\ aclCh = <<>>
  /\ rpc = "recv" /\ buf = <<>> /\ dataCh = <<>> /\ got = <<>> /\ up = TRUE /\ mixed = FALSE
-----------------------------------------------------------------------------
(* conn.write, called by conn.Write and updateConnection.                  *)

StartWrite(x) ==
  /\ wpc[x] = "idle" /\ wnext[x] \in DOMAIN Payloads[x]
  /\ wpc' = [wpc EXCEPT ![x] = "credit"]
  /\ w' = [w EXCEPT ![x] = Frame(Payloads[x][wnext[x]])]
  /\ flag' = [flag EXCEPT ![x] = FALSE]
  /\ UNCHANGED <<wnext, rx, bufCnt, ctrl, completed, aclCh, dataCh, got, up, mixed>>

\* Mutant: the slot is checked for and not taken.
TakeCredit_Free(x) ==
  /\ wpc[x] = "credit" /\ bufCnt < Credits
  /\ wpc' = [wpc EXCEPT ![x] = "send"]
  /\ UNCHANGED <<wnext, w, flag, rx, bufCnt, ctrl, completed, aclCh, dataCh, got, up, mixed>>

\* c.hci.bufCnt <- struct{}{}
TakeCredit(x) ==
  /\ wpc[x] = "credit" /\ bufCnt < Credits
  /\ bufCnt' = bufCnt + 1
  /\ wpc' = [wpc EXCEPT ![x] = "send"]
  /\ UNCHANGED <<wnext, w, flag, rx, ctrl, completed, aclCh, dataCh, got, up, mixed>>

\* y has sent some packets of its frame, and not all.
MidFrame(y) == wpc[y] # "idle" /\ flag[y]

\* c.hci.device.Write(w[:5+dLen]) and the rest of the iteration.  A packet for
\* a connection that is gone is refused by the controller.
SendFragment(x) ==
  LET dLen == Min2(Len(w[x]), BufSize)
      last == dLen = Len(w[x])
  IN /\ wpc[x] = "send"
     /\ ctrl' = IF up THEN Append(ctrl, [start |-> ~ flag[x], b |-> Take(w[x], dLen)]) ELSE ctrl
     /\ w' = [w EXCEPT ![x] = Drop(@, dLen)]
     /\ flag' = [flag EXCEPT ![x] = TRUE]
     /\ wpc' = [wpc EXCEPT ![x] = IF last THEN "idle" ELSE "credit"]
     /\ wnext' = [wnext EXCEPT ![x] = IF last THEN @ + 1 ELSE @]
     /\ mixed' = (mixed \/ \E y \in Writers \ {x} : MidFrame(y))
     /\ UNCHANGED <<rx, bufCnt, completed, aclCh, dataCh, got, up>>
-----------------------------------------------------------------------------
(* The controllers (external), and the event they send us.                 *)

Zeros(n) == [i \in 1 .. n |-> 0]

\* The packet is a whole frame.
Whole(a) == a.start /\ Len(a.b) >= HeaderLen /\ Len(a.b) = HeaderLen + a.b[1] + 256 * a.b[2]

\* A packet crosses the link; the far side may pad one that is a whole frame.
Transmit(n) ==
  /\ up /\ ctrl # <<>> /\ (n > 0 => Whole(Head(ctrl)))
  /\ ctrl' = Tail(ctrl)
  /\ completed' = completed + 1
  /\ aclCh' = Append(aclCh, [Head(ctrl) EXCEPT !.b = @ \o Zeros(n)])
  /\ UNCHANGED <<writers, rx, bufCnt, dataCh, got, up, mixed>>

\* handleNumberOfCompletedPkts: <-h.bufCnt for every packet of the event.
NumberOfCompletedPkts(n) ==
  /\ up /\ n \in 1 .. completed /\ n <= bufCnt
  /\ completed' = completed - n
  /\ bufCnt' = bufCnt - n
  /\ UNCHANGED <<writers, rx, ctrl, aclCh, dataCh, got, up, mixed>>

\* The connection is lost: the controller drops its packets and reports no
\* completion for them, and nothing in the code gives their slots back.
Disconnect ==
  /\ up /\ Drops = 1
  /\ up' = FALSE /\ ctrl' = <<>> /\ completed' = 0
  /\ UNCHANGED <<writers, rx, bufCnt, aclCh, dataCh, got, mixed>>
-----------------------------------------------------------------------------
(* conn.loop and Read at the far end.                                      *)

\* Mutant: a start packet does not discard what is left in the buffer.
Receive_NoReset ==
  /\ rpc = "recv" /\ aclCh # <<>>
  /\ aclCh' = Tail(aclCh)
  /\ buf' = buf \o Head(aclCh).b /\ rpc' = "parse"
  /\ UNCHANGED <<writers, bufCnt, ctrl, completed, dataCh, got, up, mixed>>

\* for a := range c.aclCh; a packet without data is skipped.
Receive ==
  /\ rpc = "recv" /\ aclCh # <<>>
  /\ aclCh' = Tail(aclCh)
  /\ LET a == Head(aclCh) IN
     IF a.b = <<>> THEN UNCHANGED rx
     ELSE /\ buf' = IF a.start THEN a.b ELSE buf \o a.b
          /\ rpc' = "parse"
  /\ UNCHANGED <<writers, bufCnt, ctrl, completed, dataCh, got, up, mixed>>

\* The length of the frame at the head of the buffer.
PduLen == HeaderLen + buf[1] + 256 * buf[2]

\* Mutant: a frame is complete only when something follows it.
Complete_Strict == Len(buf) >= HeaderLen /\ Len(buf) > PduLen

Complete == Len(buf) >= HeaderLen /\ Len(buf) >= PduLen

\* One iteration of the inner loop: the payload of a complete frame goes to
\* dataCh, unless the frame is of the signalling channel.
ParsePdu ==
  LET cid == buf[3] + 256 * buf[4]
  IN /\ rpc = "parse" /\ Complete
     /\ IF cid = SignalCid THEN UNCHANGED dataCh
        ELSE /\ Len(dataCh) < DataCap
             /\ dataCh' = Append(dataCh, SubSeq(buf, HeaderLen + 1, PduLen))
     /\ buf' = Drop(buf, PduLen)
     /\ UNCHANGED <<writers, rpc, bufCnt, ctrl, completed, aclCh, got, up, mixed>>

\* The inner loop ends: more fragments are needed.
NeedMore ==
  /\ rpc = "parse" /\ ~ Complete
  /\ rpc' = "recv"
  /\ UNCHANGED <<writers, buf, bufCnt, ctrl, completed, aclCh, dataCh, got, up, mixed>>

Read ==
  /\ dataCh # <<>>
  /\ got' = Append(got, Head(dataCh)) /\ dataCh' = Tail(dataCh)
  /\ UNCHANGED <<writers, rx, bufCnt, ctrl, completed, aclCh, up, mixed>>
-----------------------------------------------------------------------------
WriterStep(x) == TakeCredit(x) \/ SendFragment(x)
ControllerStep == (\E n \in Padding : Transmit(n)) \/ \E n \in 1 .. Credits : NumberOfCompletedPkts(n)
LoopStep == Receive \/ ParsePdu \/ NeedMore

Next ==
  \/ \E x \in Writers : StartWrite(x) \/ WriterStep(x)
  \/ ControllerStep
  \/ Disconnect
  \/ LoopStep
  \/ Read

Spec == Init /\ [][Next]_vars

\* The goroutines run, the controller transmits and reports, the application
\* reads; a writer blocked on bufCnt is queued by the channel, hence strong
\* fairness.  Nothing obliges the application to write.
Fairness ==
  /\ \A x \in Writers : SF_vars(TakeCredit(x)) /\ WF_vars(SendFragment(x))
  /\ WF_vars(\E n \in Padding : Transmit(n))
  /\ WF_vars(\E n \in 1 .. Credits : NumberOfCompletedPkts(n))
  /\ WF_vars(LoopStep) /\ WF_vars(Read)

FairSpec == Spec /\ Fairness
-----------------------------------------------------------------------------
(* Properties.                                                             *)

\* The packets that hold a slot: taken for a packet about to be written, in
\* the controller, or sent and not yet counted back.
Holders == {x \in Writers : wpc[x] = "send"}

\* The controller never holds more packets than bufCnt has slots, and the slots
\* are accounted for exactly while the connection lasts (conn.write: "make sure
\* we don't send more buffers than the controller can handle").
CreditsAccounted ==
  /\ Len(ctrl) + completed + Cardinality(Holders) <= bufCnt
  /\ up => bufCnt = Len(ctrl) + completed + Cardinality(Holders)

\* Payload b is one that x writes with conn.Write; those of different writers differ.
IsPayloadOf(x, b) == \E i \in DOMAIN Payloads[x] : Payloads[x][i] = [cid |-> AttCid, b |-> b]

\* The payloads of x among the first n that are in s, and among the first n x writes.
CountOf(x, s, n) == Cardinality({i \in 1 .. n : IsPayloadOf(x, s[i])})
AttCount(x, n) == Cardinality({i \in 1 .. n : Payloads[x][i].cid = AttCid})

\* What Read returns is what was written, whatever link loss and short padding do,
\* as long as the packets of two frames have not been mixed: every payload whole,
\* none invented, and those of one writer in the order it wrote them, the first
\* that is read being its first, the second its second and so on.
ReadsWhatWasWritten ==
  ~ mixed =>
    /\ \A i \in DOMAIN got : \E x \in Writers : IsPayloadOf(x, got[i])
    /\ \A x \in Writers : \A i \in DOMAIN got : IsPayloadOf(x, got[i]) =>
         \E j \in DOMAIN Payloads[x] : /\ Payloads[x][j] = [cid |-> AttCid, b |-> got[i]]
                                       /\ AttCount(x, j) = CountOf(x, got, i)

\* Everything that is written is read, with fewer slots than packets, unless the packets of two frames
\* have been mixed or the link is lost.
EverythingRead ==
  \A x \in Writers : \A i \in DOMAIN Payloads[x] :
    wnext[x] > i /\ Payloads[x][i].cid = AttCid
      ~> ((\E j \in DOMAIN got : got[j] = Payloads[x][i].b) \/ mixed \/ ~ up)
=============================================================================
