---------------------------- MODULE PacketProofs ----------------------------
(***************************************************************************)
(* Proofs about what happens to packets: the L2CAP connection (L2cap), for *)
(* any writers, payloads, packet size, slots and capacity of dataCh, and   *)
(* the buffers of the HCI main loop (PacketPool), for any number of        *)
(* buffers and packets, any depth of the pool and any mix of packets.      *)
(***************************************************************************)
EXTENDS L2cap, PacketPool, FiniteSetTheorems, TLAPS

-----------------------------------------------------------------------------
(* Sequences and bytes.                                                    *)

\* The payloads the writers have.
PayloadSet == [cid : {AttCid, SignalCid}, b : Seq(Bytes)]

\* Bytes are numbers below 256.
LEMMA ByteNumber ==
  /\ \A n \in Bytes : n \in Nat /\ n < 256
  /\ \A n \in Nat : n < 256 => n \in Bytes
BY DEF Bytes

\* A length that two bytes hold.
Fits(n) == n < 65536

\* The two length bytes of a header.
Low(n) == n % 256
High(n) == (n \div 256) % 256

\* Put together again, they are the length.
LEMMA LengthOfTwoBytes ==
  ASSUME NEW n \in Nat
  PROVE  Low(n) \in Bytes /\ High(n) \in Bytes /\ (Fits(n) => Low(n) + 256 * High(n) = n)
<1>1. n % 256 \in 0 .. 255 /\ (n \div 256) % 256 \in 0 .. 255
  OBVIOUS
<1>2. ASSUME n < 65536 PROVE (n % 256) + 256 * ((n \div 256) % 256) = n
  <2>1. n \div 256 \in Nat /\ (n \div 256) % 256 = n \div 256
    BY <1>2, SMT
  <2>2. (n % 256) + 256 * (n \div 256) = n
    BY SMT
  <2> QED
    BY <2>1, <2>2, SMT
<1>3. Low(n) \in Bytes /\ High(n) \in Bytes
  BY <1>1 DEF Low, High, Bytes
<1>4. Fits(n) => Low(n) + 256 * High(n) = n
  BY <1>2, SMT DEF Low, High, Fits
<1> QED
  BY <1>3, <1>4

\* The length and the bytes of a concatenation.
LEMMA Concat ==
  ASSUME NEW S, NEW s \in Seq(S), NEW t \in Seq(S)
  PROVE  /\ s \o t \in Seq(S) /\ Len(s \o t) = Len(s) + Len(t)
         /\ \A i \in 1 .. Len(s) : (s \o t)[i] = s[i]
         /\ \A i \in 1 .. Len(t) : (s \o t)[Len(s) + i] = t[i]
<1>1. s \o t \in Seq(S) /\ Len(s \o t) = Len(s) + Len(t)
  OBVIOUS
<1>2. \A i \in 1 .. Len(s) : (s \o t)[i] = s[i]
  OBVIOUS
<1>3. \A i \in 1 .. Len(t) : (s \o t)[Len(s) + i] = t[i]
  OBVIOUS
<1> QED
  BY <1>1, <1>2, <1>3

\* What is taken of a sequence, and what is left.
LEMMA Cut ==
  ASSUME NEW S, NEW s \in Seq(S), NEW n \in 0 .. Len(s)
  PROVE  /\ Take(s, n) \in Seq(S) /\ Len(Take(s, n)) = n
         /\ \A i \in 1 .. n : Take(s, n)[i] = s[i]
         /\ Drop(s, n) \in Seq(S) /\ Len(Drop(s, n)) = Len(s) - n
         /\ \A i \in 1 .. Len(s) - n : Drop(s, n)[i] = s[n + i]
BY DEF Take, Drop

\* The same of bytes.
LEMMA CutBytes ==
  ASSUME NEW s \in Seq(Bytes), NEW n \in 0 .. Len(s)
  PROVE  /\ Take(s, n) \in Seq(Bytes) /\ Len(Take(s, n)) = n
         /\ \A i \in 1 .. n : Take(s, n)[i] = s[i]
         /\ Drop(s, n) \in Seq(Bytes) /\ Len(Drop(s, n)) = Len(s) - n
         /\ \A i \in 1 .. Len(s) - n : Drop(s, n)[i] = s[n + i]
BY Cut

\* The header of a frame and the payload that follows it (conn.write).
LEMMA FrameBytes ==
  ASSUME NEW p \in PayloadSet, NEW n \in Nat, n = Len(p.b)
  PROVE  /\ Frame(p) \in Seq(Bytes) /\ Len(Frame(p)) = 4 + n
         /\ Frame(p)[1] \in Nat /\ Frame(p)[2] \in Nat
         /\ Fits(n) => Frame(p)[1] + 256 * Frame(p)[2] = n
         /\ Frame(p)[3] = p.cid /\ Frame(p)[4] = 0
         /\ \A i \in 1 .. n : Frame(p)[4 + i] = p.b[i]
<1>1. p.b \in Seq(Bytes) /\ p.cid \in {4, 5}
  BY DEF PayloadSet, AttCid, SignalCid
<1>2. PICK l \in Bytes : l = Low(n)
  BY LengthOfTwoBytes
<1>2a. PICK m \in Bytes : m = High(n) /\ (Fits(n) => l + 256 * m = n)
  BY <1>2, LengthOfTwoBytes
<1>3. p.cid \in Bytes /\ 0 \in Bytes /\ l \in Nat /\ m \in Nat
  BY <1>1, ByteNumber
<1>4. PICK h : h = <<l, m, p.cid, 0>>
  OBVIOUS
<1>5. h \in Seq(Bytes)
  BY <1>3, <1>4
<1>6. Len(h) = 4 /\ h[1] = l /\ h[2] = m /\ h[3] = p.cid /\ h[4] = 0
  BY <1>4
<1>7. Frame(p) = h \o p.b
  BY <1>2, <1>2a, <1>4 DEF Frame, Low, High
<1>8. /\ h \o p.b \in Seq(Bytes) /\ Len(h \o p.b) = Len(h) + Len(p.b)
      /\ \A i \in 1 .. Len(h) : (h \o p.b)[i] = h[i]
      /\ \A i \in 1 .. Len(p.b) : (h \o p.b)[Len(h) + i] = p.b[i]
  BY <1>1, <1>5, Concat
<1>9. \A i \in 1 .. 4 : (h \o p.b)[i] = h[i]
  BY <1>6, <1>8
<1>10. Frame(p)[1] = l /\ Frame(p)[2] = m /\ Frame(p)[3] = p.cid /\ Frame(p)[4] = 0
  <2>1. 1 \in 1 .. 4 /\ 2 \in 1 .. 4 /\ 3 \in 1 .. 4 /\ 4 \in 1 .. 4
    OBVIOUS
  <2>2. (h \o p.b)[1] = h[1] /\ (h \o p.b)[2] = h[2] /\ (h \o p.b)[3] = h[3] /\ (h \o p.b)[4] = h[4]
    BY <1>9, <2>1, Zenon
  <2> QED
    BY <1>6, <1>7, <2>2, Zenon
<1>11. Len(Frame(p)) = 4 + n /\ Frame(p) \in Seq(Bytes)
  BY <1>6, <1>7, <1>8
<1>12. \A i \in 1 .. n : Frame(p)[4 + i] = p.b[i]
  BY <1>6, <1>7, <1>8
<1>13. Fits(n) => Frame(p)[1] + 256 * Frame(p)[2] = n
  BY <1>2a, <1>10
<1> QED
  BY <1>3, <1>10, <1>11, <1>12, <1>13

\* What the proofs use of the constants, without the payloads.
LEMMA Constants ==
  /\ IsFiniteSet(Writers) /\ Padding \subseteq Nat /\ 0 \in Padding
  /\ BufSize \in Nat \ {0} /\ Credits \in Nat \ {0} /\ DataCap \in Nat \ {0}
BY L2capAssumption

\* The payload a writer is at.
LEMMA PayloadOf ==
  ASSUME NEW x \in Writers, NEW j \in DOMAIN Payloads[x]
  PROVE  /\ Payloads[x] \in Seq(PayloadSet)
         /\ Payloads[x][j] \in PayloadSet /\ j \in 1 .. Len(Payloads[x]) /\ j \in Nat \ {0}
         /\ DOMAIN Payloads[x] = 1 .. Len(Payloads[x]) /\ Len(Payloads[x]) \in Nat
<1>1. Payloads[x] \in Seq(PayloadSet)
  BY L2capAssumption DEF PayloadSet
<1> QED
  BY <1>1

-----------------------------------------------------------------------------
(* Types and slots.                                                        *)

\* The initial state has its types.
LEMMA TypeInit == Init => TypeOK
<1> SUFFICES ASSUME Init PROVE TypeOK
  OBVIOUS
<1>1. <<>> \in Seq(Bytes) /\ <<>> \in Seq(Frags) /\ <<>> \in Seq(Seq(Bytes)) /\ Len(<<>>) = 0
  OBVIOUS
<1>2. w \in [Writers -> Seq(Bytes)] /\ wpc \in [Writers -> {"idle", "credit", "send"}]
        /\ wnext \in [Writers -> Nat \ {0}] /\ flag \in [Writers -> BOOLEAN]
  BY <1>1 DEF Init
<1>3. bufCnt \in 0 .. Credits /\ completed \in Nat /\ Len(dataCh) <= DataCap
  BY <1>1, L2capAssumption DEF Init
<1>4. \A x \in Writers : wpc[x] = "idle"
  BY DEF Init
<1>5. /\ ctrl \in Seq(Frags) /\ aclCh \in Seq(Frags) /\ buf \in Seq(Bytes) /\ dataCh \in Seq(Seq(Bytes))
      /\ got \in Seq(Seq(Bytes)) /\ up \in BOOLEAN /\ mixed \in BOOLEAN /\ rpc \in {"recv", "parse"}
  BY <1>1 DEF Init
<1> QED
  BY <1>2, <1>3, <1>4, <1>5 DEF TypeOK

\* Every step keeps the types.
LEMMA TypeStep == TypeOK /\ [Next]_vars => TypeOK'
<1> SUFFICES ASSUME TypeOK, [Next]_vars PROVE TypeOK'
  OBVIOUS
<1> USE Constants
<1>1. ASSUME NEW x \in Writers, StartWrite(x) PROVE TypeOK'
  <2>1. Frame(Payloads[x][wnext[x]]) \in Seq(Bytes) /\ Frame(Payloads[x][wnext[x]]) # <<>>
    <3>1. Payloads[x][wnext[x]] \in PayloadSet
      BY <1>1, PayloadOf DEF StartWrite
    <3>2. Frame(Payloads[x][wnext[x]]) \in Seq(Bytes) /\ Len(Frame(Payloads[x][wnext[x]])) >= 4
      <4>1. PICK p \in PayloadSet : p = Payloads[x][wnext[x]]
        BY <3>1
      <4>2. PICK l \in Nat : l = Len(p.b)
        BY DEF PayloadSet
      <4>3. Frame(p) \in Seq(Bytes) /\ Len(Frame(p)) = 4 + l
        BY <4>2, FrameBytes
      <4>4. 4 + l >= 4
        OBVIOUS
      <4> QED
        BY <4>1, <4>3, <4>4
    <3> QED
      BY <3>2
  <2> QED
    BY <1>1, <2>1 DEF StartWrite, TypeOK, rx
<1>2. ASSUME NEW x \in Writers, TakeCredit(x) PROVE TypeOK'
  <2>1. wpc' \in [Writers -> {"idle", "credit", "send"}] /\ bufCnt' \in 0 .. Credits
    BY <1>2 DEF TakeCredit, TypeOK
  <2>2. \A y \in Writers : wpc'[y] # "idle" => wnext[y] \in DOMAIN Payloads[y] /\ w[y] # <<>>
    BY <1>2 DEF TakeCredit, TypeOK
  <2>3. UNCHANGED <<wnext, w, flag, rpc, buf, ctrl, completed, aclCh, dataCh, got, up, mixed>>
    BY <1>2 DEF TakeCredit, rx
  <2> QED
    BY <2>1, <2>2, <2>3 DEF TypeOK
<1>3. ASSUME NEW x \in Writers, SendFragment(x) PROVE TypeOK'
  <2> DEFINE n == Min2(Len(w[x]), BufSize)
  <2>1. w[x] \in Seq(Bytes) /\ wpc[x] = "send" /\ wnext[x] \in DOMAIN Payloads[x]
    BY <1>3 DEF SendFragment, TypeOK
  <2>2. n \in 0 .. Len(w[x])
    BY <2>1 DEF Min2
  <2>3. Take(w[x], n) \in Seq(Bytes) /\ Drop(w[x], n) \in Seq(Bytes) /\ Len(Drop(w[x], n)) = Len(w[x]) - n
    BY <2>1, <2>2, CutBytes
  <2>4. n # Len(w[x]) => Drop(w[x], n) # <<>>
    BY <2>1, <2>2, <2>3
  <2>5. ctrl' \in Seq(Frags)
    <3>1. [start |-> ~ flag[x], b |-> Take(w[x], n)] \in Frags
      BY <2>3 DEF Frags, TypeOK
    <3> HIDE DEF n
    <3>2. ctrl' = IF up THEN Append(ctrl, [start |-> ~ flag[x], b |-> Take(w[x], n)]) ELSE ctrl
      BY <1>3 DEF SendFragment, n
    <3> QED
      BY <3>1, <3>2 DEF TypeOK
  <2>6. w' \in [Writers -> Seq(Bytes)] /\ w' = [w EXCEPT ![x] = Drop(w[x], n)]
    BY <1>3, <2>3 DEF SendFragment, TypeOK
  <2>7. /\ flag' \in [Writers -> BOOLEAN]
        /\ wpc' = [wpc EXCEPT ![x] = IF n = Len(w[x]) THEN "idle" ELSE "credit"]
        /\ wnext' = [wnext EXCEPT ![x] = IF n = Len(w[x]) THEN wnext[x] + 1 ELSE wnext[x]]
    BY <1>3 DEF SendFragment, TypeOK
  <2> HIDE DEF n
  <2>8. wpc' \in [Writers -> {"idle", "credit", "send"}] /\ wnext' \in [Writers -> Nat \ {0}]
    BY <2>7 DEF TypeOK
  <2>9. \A y \in Writers : wpc'[y] # "idle" => wnext'[y] \in DOMAIN Payloads[y] /\ w'[y] # <<>>
    BY <2>1, <2>4, <2>6, <2>7 DEF TypeOK
  <2>10. mixed' \in BOOLEAN /\ UNCHANGED <<rx, bufCnt, completed, aclCh, dataCh, got, up>>
    BY <1>3 DEF SendFragment, TypeOK
  <2> QED
    BY <2>5, <2>6, <2>7, <2>8, <2>9, <2>10 DEF TypeOK, rx
<1>4. ASSUME NEW n \in Padding, Transmit(n) PROVE TypeOK'
  <2>1. ctrl \in Seq(Frags) /\ ctrl # <<>> /\ aclCh \in Seq(Frags)
    BY <1>4 DEF Transmit, TypeOK
  <2>2. Tail(ctrl) \in Seq(Frags) /\ Head(ctrl) \in Frags
    BY <2>1
  <2>3. Zeros(n) \in Seq(Bytes)
    BY DEF Zeros, Bytes
  <2>4. Head(ctrl).b \o Zeros(n) \in Seq(Bytes)
    BY <2>2, <2>3 DEF Frags
  <2>5. [Head(ctrl) EXCEPT !.b = @ \o Zeros(n)] \in Frags
    BY <2>2, <2>4 DEF Frags
  <2>6. Append(aclCh, [Head(ctrl) EXCEPT !.b = @ \o Zeros(n)]) \in Seq(Frags)
    BY <2>1, <2>5
  <2>7. ctrl' \in Seq(Frags) /\ aclCh' \in Seq(Frags) /\ completed' \in Nat
    BY <1>4, <2>2, <2>6 DEF Transmit, TypeOK
  <2>8. UNCHANGED <<wpc, wnext, w, flag, rpc, buf, bufCnt, dataCh, got, up, mixed>>
    BY <1>4 DEF Transmit, writers, rx
  <2> QED
    BY <2>7, <2>8 DEF TypeOK
<1>5. ASSUME NEW n \in 1 .. Credits, NumberOfCompletedPkts(n) PROVE TypeOK'
  <2>1. bufCnt' \in 0 .. Credits /\ completed' \in Nat
    BY <1>5 DEF NumberOfCompletedPkts, TypeOK
  <2>2. UNCHANGED <<wpc, wnext, w, flag, rpc, buf, ctrl, aclCh, dataCh, got, up, mixed>>
    BY <1>5 DEF NumberOfCompletedPkts, writers, rx
  <2> QED
    BY <2>1, <2>2 DEF TypeOK
<1>6. CASE Disconnect
  <2>1. ctrl' \in Seq(Frags) /\ completed' \in Nat /\ up' \in BOOLEAN
    <3>1. <<>> \in Seq(Frags)
      OBVIOUS
    <3> QED
      BY <1>6, <3>1 DEF Disconnect
  <2> QED
    BY <1>6, <2>1 DEF Disconnect, TypeOK, writers, rx
<1>7. CASE Receive
  <2>1. aclCh \in Seq(Frags) /\ aclCh # <<>> /\ aclCh' = Tail(aclCh)
    BY <1>7 DEF Receive, TypeOK
  <2>2. Tail(aclCh) \in Seq(Frags) /\ Head(aclCh) \in Frags
    BY <2>1
  <2>3. Head(aclCh).b \in Seq(Bytes) /\ buf \in Seq(Bytes)
    BY <2>2 DEF Frags, TypeOK
  <2>4. buf \o Head(aclCh).b \in Seq(Bytes)
    BY <2>3
  <2>5. buf' \in Seq(Bytes) /\ rpc' \in {"recv", "parse"}
    BY <1>7, <2>3, <2>4 DEF Receive, TypeOK, rx
  <2> QED
    BY <1>7, <2>1, <2>2, <2>5 DEF Receive, TypeOK, writers
<1>8. CASE ParsePdu
  <2>1. buf \in Seq(Bytes) /\ Len(buf) >= 4 /\ PduLen <= Len(buf) /\ PduLen >= 4 /\ PduLen \in Nat
    <3>1. buf \in Seq(Bytes) /\ Len(buf) >= 4 /\ Len(buf) >= PduLen
      BY <1>8 DEF ParsePdu, TypeOK, Complete, HeaderLen
    <3>2. buf[1] \in Nat /\ buf[2] \in Nat
      BY <3>1, ByteNumber
    <3> QED
      BY <3>1, <3>2 DEF PduLen, HeaderLen
  <2>2. Drop(buf, PduLen) \in Seq(Bytes) /\ SubSeq(buf, HeaderLen + 1, PduLen) \in Seq(Bytes)
    <3>1. PduLen \in 0 .. Len(buf)
      BY <2>1
    <3>2. Drop(buf, PduLen) \in Seq(Bytes)
      BY <2>1, <3>1, CutBytes
    <3>3. SubSeq(buf, HeaderLen + 1, PduLen) \in Seq(Bytes)
      BY <2>1 DEF HeaderLen
    <3> QED
      BY <3>2, <3>3
  <2>3. dataCh' \in Seq(Seq(Bytes)) /\ Len(dataCh') <= DataCap
    <3>1. dataCh \in Seq(Seq(Bytes)) /\ Len(dataCh) <= DataCap
      BY DEF TypeOK
    <3>2. \/ dataCh' = dataCh
          \/ Len(dataCh) < DataCap /\ dataCh' = Append(dataCh, SubSeq(buf, HeaderLen + 1, PduLen))
      BY <1>8 DEF ParsePdu
    <3>3. ASSUME NEW p \in Seq(Bytes), Len(dataCh) < DataCap, dataCh' = Append(dataCh, p)
          PROVE  dataCh' \in Seq(Seq(Bytes)) /\ Len(dataCh') <= DataCap
      BY <3>1, <3>3
    <3> QED
      BY <2>2, <3>1, <3>2, <3>3
  <2> QED
    BY <1>8, <2>2, <2>3 DEF ParsePdu, TypeOK, writers
<1>9. CASE NeedMore
  BY <1>9 DEF NeedMore, TypeOK, writers
<1>10. CASE Read
  <2>1. dataCh \in Seq(Seq(Bytes)) /\ dataCh # <<>> /\ got \in Seq(Seq(Bytes))
    BY <1>10 DEF Read, TypeOK
  <2>2. Tail(dataCh) \in Seq(Seq(Bytes)) /\ Len(Tail(dataCh)) = Len(dataCh) - 1 /\ Head(dataCh) \in Seq(Bytes)
    BY <2>1
  <2>3. Append(got, Head(dataCh)) \in Seq(Seq(Bytes))
    BY <2>1, <2>2
  <2> QED
    BY <1>10, <2>2, <2>3 DEF Read, TypeOK, writers, rx
<1>11. CASE UNCHANGED vars
  BY <1>11 DEF TypeOK, vars, writers, rx
<1> QED
  BY <1>1, <1>2, <1>3, <1>4, <1>5, <1>6, <1>7, <1>8, <1>9, <1>10, <1>11
     DEF Next, WriterStep, ControllerStep, LoopStep

-----------------------------------------------------------------------------
\* The packets that hold a slot are finitely many.
LEMMA HoldersFinite ==
  ASSUME NEW P
  PROVE  /\ IsFiniteSet({x \in Writers : P[x] = "send"})
         /\ Cardinality({x \in Writers : P[x] = "send"}) \in Nat
BY L2capAssumption, FS_Subset, FS_CardinalityType

\* No slot is in use at first.
LEMMA CreditsInit == Init => CreditsAccounted
<1> SUFFICES ASSUME Init PROVE CreditsAccounted
  OBVIOUS
<1>1. Holders = {}
  BY DEF Init, Holders
<1>2. Cardinality(Holders) = 0
  BY <1>1, FS_EmptySet
<1> QED
  BY <1>2 DEF Init, CreditsAccounted

\* A slot is taken with a packet, stays with it to the controller and is given back
\* when the packet is counted; a lost connection keeps its slots.
LEMMA CreditsStep == TypeOK /\ CreditsAccounted /\ [Next]_vars => CreditsAccounted'
<1> SUFFICES ASSUME TypeOK, CreditsAccounted, [Next]_vars PROVE CreditsAccounted'
  OBVIOUS
<1> USE Constants
<1>0. /\ IsFiniteSet(Holders) /\ Cardinality(Holders) \in Nat /\ Cardinality(Holders') \in Nat
      /\ Len(ctrl) \in Nat /\ completed \in Nat /\ bufCnt \in Nat
  <2>1. IsFiniteSet({x \in Writers : wpc[x] = "send"}) /\ Cardinality({x \in Writers : wpc[x] = "send"}) \in Nat
    BY HoldersFinite
  <2>2. Cardinality({x \in Writers : wpc'[x] = "send"}) \in Nat
    BY HoldersFinite
  <2>3. Len(ctrl) \in Nat /\ completed \in Nat /\ bufCnt \in Nat
    BY DEF TypeOK
  <2> QED
    BY <2>1, <2>2, <2>3 DEF Holders
<1>1. ASSUME NEW x \in Writers, StartWrite(x) PROVE CreditsAccounted'
  <2>1. Holders' = Holders
    BY <1>1 DEF StartWrite, TypeOK, Holders
  <2> QED
    BY <1>1, <2>1 DEF StartWrite, CreditsAccounted
<1>2. ASSUME NEW x \in Writers, TakeCredit(x) PROVE CreditsAccounted'
  <2>1. Holders' = Holders \cup {x} /\ x \notin Holders
    BY <1>2 DEF TakeCredit, TypeOK, Holders
  <2>2. Cardinality(Holders') = Cardinality(Holders) + 1
    BY <1>0, <2>1, FS_AddElement
  <2>3. bufCnt' = bufCnt + 1 /\ ctrl' = ctrl /\ completed' = completed /\ up' = up
    BY <1>2 DEF TakeCredit
  <2>4. Len(ctrl') + completed' + Cardinality(Holders') = Len(ctrl) + completed + Cardinality(Holders) + 1
    BY <1>0, <2>2, <2>3
  <2> QED
    BY <1>0, <2>3, <2>4 DEF CreditsAccounted
<1>3. ASSUME NEW x \in Writers, SendFragment(x) PROVE CreditsAccounted'
  <2>1. Holders' = Holders \ {x} /\ x \in Holders
    BY <1>3 DEF SendFragment, TypeOK, Holders
  <2>2. Cardinality(Holders') = Cardinality(Holders) - 1
    BY <1>0, <2>1, FS_RemoveElement
  <2>3. ctrl \in Seq(Frags) /\ ctrl' \in Seq(Frags) /\ bufCnt' = bufCnt /\ up' = up /\ completed' = completed
          /\ (up => Len(ctrl') = Len(ctrl) + 1) /\ (~ up => ctrl' = ctrl)
    <3>1. ctrl \in Seq(Frags) /\ ctrl' \in Seq(Frags)
      BY TypeStep DEF TypeOK
    <3>2. PICK f : ctrl' = IF up THEN Append(ctrl, f) ELSE ctrl
      BY <1>3 DEF SendFragment
    <3> QED
      BY <1>3, <3>1, <3>2 DEF SendFragment
  <2>4. CASE up
    <3>0. Len(ctrl') = Len(ctrl) + 1 /\ completed' = completed
      BY <2>3, <2>4
    <3>1. Len(ctrl') + completed' + Cardinality(Holders') = Len(ctrl) + completed + Cardinality(Holders)
      BY <1>0, <2>2, <3>0
    <3> QED
      BY <1>0, <2>3, <3>1 DEF CreditsAccounted
  <2>5. CASE ~ up
    <3>1. Len(ctrl') + completed' + Cardinality(Holders') = Len(ctrl) + completed + Cardinality(Holders) - 1
      BY <1>0, <2>2, <2>3, <2>5
    <3> QED
      BY <1>0, <2>3, <2>5, <3>1 DEF CreditsAccounted
  <2> QED
    BY <2>4, <2>5
<1>4. ASSUME NEW n \in Padding, Transmit(n) PROVE CreditsAccounted'
  <2>1. Holders' = Holders
    BY <1>4 DEF Transmit, Holders, writers
  <2>2. ctrl \in Seq(Frags) /\ ctrl # <<>> /\ Len(ctrl') = Len(ctrl) - 1
    BY <1>4 DEF Transmit, TypeOK
  <2> QED
    BY <1>0, <1>4, <2>1, <2>2 DEF Transmit, CreditsAccounted
<1>5. ASSUME NEW n \in 1 .. Credits, NumberOfCompletedPkts(n) PROVE CreditsAccounted'
  <2>1. Holders' = Holders
    BY <1>5 DEF NumberOfCompletedPkts, Holders, writers
  <2> QED
    BY <1>0, <1>5, <2>1 DEF NumberOfCompletedPkts, CreditsAccounted
<1>6. CASE Disconnect
  <2>1. Holders' = Holders /\ Len(ctrl') = 0
    BY <1>6 DEF Disconnect, Holders, writers
  <2> QED
    BY <1>0, <1>6, <2>1 DEF Disconnect, CreditsAccounted
<1>7. CASE LoopStep \/ Read \/ UNCHANGED vars
  <2>1. UNCHANGED <<wpc, ctrl, completed, bufCnt, up>>
    BY <1>7 DEF LoopStep, Receive, ParsePdu, NeedMore, Read, vars, writers
  <2>2. Holders' = Holders
    BY <2>1 DEF Holders
  <2> QED
    BY <2>1, <2>2 DEF CreditsAccounted
<1> QED
  BY <1>1, <1>2, <1>3, <1>4, <1>5, <1>6, <1>7 DEF Next, WriterStep, ControllerStep

\* Type correctness: among others a writer that is not idle has bytes left to send,
\* and dataCh never holds more than its capacity (conn.write, conn.loop).
THEOREM L2capTypeCorrect == Spec => []TypeOK
BY TypeInit, TypeStep, PTL DEF Spec

\* However many writers share a connection, the controller never holds more packets
\* than bufCnt has slots, and no slot is lost or given back twice while the
\* connection lasts (conn.write, handleNumberOfCompletedPkts).
THEOREM SlotsAreAccounted == Spec => []CreditsAccounted
BY TypeInit, TypeStep, CreditsInit, CreditsStep, PTL DEF Spec

-----------------------------------------------------------------------------
(* What is on its way.  Every packet between the writers and the reader    *)
(* stands for a piece of one frame; the proof follows those pieces.        *)

\* A tag says what a packet carries: n bytes, from offset o, of the frame of the
\* payload j of writer x, and how many frames of each writer are out after it.
TagSet == [x : Writers, j : Nat, o : Nat, n : Nat, m : [Writers -> Nat]]
Bits(t) == Frame(Payloads[t.x][t.j])
Full(t) == Len(Bits(t))
End(t) == t.o + t.n
Mid(t) == 0 < End(t) /\ End(t) < Full(t)

\* The frame and the piece exist.
IsTag(t) ==
  /\ t.x \in Writers /\ t.j \in DOMAIN Payloads[t.x]
  /\ t.o \in Nat /\ t.n \in Nat \ {0} /\ t.m \in [Writers -> Nat]
  /\ End(t) <= Full(t)

\* When m counts the frames before t, t is of the next frame of its writer.
Counted(m, t) ==
  /\ t.j = m[t.x] + 1
  /\ t.m = IF End(t) = Full(t) THEN [m EXCEPT ![t.x] = @ + 1] ELSE m

\* t continues the frame of s, or starts one when s has ended one.
After(s, t) ==
  /\ IF Mid(s) THEN t.x = s.x /\ t.j = s.j /\ t.o = End(s) ELSE t.o = 0
  /\ Counted(s.m, t)

\* The tag before place k of Q, where r precedes Q.
Before(r, Q, k) == IF k = 1 THEN r ELSE Q[k - 1]

Chain(r, Q) == \A k \in 1 .. Len(Q) : IsTag(Q[k]) /\ After(Before(r, Q, k), Q[k])

\* Packet a carries what tag t says.
Carries(a, t) ==
  /\ a.start = (t.o = 0)
  /\ Len(a.b) >= t.n
  /\ \A i \in 1 .. t.n : a.b[i] = Bits(t)[t.o + i]

\* ... and nothing else, but for less than a header after a whole frame.
Padded(a, t) == Len(a.b) = t.n \/ (t.n = Full(t) /\ Len(a.b) < t.n + HeaderLen)

\* Q says what is in aclCh and, after that, in the controller.
OnAir(Q) ==
  /\ Len(Q) = Len(aclCh) + Len(ctrl)
  /\ \A k \in 1 .. Len(aclCh) : Carries(aclCh[k], Q[k]) /\ Padded(aclCh[k], Q[k])
  /\ \A k \in 1 .. Len(ctrl) : LET t == Q[Len(aclCh) + k]
                               IN  Carries(ctrl[k], t) /\ Len(ctrl[k].b) = t.n

\* r is what conn.loop has collected of a frame, d the frames it has taken apart
\* of each writer; without a frame the buffer holds less than a header.
AtReceiver(r, d) ==
  /\ r.o = 0 /\ r.n \in Nat /\ r.m \in [Writers -> Nat]
  /\ r.n = 0 => r.m = d /\ Len(buf) < HeaderLen
  /\ r.n # 0 => /\ IsTag(r) /\ Counted(d, r)
                /\ Len(buf) >= r.n /\ \A i \in 1 .. r.n : buf[i] = Bits(r)[i]
                /\ IF r.n = Full(r) THEN rpc = "parse" /\ Len(buf) < r.n + HeaderLen
                                    ELSE Len(buf) = r.n

\* A writer that has sent nothing of its frame has all of it.
FreshFrames ==
  \A x \in Writers : wpc[x] # "idle" /\ ~ flag[x] => w[x] = Frame(Payloads[x][wnext[x]])

\* While the connection lasts the last tag says which writer is in the middle of its
\* frame, and that writer holds the rest of it.
AtWriters(e) ==
  up => /\ \A x \in Writers : wnext[x] = e.m[x] + 1 /\ (MidFrame(x) <=> Mid(e) /\ x = e.x)
        /\ Mid(e) => /\ e.j = wnext[e.x] /\ Len(w[e.x]) = Full(e) - End(e)
                     /\ \A i \in 1 .. Len(w[e.x]) : w[e.x][i] = Bits(e)[End(e) + i]

\* y is what has been delivered when d counts the frames taken apart.
Delivered(y, d) ==
  /\ \A i \in 1 .. Len(y) : \E x \in Writers : IsPayloadOf(x, y[i])
  /\ \A x \in Writers : \A i \in 1 .. Len(y) : IsPayloadOf(x, y[i]) =>
       \E j \in DOMAIN Payloads[x] : /\ Payloads[x][j] = [cid |-> AttCid, b |-> y[i]]
                                     /\ AttCount(x, j) = CountOf(x, y, i)
  /\ \A x \in Writers : CountOf(x, y, Len(y)) = AttCount(x, d[x])

\* All of it together, and that it is so as long as no frames have been mixed.
Wire(Q, r, d) ==
  /\ OnAir(Q) /\ Chain(r, Q) /\ AtReceiver(r, d) /\ FreshFrames
  /\ AtWriters(Before(r, Q, Len(Q) + 1)) /\ Delivered(got \o dataCh, d)

WireInv ==
  ~ mixed => \E Q \in Seq(TagSet), d \in [Writers -> Nat] : \E r : Wire(Q, r, d)

\* The hypotheses: the far controller adds less than a header, which conn.loop cannot
\* tell from a frame; a length fits the two bytes of the header; payloads tell their
\* writers apart, so that it can be said whose a payload is.
ShortPadding == Padding \subseteq 0 .. HeaderLen - 1
LengthsFit == \A x \in Writers : \A j \in DOMAIN Payloads[x] : Fits(Len(Payloads[x][j].b))
Distinct ==
  \A x, z \in Writers : \A i \in DOMAIN Payloads[x], j \in DOMAIN Payloads[z] :
    Payloads[x][i] = Payloads[z][j] /\ Payloads[x][i].cid = AttCid => x = z
-----------------------------------------------------------------------------
(* Counting.                                                               *)

\* A count depends on the elements that are counted only.
LEMMA CountSame ==
  ASSUME NEW x, NEW s, NEW t, NEW n \in Nat, \A i \in 1 .. n : s[i] = t[i]
  PROVE  CountOf(x, s, n) = CountOf(x, t, n)
<1>1. {i \in 1 .. n : IsPayloadOf(x, s[i])} = {i \in 1 .. n : IsPayloadOf(x, t[i])}
  OBVIOUS
<1> QED
  BY <1>1 DEF CountOf

\* The members of an interval with a property: one more, or as many.
LEMMA IntervalStep ==
  ASSUME NEW n \in Nat, NEW A, A \subseteq 1 .. n + 1
  PROVE  LET B == A \cap (1 .. n)
         IN  /\ Cardinality(A) \in Nat /\ Cardinality(B) \in Nat
             /\ Cardinality(A) = IF n + 1 \in A THEN Cardinality(B) + 1 ELSE Cardinality(B)
<1> DEFINE B == A \cap (1 .. n)
<1>0. n + 1 \notin 1 .. n /\ \A i \in A : i \in 1 .. n \/ i = n + 1
  OBVIOUS
<1>1. IsFiniteSet(1 .. n + 1) /\ n + 1 \in Nat
  BY FS_Interval
<1>2. IsFiniteSet(A) /\ IsFiniteSet(B)
  BY <1>1, FS_Subset
<1>3. CASE n + 1 \in A
  <2>1. A = B \cup {n + 1} /\ n + 1 \notin B
    BY <1>0, <1>3
  <2>2. Cardinality(A) = Cardinality(B) + 1
    BY <1>2, <2>1, FS_AddElement
  <2> QED
    BY <1>2, <1>3, <2>2, FS_CardinalityType
<1>4. CASE n + 1 \notin A
  <2>1. A = B
    BY <1>0, <1>4
  <2> QED
    BY <1>2, <1>4, <2>1, FS_CardinalityType
<1> QED
  BY <1>3, <1>4

\* One payload more among those delivered.
LEMMA CountStep ==
  ASSUME NEW x, NEW s, NEW n \in Nat
  PROVE  /\ CountOf(x, s, n) \in Nat
         /\ CountOf(x, s, n + 1) = IF IsPayloadOf(x, s[n + 1]) THEN CountOf(x, s, n) + 1 ELSE CountOf(x, s, n)
<1> DEFINE A == {i \in 1 .. n + 1 : IsPayloadOf(x, s[i])}
<1>1. A \subseteq 1 .. n + 1 /\ (n + 1 \in A <=> IsPayloadOf(x, s[n + 1]))
  OBVIOUS
<1>2. A \cap (1 .. n) = {i \in 1 .. n : IsPayloadOf(x, s[i])}
  OBVIOUS
<1>3. CountOf(x, s, n + 1) = Cardinality(A) /\ CountOf(x, s, n) = Cardinality(A \cap (1 .. n))
  BY <1>2 DEF CountOf
<1> HIDE DEF A
<1>4. /\ Cardinality(A \cap (1 .. n)) \in Nat
      /\ Cardinality(A) = IF n + 1 \in A THEN Cardinality(A \cap (1 .. n)) + 1 ELSE Cardinality(A \cap (1 .. n))
  BY <1>1, IntervalStep
<1> QED
  BY <1>1, <1>3, <1>4

\* One payload more among those written.
LEMMA AttStep ==
  ASSUME NEW x, NEW n \in Nat
  PROVE  /\ AttCount(x, n) \in Nat
         /\ AttCount(x, n + 1) = IF Payloads[x][n + 1].cid = AttCid THEN AttCount(x, n) + 1 ELSE AttCount(x, n)
<1> DEFINE A == {i \in 1 .. n + 1 : Payloads[x][i].cid = AttCid}
<1>1. A \subseteq 1 .. n + 1 /\ (n + 1 \in A <=> Payloads[x][n + 1].cid = AttCid)
  OBVIOUS
<1>2. A \cap (1 .. n) = {i \in 1 .. n : Payloads[x][i].cid = AttCid}
  OBVIOUS
<1>3. AttCount(x, n + 1) = Cardinality(A) /\ AttCount(x, n) = Cardinality(A \cap (1 .. n))
  BY <1>2 DEF AttCount
<1> HIDE DEF A
<1>4. /\ Cardinality(A \cap (1 .. n)) \in Nat
      /\ Cardinality(A) = IF n + 1 \in A THEN Cardinality(A \cap (1 .. n)) + 1 ELSE Cardinality(A \cap (1 .. n))
  BY <1>1, IntervalStep
<1> QED
  BY <1>1, <1>3, <1>4

\* Payload j of x, the next one of x, has been parsed.
LEMMA DeliverNext ==
  ASSUME Distinct, NEW y \in Seq(Seq(Bytes)), NEW d \in [Writers -> Nat], Delivered(y, d),
         NEW x \in Writers, NEW j \in DOMAIN Payloads[x], j = d[x] + 1,
         NEW e \in [Writers -> Nat], e = [d EXCEPT ![x] = @ + 1]
  PROVE  /\ Payloads[x][j].cid = AttCid => Delivered(Append(y, Payloads[x][j].b), e)
         /\ Payloads[x][j].cid # AttCid => Delivered(y, e)
<1>1. Payloads[x][j] \in PayloadSet
  BY PayloadOf
<1>2. AttCount(x, j) = IF Payloads[x][j].cid = AttCid THEN AttCount(x, d[x]) + 1 ELSE AttCount(x, d[x])
  BY AttStep
<1>3. e[x] = j /\ \A z \in Writers : z # x => e[z] = d[z]
  OBVIOUS
<1>4. Len(y) \in Nat
  OBVIOUS
<1>5. ASSUME Payloads[x][j].cid = AttCid PROVE Delivered(Append(y, Payloads[x][j].b), e)
  <2>1. PICK b \in Seq(Bytes) : b = Payloads[x][j].b
    BY <1>1 DEF PayloadSet
  <2>2. PICK z : z = Append(y, b)
    OBVIOUS
  <2>3. /\ Len(z) = Len(y) + 1 /\ z[Len(y) + 1] = b
        /\ \A i \in 1 .. Len(y) : z[i] = y[i]
    BY <2>2
  <2>4. Payloads[x][j] = [cid |-> AttCid, b |-> b] /\ IsPayloadOf(x, b)
    BY <1>1, <1>5, <2>1 DEF PayloadSet, IsPayloadOf
  <2>5. \A u \in Writers : u # x => ~ IsPayloadOf(u, b)
    <3>1. ASSUME NEW u \in Writers, NEW i \in DOMAIN Payloads[u], Payloads[u][i] = [cid |-> AttCid, b |-> b]
          PROVE  u = x
      <4>1. Payloads[u][i] = Payloads[x][j]
        BY <2>4, <3>1
      <4>2. Payloads[u][i].cid = AttCid
        BY <1>5, <4>1
      <4> QED
        BY <4>1, <4>2 DEF Distinct
    <3> QED
      BY <3>1 DEF IsPayloadOf
  <2>6. \A u \in Writers : \A i \in 1 .. Len(y) : CountOf(u, z, i) = CountOf(u, y, i)
    <3>1. ASSUME NEW u \in Writers, NEW i \in 1 .. Len(y) PROVE CountOf(u, z, i) = CountOf(u, y, i)
      <4>0. i \in Nat /\ \A k \in 1 .. i : k \in 1 .. Len(y)
        BY <1>4
      <4>1. i \in Nat /\ \A k \in 1 .. i : z[k] = y[k]
        BY <2>3, <4>0
      <4> QED
        BY <4>1, CountSame
    <3> QED
      BY <3>1
  <2>7. \A u \in Writers : CountOf(u, z, Len(y)) = CountOf(u, y, Len(y))
    <3>1. ASSUME NEW u \in Writers PROVE CountOf(u, z, Len(y)) = CountOf(u, y, Len(y))
      <4>1. Len(y) \in Nat /\ \A k \in 1 .. Len(y) : z[k] = y[k]
        BY <1>4, <2>3
      <4> QED
        BY <4>1, CountSame
    <3> QED
      BY <3>1
  <2>8. \A u \in Writers : CountOf(u, z, Len(y) + 1) = IF u = x THEN CountOf(u, y, Len(y)) + 1
                                                                ELSE CountOf(u, y, Len(y))
    <3>1. ASSUME NEW u \in Writers
          PROVE  CountOf(u, z, Len(y) + 1) = IF u = x THEN CountOf(u, y, Len(y)) + 1 ELSE CountOf(u, y, Len(y))
      <4>1. CountOf(u, z, Len(y) + 1) = IF IsPayloadOf(u, z[Len(y) + 1]) THEN CountOf(u, z, Len(y)) + 1
                                                                         ELSE CountOf(u, z, Len(y))
        BY <1>4, CountStep
      <4> QED
        BY <2>3, <2>4, <2>5, <2>7, <4>1
    <3> QED
      BY <3>1
  <2>9. \A u \in Writers : CountOf(u, z, Len(z)) = AttCount(u, e[u])
    BY <1>2, <1>3, <1>5, <2>3, <2>8 DEF Delivered
  <2>10. \A i \in 1 .. Len(z) : \E u \in Writers : IsPayloadOf(u, z[i])
    <3>1. ASSUME NEW i \in 1 .. Len(z) PROVE \E u \in Writers : IsPayloadOf(u, z[i])
      <4>1. i \in 1 .. Len(y) \/ i = Len(y) + 1
        BY <1>4, <2>3
      <4> QED
        BY <2>3, <2>4, <4>1 DEF Delivered
    <3> QED
      BY <3>1
  <2>11. ASSUME NEW u \in Writers, NEW i \in 1 .. Len(z), IsPayloadOf(u, z[i])
         PROVE  \E k \in DOMAIN Payloads[u] : /\ Payloads[u][k] = [cid |-> AttCid, b |-> z[i]]
                                              /\ AttCount(u, k) = CountOf(u, z, i)
    <3>1. CASE i \in 1 .. Len(y)
      <4>1. z[i] = y[i] /\ IsPayloadOf(u, y[i]) /\ CountOf(u, z, i) = CountOf(u, y, i)
        BY <2>3, <2>6, <2>11, <3>1
      <4>2. PICK k \in DOMAIN Payloads[u] : /\ Payloads[u][k] = [cid |-> AttCid, b |-> y[i]]
                                            /\ AttCount(u, k) = CountOf(u, y, i)
        BY <3>1, <4>1 DEF Delivered
      <4> QED
        BY <4>1, <4>2
    <3>2. CASE i = Len(y) + 1
      <4>1. z[i] = b /\ u = x
        BY <2>3, <2>5, <2>11, <3>2
      <4>2. AttCount(x, j) = CountOf(x, z, i)
        BY <1>2, <1>5, <2>8, <3>2 DEF Delivered
      <4> QED
        BY <2>4, <4>1, <4>2
    <3> QED
      BY <1>4, <2>3, <3>1, <3>2
  <2>12. Delivered(z, e)
    BY <2>9, <2>10, <2>11 DEF Delivered
  <2> QED
    BY <2>1, <2>2, <2>12
<1>6. ASSUME Payloads[x][j].cid # AttCid PROVE Delivered(y, e)
  BY <1>2, <1>3, <1>6 DEF Delivered
<1> QED
  BY <1>5, <1>6

-----------------------------------------------------------------------------
\* The bytes of the frame that a tag names.
LEMMA TagBits ==
  ASSUME LengthsFit, NEW t, IsTag(t)
  PROVE  /\ Bits(t) \in Seq(Bytes) /\ Full(t) \in Nat /\ Full(t) >= HeaderLen /\ End(t) \in Nat \ {0}
         /\ HeaderLen + Bits(t)[1] + 256 * Bits(t)[2] = Full(t)
         /\ Bits(t)[3] = Payloads[t.x][t.j].cid /\ Bits(t)[4] = 0
         /\ Payloads[t.x][t.j] \in PayloadSet
         /\ Full(t) = HeaderLen + Len(Payloads[t.x][t.j].b)
         /\ \A i \in 1 .. Full(t) - HeaderLen : Bits(t)[HeaderLen + i] = Payloads[t.x][t.j].b[i]
<1>1. t.x \in Writers /\ t.j \in DOMAIN Payloads[t.x]
  BY DEF IsTag
<1>2. PICK p \in PayloadSet : p = Payloads[t.x][t.j]
  BY <1>1, PayloadOf
<1>3. PICK l \in Nat : l = Len(p.b)
  BY DEF PayloadSet
<1>4. Fits(l)
  BY <1>1, <1>2, <1>3 DEF LengthsFit
<1>5. PICK F \in Seq(Bytes) :
        /\ F = Frame(p) /\ Len(F) = 4 + l /\ F[1] \in Nat /\ F[2] \in Nat
        /\ F[1] + 256 * F[2] = l /\ F[3] = p.cid /\ F[4] = 0
        /\ \A i \in 1 .. l : F[4 + i] = p.b[i]
  <2>1. /\ Frame(p) \in Seq(Bytes) /\ Len(Frame(p)) = 4 + l
        /\ Frame(p)[1] \in Nat /\ Frame(p)[2] \in Nat
        /\ Fits(l) => Frame(p)[1] + 256 * Frame(p)[2] = l
        /\ Frame(p)[3] = p.cid /\ Frame(p)[4] = 0
        /\ \A i \in 1 .. l : Frame(p)[4 + i] = p.b[i]
    BY <1>3, FrameBytes
  <2> QED
    BY <1>4, <2>1, Zenon
<1>6. Bits(t) = F /\ Full(t) = 4 + l
  BY <1>2, <1>5 DEF Bits, Full
<1>7. HeaderLen + Bits(t)[1] + 256 * Bits(t)[2] = Full(t)
  <2>1. ASSUME NEW f \in Nat, NEW g \in Nat, f + 256 * g = l PROVE 4 + f + 256 * g = 4 + l
    BY <2>1
  <2>2. F[1] \in Nat /\ F[2] \in Nat /\ F[1] + 256 * F[2] = l
    BY <1>5, Zenon
  <2>3. 4 + F[1] + 256 * F[2] = 4 + l
    BY <2>1, <2>2
  <2> QED
    BY <1>6, <2>3 DEF HeaderLen
<1>8. End(t) \in Nat \ {0}
  BY DEF IsTag, End
<1>9. Full(t) \in Nat /\ Full(t) >= HeaderLen /\ Full(t) - HeaderLen = l /\ Full(t) = HeaderLen + l
  BY <1>6 DEF HeaderLen
<1>10. \A i \in 1 .. Full(t) - HeaderLen : Bits(t)[HeaderLen + i] = p.b[i]
  BY <1>5, <1>6, <1>9 DEF HeaderLen
<1>11. Bits(t) \in Seq(Bytes) /\ Bits(t)[3] = p.cid /\ Bits(t)[4] = 0
  BY <1>5, <1>6
<1>12. Payloads[t.x][t.j] = p /\ Len(Payloads[t.x][t.j].b) = l
  BY <1>2, <1>3
<1> QED
  BY <1>7, <1>8, <1>9, <1>10, <1>11, <1>12

\* The tag before any place of the chain.
LEMMA TagBefore ==
  ASSUME NEW Q \in Seq(TagSet), NEW r, NEW d, Chain(r, Q), AtReceiver(r, d), NEW k \in 1 .. Len(Q) + 1
  PROVE  Before(r, Q, k).m \in [Writers -> Nat] /\ (Mid(Before(r, Q, k)) => IsTag(Before(r, Q, k)))
<1>1. CASE k = 1
  <2>1. Before(r, Q, k) = r
    BY <1>1 DEF Before
  <2>2. Mid(r) => r.n # 0
    BY DEF Mid, End, AtReceiver
  <2> QED
    BY <2>1, <2>2 DEF AtReceiver
<1>2. CASE k # 1
  <2>1. k - 1 \in 1 .. Len(Q) /\ Before(r, Q, k) = Q[k - 1]
    BY <1>2 DEF Before
  <2>2. IsTag(Q[k - 1])
    BY <2>1 DEF Chain
  <2> QED
    BY <2>1, <2>2 DEF IsTag
<1> QED
  BY <1>1, <1>2

-----------------------------------------------------------------------------
(* The steps.                                                              *)

\* A packet that leaves its writer continues the chain: no other writer is in the
\* middle of a frame.
LEMMA SendWire ==
  ASSUME TypeOK, LengthsFit, NEW Q \in Seq(TagSet), NEW r, NEW d \in [Writers -> Nat], Wire(Q, r, d),
         NEW x \in Writers, SendFragment(x), ~ mixed'
  PROVE  \E P \in Seq(TagSet) : Wire(P, r, d)'
<1>1. /\ OnAir(Q) /\ Chain(r, Q) /\ AtReceiver(r, d) /\ FreshFrames
      /\ AtWriters(Before(r, Q, Len(Q) + 1)) /\ Delivered(got \o dataCh, d)
  BY DEF Wire
<1>2. PICK n \in Nat : n = Min2(Len(w[x]), BufSize) /\ n \in 1 .. Len(w[x])
  <2>1. w[x] \in Seq(Bytes) /\ w[x] # <<>>
    BY DEF TypeOK, SendFragment
  <2>2. Len(w[x]) \in Nat \ {0}
    BY <2>1
  <2> QED
    BY <2>2, Constants DEF Min2
<1>3. /\ ctrl' = IF up THEN Append(ctrl, [start |-> ~ flag[x], b |-> Take(w[x], n)]) ELSE ctrl
      /\ w' = [w EXCEPT ![x] = Drop(w[x], n)]
      /\ flag' = [flag EXCEPT ![x] = TRUE]
      /\ wpc' = [wpc EXCEPT ![x] = IF n = Len(w[x]) THEN "idle" ELSE "credit"]
      /\ wnext' = [wnext EXCEPT ![x] = IF n = Len(w[x]) THEN wnext[x] + 1 ELSE wnext[x]]
      /\ \A y \in Writers \ {x} : ~ MidFrame(y)
      /\ wpc[x] = "send"
      /\ UNCHANGED <<rpc, buf, aclCh, dataCh, got, up>>
  BY <1>2 DEF SendFragment, rx
<1>4. AtReceiver(r, d)' /\ Delivered(got \o dataCh, d)'
  BY <1>1, <1>3 DEF AtReceiver, Delivered
<1>5. FreshFrames'
  BY <1>1, <1>3 DEF FreshFrames, TypeOK
<1>6. CASE ~ up
  <2>1. OnAir(Q)'
    BY <1>1, <1>3, <1>6 DEF OnAir
  <2>2. AtWriters(Before(r, Q, Len(Q) + 1))'
    BY <1>3, <1>6 DEF AtWriters
  <2> QED
    BY <1>1, <1>4, <1>5, <2>1, <2>2 DEF Wire
<1>7. CASE up
  <2>1. PICK e : e = Before(r, Q, Len(Q) + 1)
    OBVIOUS
  <2>2. e.m \in [Writers -> Nat] /\ (Mid(e) => IsTag(e))
    <3>1. Len(Q) + 1 \in 1 .. Len(Q) + 1
      OBVIOUS
    <3> QED
      BY <1>1, <2>1, <3>1, TagBefore
  <2>3. AtWriters(e)
    BY <1>1, <2>1
  <2>4. wnext[x] = e.m[x] + 1 /\ (flag[x] <=> Mid(e)) /\ (Mid(e) => e.x = x)
    <3>1. MidFrame(x) <=> flag[x]
      BY <1>3 DEF MidFrame
    <3>2. \A y \in Writers : wnext[y] = e.m[y] + 1 /\ (MidFrame(y) <=> Mid(e) /\ y = e.x)
      BY <1>7, <2>3 DEF AtWriters
    <3>3. Mid(e) => e.x \in Writers
      BY <2>2 DEF IsTag
    <3> QED
      BY <1>3, <3>1, <3>2, <3>3
  <2>5. wnext[x] \in DOMAIN Payloads[x] /\ w[x] \in Seq(Bytes) /\ Len(w[x]) \in Nat /\ wnext[x] \in Nat
    BY <1>3 DEF TypeOK
  <2>6. PICK F \in Seq(Bytes) : F = Frame(Payloads[x][wnext[x]])
    <3>1. Payloads[x][wnext[x]] \in PayloadSet
      BY <2>5, PayloadOf
    <3>2. PICK p \in PayloadSet, l \in Nat : p = Payloads[x][wnext[x]] /\ l = Len(p.b)
      BY <3>1 DEF PayloadSet
    <3>3. Frame(p) \in Seq(Bytes)
      BY <3>2, FrameBytes
    <3> QED
      BY <3>2, <3>3
  <2>7. PICK o \in Nat : /\ o = (IF Mid(e) THEN End(e) ELSE 0) /\ Len(w[x]) = Len(F) - o
                         /\ \A i \in 1 .. Len(w[x]) : w[x][i] = F[o + i]
    <3>1. CASE Mid(e)
      <4>1. e.x = x /\ e.j = wnext[x] /\ Len(w[x]) = Full(e) - End(e)
              /\ \A i \in 1 .. Len(w[x]) : w[x][i] = Bits(e)[End(e) + i]
        BY <1>7, <2>3, <2>4, <3>1 DEF AtWriters
      <4>2. Bits(e) = F /\ Full(e) = Len(F)
        BY <2>6, <4>1 DEF Bits, Full
      <4>3. End(e) \in Nat
        BY <2>2, <3>1, TagBits
      <4> QED
        BY <3>1, <4>1, <4>2, <4>3
    <3>2. CASE ~ Mid(e)
      <4>1. w[x] = F
        BY <1>1, <1>3, <2>4, <2>6, <3>2 DEF FreshFrames
      <4> QED
        BY <3>2, <4>1
    <3> QED
      BY <3>1, <3>2
  <2>8. PICK t \in TagSet : /\ t.x = x /\ t.j = wnext[x] /\ t.o = o /\ t.n = n
                            /\ t.m = IF n = Len(w[x]) THEN [e.m EXCEPT ![x] = @ + 1] ELSE e.m
    <3> DEFINE m == IF n = Len(w[x]) THEN [e.m EXCEPT ![x] = @ + 1] ELSE e.m
    <3>1. m \in [Writers -> Nat]
      BY <2>2
    <3> HIDE DEF m
    <3>2. [x |-> x, j |-> wnext[x], o |-> o, n |-> n, m |-> m] \in TagSet
      BY <2>5, <3>1 DEF TagSet
    <3> QED
      BY <3>2 DEF m
  <2>9. Bits(t) = F /\ Full(t) = Len(F) /\ End(t) = o + n /\ Len(F) \in Nat
    BY <2>6, <2>8 DEF Bits, Full, End
  <2>10. o + n <= Len(F) /\ (o + n = Len(F) <=> n = Len(w[x])) /\ (Mid(t) <=> n # Len(w[x]))
    BY <1>2, <2>5, <2>7, <2>9 DEF Mid
  <2>11. IsTag(t)
    <3>1. t.m \in [Writers -> Nat]
      BY <2>2, <2>8
    <3> QED
      BY <1>2, <2>5, <2>8, <2>9, <2>10, <3>1 DEF IsTag
  <2>12. After(e, t)
    <3>1. Counted(e.m, t)
      BY <2>4, <2>8, <2>9, <2>10 DEF Counted
    <3>2. IF Mid(e) THEN t.x = e.x /\ t.j = e.j /\ t.o = End(e) ELSE t.o = 0
      BY <1>7, <2>3, <2>4, <2>7, <2>8 DEF AtWriters
    <3> QED
      BY <3>1, <3>2 DEF After
  <2>13. PICK P \in Seq(TagSet) : /\ Len(P) = Len(Q) + 1 /\ P[Len(Q) + 1] = t
                                  /\ \A k \in 1 .. Len(Q) : P[k] = Q[k]
    <3>1. Append(Q, t) \in Seq(TagSet) /\ Len(Append(Q, t)) = Len(Q) + 1 /\ Append(Q, t)[Len(Q) + 1] = t
            /\ \A k \in 1 .. Len(Q) : Append(Q, t)[k] = Q[k]
      OBVIOUS
    <3> QED
      BY <3>1
  <2>14. Chain(r, P)
    <3>1. SUFFICES ASSUME NEW k \in 1 .. Len(P) PROVE IsTag(P[k]) /\ After(Before(r, P, k), P[k])
      BY DEF Chain
    <3>2. Len(Q) \in Nat
      OBVIOUS
    <3>3. CASE k \in 1 .. Len(Q)
      <4>1. P[k] = Q[k] /\ Before(r, P, k) = Before(r, Q, k)
        <5>1. k = 1 \/ k - 1 \in 1 .. Len(Q)
          BY <3>2, <3>3
        <5> QED
          BY <2>13, <3>3, <5>1 DEF Before
      <4> QED
        BY <1>1, <3>3, <4>1 DEF Chain
    <3>4. CASE k = Len(Q) + 1
      <4>1. Before(r, P, k) = Before(r, Q, k)
        <5>1. k = 1 \/ k - 1 \in 1 .. Len(Q)
          BY <3>2, <3>4
        <5> QED
          BY <2>13, <5>1 DEF Before
      <4> QED
        BY <2>1, <2>11, <2>12, <2>13, <3>4, <4>1
    <3> QED
      BY <2>13, <3>2, <3>3, <3>4
  <2>15. OnAir(P)'
    <3>1. PICK a \in Frags : /\ a.start = ~ flag[x] /\ a.b = Take(w[x], n) /\ ctrl' = Append(ctrl, a)
      <4>1. Take(w[x], n) \in Seq(Bytes)
        BY <1>2, <2>5, CutBytes
      <4>2. [start |-> ~ flag[x], b |-> Take(w[x], n)] \in Frags
        BY <4>1 DEF Frags, TypeOK
      <4> QED
        BY <1>3, <1>7, <4>2
    <3>2. Len(a.b) = n /\ \A i \in 1 .. n : a.b[i] = F[o + i]
      <4>1. n \in 0 .. Len(w[x])
        BY <1>2
      <4>2. Len(a.b) = n /\ \A i \in 1 .. n : a.b[i] = w[x][i]
        <5>1. Len(Take(w[x], n)) = n /\ \A i \in 1 .. n : Take(w[x], n)[i] = w[x][i]
          BY <2>5, <4>1, CutBytes
        <5> QED
          BY <3>1, <5>1
      <4>3. \A i \in 1 .. n : i \in 1 .. Len(w[x])
        BY <1>2
      <4>4. \A i \in 1 .. n : w[x][i] = F[o + i]
        BY <2>7, <4>3, Zenon
      <4> QED
        BY <4>2, <4>4, Zenon
    <3>3. a.start = (o = 0)
      <4>1. Mid(e) => o # 0
        BY <2>7 DEF Mid
      <4>2. flag[x] \in BOOLEAN
        BY DEF TypeOK
      <4> QED
        BY <2>4, <2>7, <3>1, <4>1, <4>2
    <3>4. Carries(a, t) /\ Len(a.b) = t.n
      BY <1>2, <2>8, <2>9, <3>2, <3>3 DEF Carries
    <3>5. ctrl \in Seq(Frags) /\ Len(ctrl) \in Nat /\ Len(aclCh) \in Nat /\ aclCh' = aclCh
      <4>1. ctrl \in Seq(Frags) /\ aclCh \in Seq(Frags)
        BY DEF TypeOK
      <4> QED
        BY <1>3, <4>1
    <3>6. Len(ctrl') = Len(ctrl) + 1 /\ ctrl'[Len(ctrl) + 1] = a /\ \A k \in 1 .. Len(ctrl) : ctrl'[k] = ctrl[k]
      BY <3>1, <3>5
    <3>7. Len(Q) = Len(aclCh) + Len(ctrl)
      BY <1>1 DEF OnAir
    <3>8. Len(P) = Len(aclCh') + Len(ctrl')
      BY <2>13, <3>5, <3>6, <3>7
    <3>9. \A k \in 1 .. Len(aclCh') : Carries(aclCh'[k], P[k]) /\ Padded(aclCh'[k], P[k])
      <4>1. \A k \in 1 .. Len(aclCh) : P[k] = Q[k]
        <5>1. \A k \in 1 .. Len(aclCh) : k \in 1 .. Len(Q)
          BY <3>5, <3>7
        <5> QED
          BY <2>13, <5>1
      <4> QED
        BY <1>1, <3>5, <4>1 DEF OnAir
    <3>10. ASSUME NEW k \in 1 .. Len(ctrl')
           PROVE  Carries(ctrl'[k], P[Len(aclCh') + k]) /\ Len(ctrl'[k].b) = P[Len(aclCh') + k].n
      <4>1. CASE k \in 1 .. Len(ctrl)
        <5>0. Len(aclCh) + k \in 1 .. Len(Q)
          BY <3>5, <3>7, <4>1
        <5>1. P[Len(aclCh) + k] = Q[Len(aclCh) + k]
          BY <2>13, <5>0
        <5> QED
          BY <1>1, <3>5, <3>6, <4>1, <5>1 DEF OnAir
      <4>2. CASE k = Len(ctrl) + 1
        <5>1. Len(aclCh) + k = Len(Q) + 1
          BY <3>5, <3>7, <4>2
        <5> QED
          BY <2>13, <3>4, <3>5, <3>6, <4>2, <5>1
      <4> QED
        BY <3>5, <3>6, <4>1, <4>2
    <3> QED
      BY <3>8, <3>9, <3>10 DEF OnAir
  <2>16. Before(r, P, Len(P) + 1) = t
    <3>1. Len(Q) \in Nat
      OBVIOUS
    <3> QED
      BY <2>13, <3>1 DEF Before
  <2>17. \A y \in Writers : wnext'[y] = t.m[y] + 1
    <3>1. ASSUME NEW y \in Writers PROVE wnext[y] = e.m[y] + 1
      BY <1>7, <2>3 DEF AtWriters
    <3> QED
      BY <1>3, <2>2, <2>5, <2>8, <3>1 DEF TypeOK
  <2>18. ASSUME NEW y \in Writers PROVE MidFrame(y)' <=> Mid(t) /\ y = t.x
    <3>1. CASE y = x
      <4>1. wpc'[x] = (IF n = Len(w[x]) THEN "idle" ELSE "credit") /\ flag'[x] = TRUE
        BY <1>3 DEF TypeOK
      <4> QED
        BY <2>8, <2>10, <3>1, <4>1 DEF MidFrame
    <3>2. CASE y # x
      <4>1. wpc'[y] = wpc[y] /\ flag'[y] = flag[y]
        BY <1>3, <3>2 DEF TypeOK
      <4> QED
        BY <1>3, <2>8, <3>2, <4>1 DEF MidFrame
    <3> QED
      BY <3>1, <3>2
  <2>19. ASSUME Mid(t)
         PROVE  /\ t.j = wnext'[t.x] /\ Len(w'[t.x]) = Full(t) - End(t)
                /\ \A i \in 1 .. Len(w'[t.x]) : w'[t.x][i] = Bits(t)[End(t) + i]
    <3>1. w'[x] = Drop(w[x], n) /\ wnext'[x] = wnext[x]
      BY <1>3, <2>10, <2>19 DEF TypeOK
    <3>2. n \in 0 .. Len(w[x])
      BY <1>2
    <3>3. Len(w'[x]) = Len(w[x]) - n /\ \A i \in 1 .. Len(w[x]) - n : w'[x][i] = w[x][n + i]
      <4>1. Len(Drop(w[x], n)) = Len(w[x]) - n /\ \A i \in 1 .. Len(w[x]) - n : Drop(w[x], n)[i] = w[x][n + i]
        BY <2>5, <3>2, CutBytes
      <4> QED
        BY <3>1, <4>1
    <3>4. Len(w'[x]) = Full(t) - End(t)
      BY <2>5, <2>7, <2>9, <3>2, <3>3
    <3>5. ASSUME NEW i \in 1 .. Len(w'[x]) PROVE w'[x][i] = Bits(t)[End(t) + i]
      <4>1. i \in 1 .. Len(w[x]) - n /\ n + i \in 1 .. Len(w[x]) /\ o + (n + i) = o + n + i
        BY <2>5, <3>2, <3>3
      <4>2. w'[x][i] = F[o + (n + i)]
        BY <2>7, <3>3, <4>1
      <4> QED
        BY <2>9, <4>1, <4>2
    <3> QED
      BY <2>8, <3>1, <3>4, <3>5
  <2>20. AtWriters(Before(r, P, Len(P) + 1))'
    BY <2>16, <2>17, <2>18, <2>19 DEF AtWriters
  <2> QED
    BY <1>4, <1>5, <2>14, <2>15, <2>20 DEF Wire
<1> QED
  BY <1>6, <1>7

\* A packet that crosses the link keeps its tag; what the far controller adds to it
\* comes after a whole frame.
LEMMA TransmitWire ==
  ASSUME TypeOK, LengthsFit, ShortPadding,
         NEW Q \in Seq(TagSet), NEW r, NEW d \in [Writers -> Nat], Wire(Q, r, d),
         NEW n \in Padding, Transmit(n)
  PROVE  Wire(Q, r, d)'
<1>1. /\ OnAir(Q) /\ Chain(r, Q) /\ AtReceiver(r, d) /\ FreshFrames
      /\ AtWriters(Before(r, Q, Len(Q) + 1)) /\ Delivered(got \o dataCh, d)
  BY DEF Wire
<1>2. /\ UNCHANGED <<wpc, wnext, w, flag, rpc, buf, dataCh, got, up>>
      /\ ctrl # <<>> /\ ctrl' = Tail(ctrl)
      /\ aclCh' = Append(aclCh, [Head(ctrl) EXCEPT !.b = @ \o Zeros(n)])
      /\ n > 0 => Whole(Head(ctrl))
  BY DEF Transmit, writers, rx
<1>3. AtReceiver(r, d)' /\ Delivered(got \o dataCh, d)' /\ FreshFrames'
  <2>1. AtReceiver(r, d)'
    BY <1>1, <1>2 DEF AtReceiver
  <2>2. Delivered(got \o dataCh, d)'
    BY <1>1, <1>2 DEF Delivered
  <2>3. FreshFrames'
    BY <1>1, <1>2 DEF FreshFrames
  <2> QED
    BY <2>1, <2>2, <2>3
<1>4. AtWriters(Before(r, Q, Len(Q) + 1))'
  BY <1>1, <1>2 DEF AtWriters, MidFrame
<1>5. OnAir(Q)'
  <2>1. ctrl \in Seq(Frags) /\ Len(ctrl) \in Nat \ {0} /\ Len(aclCh) \in Nat /\ aclCh \in Seq(Frags)
    BY <1>2 DEF TypeOK
  <2>2. Len(ctrl') = Len(ctrl) - 1 /\ \A k \in 1 .. Len(ctrl) - 1 : ctrl'[k] = ctrl[k + 1]
    BY <1>2, <2>1
  <2>3. PICK a \in Frags : a = Head(ctrl) /\ a = ctrl[1]
    BY <2>1
  <2>4. n \in Nat /\ n < 4
    BY DEF ShortPadding, HeaderLen
  <2>5. a.b \in Seq(Bytes) /\ Len(a.b) \in Nat
    BY DEF Frags
  <2>6. PICK z \in Seq(Bytes) : z = Zeros(n) /\ Len(z) = n
    <3>1. 0 \in Bytes
      BY ByteNumber
    <3>2. Zeros(n) \in [1 .. n -> Bytes]
      BY <3>1 DEF Zeros
    <3>3. Zeros(n) \in Seq(Bytes) /\ Len(Zeros(n)) = n
      BY <2>4, <3>2
    <3> QED
      BY <3>3
  <2>7. PICK c \in Frags : c.start = a.start /\ c.b = a.b \o z /\ aclCh' = Append(aclCh, c)
    <3>1. a.b \o z \in Seq(Bytes)
      BY <2>5
    <3>2. [a EXCEPT !.b = @ \o z] \in Frags
      BY <3>1 DEF Frags
    <3>3. [a EXCEPT !.b = @ \o z].start = a.start /\ [a EXCEPT !.b = @ \o z].b = a.b \o z
      BY DEF Frags
    <3> QED
      BY <1>2, <2>3, <2>6, <3>2, <3>3
  <2>8. Len(c.b) = Len(a.b) + n /\ \A i \in 1 .. Len(a.b) : c.b[i] = a.b[i]
    <3>1. Len(a.b \o z) = Len(a.b) + Len(z) /\ \A i \in 1 .. Len(a.b) : (a.b \o z)[i] = a.b[i]
      BY <2>5, Concat
    <3> QED
      BY <2>6, <2>7, <3>1
  <2>9. Len(Q) = Len(aclCh) + Len(ctrl)
    BY <1>1 DEF OnAir
  <2>10. PICK t \in TagSet : t = Q[Len(aclCh) + 1] /\ IsTag(t)
    <3>1. Len(aclCh) + 1 \in 1 .. Len(Q)
      BY <2>1, <2>9
    <3> QED
      BY <1>1, <3>1 DEF Chain
  <2>11. Carries(a, t) /\ Len(a.b) = t.n
    <3>1. 1 \in 1 .. Len(ctrl)
      BY <2>1
    <3> QED
      BY <1>1, <2>3, <2>10, <3>1 DEF OnAir
  <2>12. Carries(c, t)
    <3>1. t.n \in Nat
      BY <2>10 DEF IsTag
    <3> QED
      BY <2>4, <2>7, <2>8, <2>11, <3>1 DEF Carries
  <2>13. Padded(c, t)
    <3>1. CASE n = 0
      BY <2>5, <2>8, <2>11, <3>1 DEF Padded
    <3>2. CASE n # 0
      <4>1. a.start /\ Len(a.b) >= 4 /\ Len(a.b) = 4 + a.b[1] + 256 * a.b[2]
        BY <1>2, <2>3, <2>4, <3>2 DEF Whole, HeaderLen
      <4>2. t.o = 0
        BY <2>11, <4>1 DEF Carries
      <4>3. a.b[1] = Bits(t)[1] /\ a.b[2] = Bits(t)[2]
        <5>1. 1 \in 1 .. t.n /\ 2 \in 1 .. t.n
          BY <2>5, <2>11, <4>1
        <5>2. \A i \in 1 .. t.n : a.b[i] = Bits(t)[0 + i]
          BY <2>11, <4>2 DEF Carries
        <5>3. a.b[1] = Bits(t)[0 + 1] /\ a.b[2] = Bits(t)[0 + 2]
          BY <5>1, <5>2
        <5> QED
          BY <5>3
      <4>4. HeaderLen + Bits(t)[1] + 256 * Bits(t)[2] = Full(t)
        BY <2>10, TagBits
      <4>5. t.n = Full(t)
        BY <2>11, <4>1, <4>3, <4>4 DEF HeaderLen
      <4> QED
        BY <2>4, <2>5, <2>8, <2>11, <4>5 DEF Padded, HeaderLen
    <3> QED
      BY <3>1, <3>2
  <2>14. /\ Len(aclCh') = Len(aclCh) + 1 /\ aclCh'[Len(aclCh) + 1] = c
         /\ \A k \in 1 .. Len(aclCh) : aclCh'[k] = aclCh[k]
    BY <2>1, <2>7
  <2>15. Len(Q) = Len(aclCh') + Len(ctrl')
    BY <2>1, <2>2, <2>9, <2>14
  <2>16. ASSUME NEW k \in 1 .. Len(aclCh')
         PROVE  Carries(aclCh'[k], Q[k]) /\ Padded(aclCh'[k], Q[k])
    <3>1. CASE k \in 1 .. Len(aclCh)
      BY <1>1, <2>14, <3>1 DEF OnAir
    <3>2. CASE k = Len(aclCh) + 1
      BY <2>10, <2>12, <2>13, <2>14, <3>2
    <3> QED
      BY <2>1, <2>14, <3>1, <3>2
  <2>17. ASSUME NEW k \in 1 .. Len(ctrl')
         PROVE  Carries(ctrl'[k], Q[Len(aclCh') + k]) /\ Len(ctrl'[k].b) = Q[Len(aclCh') + k].n
    <3>1. k \in 1 .. Len(ctrl) - 1 /\ k + 1 \in 1 .. Len(ctrl) /\ Len(aclCh') + k = Len(aclCh) + (k + 1)
      BY <2>1, <2>2, <2>14
    <3>2. ctrl'[k] = ctrl[k + 1]
      BY <2>2, <3>1
    <3>3. Carries(ctrl[k + 1], Q[Len(aclCh) + (k + 1)]) /\ Len(ctrl[k + 1].b) = Q[Len(aclCh) + (k + 1)].n
      BY <1>1, <3>1 DEF OnAir
    <3> QED
      BY <3>1, <3>2, <3>3
  <2> QED
    BY <2>15, <2>16, <2>17 DEF OnAir
<1> QED
  BY <1>1, <1>3, <1>4, <1>5 DEF Wire

\* The loss of the connection cuts the chain behind what has been received.
LEMMA DisconnectWire ==
  ASSUME TypeOK, NEW Q \in Seq(TagSet), NEW r, NEW d \in [Writers -> Nat], Wire(Q, r, d), Disconnect
  PROVE  \E P \in Seq(TagSet) : Wire(P, r, d)'
<1>1. /\ OnAir(Q) /\ Chain(r, Q) /\ AtReceiver(r, d) /\ FreshFrames /\ Delivered(got \o dataCh, d)
  BY DEF Wire
<1>2. /\ UNCHANGED <<wpc, wnext, w, flag, rpc, buf, dataCh, got, aclCh>>
      /\ up' = FALSE /\ ctrl' = <<>>
  BY DEF Disconnect, writers, rx
<1>3. AtReceiver(r, d)' /\ Delivered(got \o dataCh, d)' /\ FreshFrames'
  <2>1. AtReceiver(r, d)'
    BY <1>1, <1>2 DEF AtReceiver
  <2>2. Delivered(got \o dataCh, d)'
    BY <1>1, <1>2 DEF Delivered
  <2>3. FreshFrames'
    BY <1>1, <1>2 DEF FreshFrames
  <2> QED
    BY <2>1, <2>2, <2>3
<1>4. Len(Q) = Len(aclCh) + Len(ctrl) /\ Len(aclCh) \in Nat /\ Len(ctrl) \in Nat
  BY <1>1 DEF OnAir, TypeOK
<1>5. PICK P \in Seq(TagSet) : Len(P) = Len(aclCh) /\ \A k \in 1 .. Len(aclCh) : P[k] = Q[k]
  <2>1. Len(aclCh) \in 0 .. Len(Q)
    BY <1>4
  <2>2. Take(Q, Len(aclCh)) \in Seq(TagSet) /\ Len(Take(Q, Len(aclCh))) = Len(aclCh)
          /\ \A k \in 1 .. Len(aclCh) : Take(Q, Len(aclCh))[k] = Q[k]
    BY <2>1, Cut
  <2> QED
    BY <2>2
<1>6. OnAir(P)'
  <2>1. Len(ctrl') = 0 /\ aclCh' = aclCh
    BY <1>2
  <2> QED
    BY <1>1, <1>4, <1>5, <2>1 DEF OnAir
<1>7. Chain(r, P)
  <2>1. SUFFICES ASSUME NEW k \in 1 .. Len(P) PROVE IsTag(P[k]) /\ After(Before(r, P, k), P[k])
    BY DEF Chain
  <2>2. k \in 1 .. Len(Q) /\ (k = 1 \/ k - 1 \in 1 .. Len(aclCh))
    BY <1>4, <1>5
  <2>3. P[k] = Q[k] /\ Before(r, P, k) = Before(r, Q, k)
    BY <1>5, <2>2 DEF Before
  <2> QED
    BY <1>1, <2>2, <2>3 DEF Chain
<1>8. AtWriters(Before(r, P, Len(P) + 1))'
  BY <1>2 DEF AtWriters
<1> QED
  BY <1>3, <1>6, <1>7, <1>8 DEF Wire

\* A complete frame is at the head of the buffer when the receiver has all of it.
LEMMA CompleteFrame ==
  ASSUME TypeOK, LengthsFit, NEW r, NEW d, AtReceiver(r, d)
  PROVE  /\ Complete => r.n # 0 /\ r.n = Full(r) /\ PduLen = Full(r)
         /\ r.n # 0 /\ r.n = Full(r) => Complete
<1>1. buf \in Seq(Bytes) /\ Len(buf) \in Nat /\ r.n \in Nat
  BY DEF TypeOK, AtReceiver
<1>2. CASE r.n = 0
  BY <1>1, <1>2 DEF AtReceiver, Complete, HeaderLen
<1>3. CASE r.n # 0
  <2>1. IsTag(r) /\ Len(buf) >= r.n /\ (\A i \in 1 .. r.n : buf[i] = Bits(r)[i])
          /\ (r.n # Full(r) => Len(buf) = r.n) /\ r.o = 0
    BY <1>3 DEF AtReceiver
  <2>2. Full(r) \in Nat /\ Full(r) >= 4 /\ 4 + Bits(r)[1] + 256 * Bits(r)[2] = Full(r)
    BY <2>1, TagBits DEF HeaderLen
  <2>3. r.n <= Full(r)
    BY <1>1, <2>1, <2>2 DEF IsTag, End
  <2>4. r.n >= 4 => PduLen = Full(r)
    <3>1. r.n >= 4 => 1 \in 1 .. r.n /\ 2 \in 1 .. r.n
      BY <1>1
    <3>2. r.n >= 4 => buf[1] = Bits(r)[1] /\ buf[2] = Bits(r)[2]
      BY <2>1, <3>1
    <3> QED
      BY <2>2, <3>2 DEF PduLen, HeaderLen
  <2>5. CASE r.n = Full(r)
    BY <1>1, <1>3, <2>1, <2>2, <2>4, <2>5 DEF Complete, HeaderLen
  <2>6. CASE r.n # Full(r)
    <3>1. Len(buf) = r.n /\ r.n < Full(r)
      BY <1>1, <2>1, <2>2, <2>3, <2>6
    <3>2. CASE r.n >= 4
      BY <1>1, <2>2, <2>4, <2>6, <3>1, <3>2 DEF Complete, HeaderLen
    <3>3. CASE ~ (r.n >= 4)
      BY <1>1, <2>6, <3>1, <3>3 DEF Complete, HeaderLen
    <3> QED
      BY <3>2, <3>3
  <2> QED
    BY <2>5, <2>6
<1> QED
  BY <1>2, <1>3

\* A packet that conn.loop takes starts its buffer anew or continues the frame in it.
LEMMA ReceiveWire ==
  ASSUME TypeOK, LengthsFit, NEW Q \in Seq(TagSet), NEW r, NEW d \in [Writers -> Nat], Wire(Q, r, d), Receive
  PROVE  \E P \in Seq(TagSet) : \E s : Wire(P, s, d)'
<1>1. /\ OnAir(Q) /\ Chain(r, Q) /\ AtReceiver(r, d) /\ FreshFrames
      /\ AtWriters(Before(r, Q, Len(Q) + 1)) /\ Delivered(got \o dataCh, d)
  BY DEF Wire
<1>2. /\ UNCHANGED <<wpc, wnext, w, flag, ctrl, dataCh, got, up>>
      /\ rpc = "recv" /\ aclCh # <<>> /\ aclCh' = Tail(aclCh)
  BY DEF Receive, writers
<1>3. Delivered(got \o dataCh, d)' /\ FreshFrames'
  BY <1>1, <1>2 DEF Delivered, FreshFrames
<1>4. Len(Q) = Len(aclCh) + Len(ctrl) /\ Len(aclCh) \in Nat \ {0} /\ Len(ctrl) \in Nat /\ aclCh \in Seq(Frags)
        /\ buf \in Seq(Bytes)
  BY <1>1, <1>2 DEF OnAir, TypeOK
<1>5. PICK a \in Frags : a = Head(aclCh) /\ a = aclCh[1]
  BY <1>4
<1>6. PICK t \in TagSet : t = Q[1] /\ IsTag(t) /\ After(r, t) /\ Carries(a, t) /\ Padded(a, t)
  <2>1. 1 \in 1 .. Len(Q) /\ 1 \in 1 .. Len(aclCh)
    BY <1>4
  <2>2. Before(r, Q, 1) = r
    BY DEF Before
  <2>3. IsTag(Q[1]) /\ After(r, Q[1])
    BY <1>1, <2>1, <2>2 DEF Chain
  <2>4. Carries(a, Q[1]) /\ Padded(a, Q[1])
    BY <1>1, <1>5, <2>1 DEF OnAir
  <2> QED
    BY <2>1, <2>3, <2>4
<1>7. a.b \in Seq(Bytes) /\ Len(a.b) \in Nat /\ Len(a.b) >= t.n /\ t.n \in Nat \ {0} /\ a.b # <<>>
  <2>1. a.b \in Seq(Bytes) /\ Len(a.b) \in Nat /\ Len(a.b) >= t.n /\ t.n \in Nat \ {0}
    BY <1>6 DEF Frags, Carries, IsTag
  <2> QED
    BY <2>1
<1>8. rpc' = "parse" /\ buf' = IF a.start THEN a.b ELSE buf \o a.b
  BY <1>5, <1>7 DEF Receive
<1>9. PICK P \in Seq(TagSet) : Len(P) = Len(Q) - 1 /\ \A k \in 1 .. Len(Q) - 1 : P[k] = Q[k + 1]
  <2>1. Q # <<>>
    BY <1>4
  <2>2. Tail(Q) \in Seq(TagSet) /\ Len(Tail(Q)) = Len(Q) - 1 /\ \A k \in 1 .. Len(Q) - 1 : Tail(Q)[k] = Q[k + 1]
    BY <2>1
  <2> QED
    BY <2>2
<1>10. OnAir(P)'
  <2>1. Len(aclCh') = Len(aclCh) - 1 /\ \A k \in 1 .. Len(aclCh) - 1 : aclCh'[k] = aclCh[k + 1]
    BY <1>2, <1>4
  <2>2. Len(P) = Len(aclCh') + Len(ctrl')
    BY <1>2, <1>4, <1>9, <2>1
  <2>3. ASSUME NEW k \in 1 .. Len(aclCh') PROVE Carries(aclCh'[k], P[k]) /\ Padded(aclCh'[k], P[k])
    <3>1. k \in 1 .. Len(aclCh) - 1 /\ k \in 1 .. Len(Q) - 1 /\ k + 1 \in 1 .. Len(aclCh)
      BY <1>4, <2>1
    <3>2. aclCh'[k] = aclCh[k + 1] /\ P[k] = Q[k + 1]
      BY <1>9, <2>1, <3>1
    <3> QED
      BY <1>1, <3>1, <3>2 DEF OnAir
  <2>4. ASSUME NEW k \in 1 .. Len(ctrl')
        PROVE  Carries(ctrl'[k], P[Len(aclCh') + k]) /\ Len(ctrl'[k].b) = P[Len(aclCh') + k].n
    <3>1. Len(aclCh') + k \in 1 .. Len(Q) - 1 /\ Len(aclCh') + k + 1 = Len(aclCh) + k /\ ctrl' = ctrl
      BY <1>2, <1>4, <2>1
    <3>2. P[Len(aclCh') + k] = Q[Len(aclCh) + k]
      BY <1>9, <3>1
    <3> QED
      BY <1>1, <3>1, <3>2 DEF OnAir
  <2> QED
    BY <2>2, <2>3, <2>4 DEF OnAir
<1>11. ASSUME NEW s, AtReceiver(s, d)', s.x = t.x, s.j = t.j, End(s) = End(t), s.m = t.m
       PROVE  Wire(P, s, d)'
  <2>1. (Mid(s) <=> Mid(t)) /\ Bits(s) = Bits(t) /\ Full(s) = Full(t)
    BY <1>11 DEF Mid, Full, Bits
  <2>2. Chain(s, P)
    <3>1. SUFFICES ASSUME NEW k \in 1 .. Len(P) PROVE IsTag(P[k]) /\ After(Before(s, P, k), P[k])
      BY DEF Chain
    <3>2. k \in 1 .. Len(Q) - 1 /\ k + 1 \in 1 .. Len(Q) /\ (k # 1 => k - 1 \in 1 .. Len(Q) - 1)
      BY <1>4, <1>9
    <3>3. P[k] = Q[k + 1] /\ IsTag(Q[k + 1]) /\ After(Before(r, Q, k + 1), Q[k + 1])
      BY <1>1, <1>9, <3>2 DEF Chain
    <3>4. CASE k = 1
      <4>1. Before(s, P, k) = s /\ Before(r, Q, k + 1) = t
        BY <1>6, <3>4 DEF Before
      <4> QED
        BY <1>11, <2>1, <3>3, <4>1 DEF After
    <3>5. CASE k # 1
      <4>1. Before(s, P, k) = P[k - 1] /\ Before(r, Q, k + 1) = Q[k] /\ P[k - 1] = Q[k - 1 + 1] /\ k - 1 + 1 = k
        BY <1>9, <3>2, <3>5 DEF Before
      <4> QED
        BY <3>3, <4>1
    <3> QED
      BY <3>4, <3>5
  <2>3. CASE Len(Q) = 1
    <3>1. Before(s, P, Len(P) + 1) = s /\ Before(r, Q, Len(Q) + 1) = t
      BY <1>6, <1>9, <2>3 DEF Before
    <3>2. AtWriters(Before(s, P, Len(P) + 1))'
      BY <1>1, <1>2, <1>11, <2>1, <3>1 DEF AtWriters, MidFrame
    <3> QED
      BY <1>3, <1>10, <1>11, <2>2, <3>2 DEF Wire
  <2>4. CASE Len(Q) # 1
    <3>1. Before(s, P, Len(P) + 1) = Before(r, Q, Len(Q) + 1)
      <4>1. Len(Q) \in Nat /\ Len(Q) > 1 /\ Len(P) = Len(Q) - 1 /\ Len(P) \in 1 .. Len(Q) - 1
        BY <1>4, <1>9, <2>4
      <4>2. P[Len(P)] = Q[Len(P) + 1]
        BY <1>9, <4>1
      <4> QED
        BY <4>1, <4>2 DEF Before
    <3>2. AtWriters(Before(s, P, Len(P) + 1))'
      BY <1>1, <1>2, <3>1 DEF AtWriters, MidFrame
    <3> QED
      BY <1>3, <1>10, <1>11, <2>2, <3>2 DEF Wire
  <2> QED
    BY <2>3, <2>4
<1>12. Full(t) \in Nat /\ t.o \in Nat /\ End(t) = t.o + t.n /\ End(t) <= Full(t) /\ r.o = 0 /\ r.n \in Nat
  BY <1>1, <1>6, TagBits DEF IsTag, End, AtReceiver
<1>13. CASE r.n = 0
  <2>1. ~ Mid(r) /\ r.m = d
    BY <1>1, <1>12, <1>13 DEF Mid, End, AtReceiver
  <2>2. t.o = 0 /\ Counted(d, t)
    BY <1>6, <2>1 DEF After
  <2>3. a.start /\ \A i \in 1 .. t.n : a.b[i] = Bits(t)[i]
    <3>1. a.start /\ \A i \in 1 .. t.n : a.b[i] = Bits(t)[0 + i]
      BY <1>6, <2>2 DEF Carries
    <3>2. \A i \in 1 .. t.n : 0 + i = i
      BY <1>7
    <3> QED
      BY <3>1, <3>2
  <2>4. buf' = a.b
    BY <1>8, <2>3
  <2>5. IF t.n = Full(t) THEN rpc' = "parse" /\ Len(a.b) < t.n + HeaderLen ELSE Len(a.b) = t.n
    BY <1>6, <1>7, <1>8 DEF Padded, HeaderLen
  <2>6. t.m \in [Writers -> Nat]
    BY <1>6 DEF IsTag
  <2>7. AtReceiver(t, d)'
    BY <1>6, <1>7, <2>2, <2>3, <2>4, <2>5, <2>6 DEF AtReceiver
  <2> QED
    BY <1>11, <2>7
<1>14. CASE r.n # 0
  <2>1. /\ IsTag(r) /\ Counted(d, r) /\ Len(buf) >= r.n
        /\ \A i \in 1 .. r.n : buf[i] = Bits(r)[i]
        /\ r.n # Full(r) /\ Len(buf) = r.n
    BY <1>1, <1>2, <1>14 DEF AtReceiver
  <2>2. Full(r) \in Nat /\ End(r) = r.n /\ r.n < Full(r) /\ Mid(r)
    <3>1. Full(r) \in Nat
      BY <2>1, TagBits
    <3>2. End(r) = r.n /\ r.n <= Full(r)
      BY <1>12, <2>1 DEF IsTag, End
    <3> QED
      BY <1>12, <1>14, <2>1, <3>1, <3>2 DEF Mid
  <2>3. t.x = r.x /\ t.j = r.j /\ t.o = r.n /\ Counted(r.m, t) /\ r.m = d
    BY <1>6, <2>1, <2>2 DEF After, Counted
  <2>4. Bits(t) = Bits(r) /\ Full(t) = Full(r)
    BY <2>3 DEF Bits, Full
  <2>5. Len(a.b) = t.n /\ ~ a.start
    <3>1. t.n # Full(t)
      BY <1>7, <1>12, <1>14, <2>3
    <3> QED
      BY <1>6, <1>14, <2>3, <3>1 DEF Padded, Carries
  <2>6. PICK s : s.x = r.x /\ s.j = r.j /\ s.o = 0 /\ s.n = r.n + t.n /\ s.m = t.m
    <3>1. PICK s : s = [x |-> r.x, j |-> r.j, o |-> 0, n |-> r.n + t.n, m |-> t.m]
      OBVIOUS
    <3> QED
      BY <3>1
  <2>7. Bits(s) = Bits(r) /\ Full(s) = Full(r) /\ End(s) = r.n + t.n /\ End(s) = End(t)
    BY <1>7, <1>12, <2>3, <2>6 DEF Bits, Full, End
  <2>8. IsTag(s)
    <3>1. s.x \in Writers /\ s.j \in DOMAIN Payloads[s.x] /\ s.o \in Nat /\ s.m \in [Writers -> Nat]
      BY <1>6, <2>1, <2>6 DEF IsTag
    <3>2. s.n \in Nat \ {0}
      BY <1>7, <1>12, <2>6
    <3>3. End(s) <= Full(s)
      BY <1>12, <2>4, <2>7
    <3> QED
      BY <3>1, <3>2, <3>3 DEF IsTag
  <2>9. Counted(d, s)
    <3>1. s.j = d[s.x] + 1
      BY <2>1, <2>6 DEF Counted
    <3>2. t.m = IF End(t) = Full(t) THEN [d EXCEPT ![t.x] = @ + 1] ELSE d
      BY <2>3 DEF Counted
    <3>3. s.m = IF End(s) = Full(s) THEN [d EXCEPT ![s.x] = @ + 1] ELSE d
      BY <2>3, <2>4, <2>6, <2>7, <3>2
    <3> QED
      BY <3>1, <3>3 DEF Counted
  <2>10. buf' = buf \o a.b
    BY <1>8, <2>5
  <2>11. Len(buf') = s.n /\ \A i \in 1 .. s.n : buf'[i] = Bits(s)[i]
    <3>1. /\ Len(buf \o a.b) = Len(buf) + Len(a.b)
          /\ \A i \in 1 .. Len(buf) : (buf \o a.b)[i] = buf[i]
          /\ \A i \in 1 .. Len(a.b) : (buf \o a.b)[Len(buf) + i] = a.b[i]
      BY <1>4, <1>7, Concat
    <3>2. Len(buf') = s.n
      BY <2>1, <2>5, <2>6, <2>10, <3>1
    <3>3. ASSUME NEW i \in 1 .. s.n PROVE buf'[i] = Bits(s)[i]
      <4>1. CASE i \in 1 .. r.n
        BY <2>1, <2>7, <2>10, <3>1, <4>1
      <4>2. CASE i \notin 1 .. r.n
        <5>1. PICK k \in 1 .. t.n : i = r.n + k
          <6>1. i - r.n \in 1 .. t.n /\ i = r.n + (i - r.n)
            BY <1>7, <1>12, <2>6, <4>2
          <6> QED
            BY <6>1
        <5>2. buf'[i] = a.b[k]
          BY <2>1, <2>5, <2>10, <3>1, <5>1
        <5>3. a.b[k] = Bits(t)[t.o + k]
          BY <1>6, <5>1 DEF Carries
        <5> QED
          BY <2>3, <2>4, <2>7, <5>1, <5>2, <5>3
      <4> QED
        BY <4>1, <4>2
    <3> QED
      BY <3>2, <3>3
  <2>12. AtReceiver(s, d)'
    <3>1. s.n \in Nat /\ s.n # 0 /\ s.m \in [Writers -> Nat]
      <4>1. t.m \in [Writers -> Nat]
        BY <1>6 DEF IsTag
      <4>2. r.n + t.n \in Nat /\ r.n + t.n # 0
        BY <1>7, <1>12
      <4> QED
        BY <2>6, <4>1, <4>2
    <3>2. s.n < s.n + HeaderLen /\ s.n >= s.n
      BY <3>1 DEF HeaderLen
    <3>3. IF s.n = Full(s) THEN rpc' = "parse" /\ Len(buf') < s.n + HeaderLen ELSE Len(buf') = s.n
      BY <1>8, <2>11, <3>2
    <3>4. Len(buf') >= s.n
      BY <2>11, <3>2
    <3> QED
      BY <2>6, <2>8, <2>9, <2>11, <3>1, <3>3, <3>4 DEF AtReceiver
  <2> QED
    BY <1>11, <2>3, <2>6, <2>7, <2>12
<1> QED
  BY <1>13, <1>14

\* A sequence with one element more, and with the first one taken away.
LEMMA Longer ==
  ASSUME NEW S, NEW c \in Seq(S), NEW p \in S
  PROVE  /\ Append(c, p) \in Seq(S) /\ Len(Append(c, p)) = Len(c) + 1
         /\ Append(c, p)[Len(c) + 1] = p /\ \A i \in 1 .. Len(c) : Append(c, p)[i] = c[i]
OBVIOUS

LEMMA Shorter ==
  ASSUME NEW S, NEW c \in Seq(S), c # <<>>
  PROVE  /\ Tail(c) \in Seq(S) /\ Len(Tail(c)) = Len(c) - 1 /\ Len(c) \in Nat \ {0}
         /\ Head(c) \in S /\ Head(c) = c[1] /\ \A i \in 1 .. Len(c) - 1 : Tail(c)[i] = c[i + 1]
OBVIOUS

\* Read moves a payload and keeps their order.
LEMMA ReadKeeps ==
  ASSUME NEW S, NEW g \in Seq(S), NEW c \in Seq(S), c # <<>>
  PROVE  Append(g, Head(c)) \o Tail(c) = g \o c
<1>0. /\ Tail(c) \in Seq(S) /\ Len(Tail(c)) = Len(c) - 1 /\ Len(c) \in Nat \ {0}
      /\ Head(c) \in S /\ Head(c) = c[1] /\ \A i \in 1 .. Len(c) - 1 : Tail(c)[i] = c[i + 1]
  BY Shorter
<1>1. Len(c) \in Nat \ {0} /\ Len(g) \in Nat
  BY <1>0
<1>2. PICK a \in Seq(S) : a = Append(g, Head(c)) /\ Len(a) = Len(g) + 1 /\ a[Len(g) + 1] = c[1]
                            /\ \A i \in 1 .. Len(g) : a[i] = g[i]
  <2>1. /\ Append(g, Head(c)) \in Seq(S) /\ Len(Append(g, Head(c))) = Len(g) + 1
        /\ Append(g, Head(c))[Len(g) + 1] = Head(c) /\ \A i \in 1 .. Len(g) : Append(g, Head(c))[i] = g[i]
    BY <1>0, Longer
  <2> QED
    BY <1>0, <2>1
<1>3. PICK b \in Seq(S) : b = Tail(c) /\ Len(b) = Len(c) - 1 /\ \A i \in 1 .. Len(c) - 1 : b[i] = c[i + 1]
  BY <1>0
<1>4. /\ a \o b \in Seq(S) /\ Len(a \o b) = Len(a) + Len(b)
      /\ \A i \in 1 .. Len(a) : (a \o b)[i] = a[i]
      /\ \A i \in 1 .. Len(b) : (a \o b)[Len(a) + i] = b[i]
  BY Concat
<1>5. /\ g \o c \in Seq(S) /\ Len(g \o c) = Len(g) + Len(c)
      /\ \A i \in 1 .. Len(g) : (g \o c)[i] = g[i]
      /\ \A i \in 1 .. Len(c) : (g \o c)[Len(g) + i] = c[i]
  BY Concat
<1>6. ASSUME NEW i \in 1 .. Len(g) + Len(c) PROVE (a \o b)[i] = (g \o c)[i]
  <2>1. CASE i \in 1 .. Len(g)
    <3>1. i \in 1 .. Len(a)
      BY <1>1, <1>2, <2>1
    <3> QED
      BY <1>2, <1>4, <1>5, <2>1, <3>1
  <2>2. CASE i = Len(g) + 1
    <3>1. i \in 1 .. Len(a) /\ 1 \in 1 .. Len(c)
      BY <1>1, <1>2, <2>2
    <3> QED
      BY <1>2, <1>4, <1>5, <2>2, <3>1
  <2>3. CASE i > Len(g) + 1
    <3>1. PICK k \in 1 .. Len(b) : i = Len(a) + k
      <4>1. i - Len(a) \in 1 .. Len(b) /\ i = Len(a) + (i - Len(a))
        BY <1>1, <1>2, <1>3, <2>3
      <4> QED
        BY <4>1
    <3>2. k + 1 \in 1 .. Len(c) /\ i = Len(g) + (k + 1) /\ k \in 1 .. Len(c) - 1
      BY <1>1, <1>2, <1>3, <3>1
    <3>3. (a \o b)[i] = b[k] /\ (g \o c)[i] = c[k + 1] /\ b[k] = c[k + 1]
      BY <1>3, <1>4, <1>5, <3>1, <3>2
    <3> QED
      BY <3>3
  <2>4. i \in 1 .. Len(g) \/ i = Len(g) + 1 \/ i > Len(g) + 1
    BY <1>1
  <2> QED
    BY <2>1, <2>2, <2>3, <2>4
<1>7. Len(a \o b) = Len(g \o c)
  BY <1>1, <1>2, <1>3, <1>4, <1>5
<1>8. ASSUME NEW u \in Seq(S), NEW v \in Seq(S), Len(u) = Len(v), \A i \in 1 .. Len(v) : u[i] = v[i]
      PROVE  u = v
  BY <1>8
<1>9. a \o b = g \o c
  BY <1>4, <1>5, <1>6, <1>7, <1>8
<1> QED
  BY <1>2, <1>3, <1>9

\* A payload put into dataCh is the last that is delivered.
LEMMA AppendLast ==
  ASSUME NEW S, NEW g \in Seq(S), NEW c \in Seq(S), NEW p \in S
  PROVE  g \o Append(c, p) = Append(g \o c, p)
<1>1. PICK e \in Seq(S) : e = Append(c, p) /\ Len(e) = Len(c) + 1 /\ e[Len(c) + 1] = p
                            /\ \A i \in 1 .. Len(c) : e[i] = c[i]
  <2>1. /\ Append(c, p) \in Seq(S) /\ Len(Append(c, p)) = Len(c) + 1
        /\ Append(c, p)[Len(c) + 1] = p /\ \A i \in 1 .. Len(c) : Append(c, p)[i] = c[i]
    BY Longer
  <2> QED
    BY <2>1
<1>2. /\ g \o c \in Seq(S) /\ Len(g \o c) = Len(g) + Len(c)
      /\ \A i \in 1 .. Len(g) : (g \o c)[i] = g[i]
      /\ \A i \in 1 .. Len(c) : (g \o c)[Len(g) + i] = c[i]
  BY Concat
<1>3. /\ g \o e \in Seq(S) /\ Len(g \o e) = Len(g) + Len(e)
      /\ \A i \in 1 .. Len(g) : (g \o e)[i] = g[i]
      /\ \A i \in 1 .. Len(e) : (g \o e)[Len(g) + i] = e[i]
  BY Concat
<1>4. PICK v \in Seq(S) : /\ v = Append(g \o c, p) /\ Len(v) = Len(g \o c) + 1 /\ v[Len(g \o c) + 1] = p
                          /\ \A i \in 1 .. Len(g \o c) : v[i] = (g \o c)[i]
  <2>1. PICK q \in Seq(S) : q = g \o c
    BY <1>2
  <2>2. /\ Append(q, p) \in Seq(S) /\ Len(Append(q, p)) = Len(q) + 1
        /\ Append(q, p)[Len(q) + 1] = p /\ \A i \in 1 .. Len(q) : Append(q, p)[i] = q[i]
    BY Longer
  <2> QED
    BY <2>1, <2>2
<1>5. Len(g) \in Nat /\ Len(c) \in Nat
  OBVIOUS
<1>6. ASSUME NEW i \in 1 .. Len(v) PROVE (g \o e)[i] = v[i]
  <2>1. CASE i \in 1 .. Len(g)
    <3>1. i \in 1 .. Len(g \o c)
      BY <1>2, <1>5, <2>1
    <3> QED
      BY <1>2, <1>3, <1>4, <2>1, <3>1
  <2>2. CASE i > Len(g)
    <3>1. PICK k \in 1 .. Len(e) : i = Len(g) + k
      <4>1. i - Len(g) \in 1 .. Len(e) /\ i = Len(g) + (i - Len(g))
        BY <1>1, <1>2, <1>4, <1>5, <2>2
      <4> QED
        BY <4>1
    <3>2. (g \o e)[i] = e[k]
      BY <1>3, <3>1
    <3>3. CASE k = Len(c) + 1
      BY <1>1, <1>2, <1>4, <1>5, <3>1, <3>2, <3>3
    <3>4. CASE k \in 1 .. Len(c)
      <4>1. i \in 1 .. Len(g \o c)
        BY <1>2, <1>5, <3>1, <3>4
      <4>2. v[i] = c[k]
        BY <1>2, <1>4, <3>1, <3>4, <4>1
      <4> QED
        BY <1>1, <3>2, <3>4, <4>2
    <3>5. k \in 1 .. Len(c) \/ k = Len(c) + 1
      BY <1>1, <1>5
    <3> QED
      BY <3>3, <3>4, <3>5
  <2>3. i \in 1 .. Len(g) \/ i > Len(g)
    BY <1>2, <1>4, <1>5
  <2> QED
    BY <2>1, <2>2, <2>3
<1>7. Len(g \o e) = Len(v)
  BY <1>1, <1>2, <1>3, <1>4, <1>5
<1>8. ASSUME NEW x \in Seq(S), NEW y \in Seq(S), Len(x) = Len(y), \A i \in 1 .. Len(y) : x[i] = y[i]
      PROVE  x = y
  BY <1>8
<1>9. g \o e = v
  BY <1>3, <1>6, <1>7, <1>8
<1> QED
  BY <1>1, <1>4, <1>9

\* The payload of the frame at the head of the buffer is delivered, or the frame is
\* of the signalling channel; less than a header may follow it.
LEMMA ParseWire ==
  ASSUME TypeOK, LengthsFit, Distinct,
         NEW Q \in Seq(TagSet), NEW r, NEW d \in [Writers -> Nat], Wire(Q, r, d), ParsePdu
  PROVE  \E e \in [Writers -> Nat] : \E s : Wire(Q, s, e)'
<1>1. /\ OnAir(Q) /\ Chain(r, Q) /\ AtReceiver(r, d) /\ FreshFrames
      /\ AtWriters(Before(r, Q, Len(Q) + 1)) /\ Delivered(got \o dataCh, d)
  BY DEF Wire
<1>2. /\ UNCHANGED <<wpc, wnext, w, flag, ctrl, aclCh, rpc, got, up>>
      /\ Complete /\ buf' = Drop(buf, PduLen)
  BY DEF ParsePdu, writers
<1>3. OnAir(Q)' /\ FreshFrames'
  BY <1>1, <1>2 DEF OnAir, FreshFrames
<1>4. r.n # 0 /\ r.n = Full(r) /\ PduLen = Full(r)
  BY <1>1, <1>2, CompleteFrame
<1>5. /\ r.o = 0 /\ r.n \in Nat /\ IsTag(r) /\ Counted(d, r) /\ Len(buf) >= r.n
      /\ \A i \in 1 .. r.n : buf[i] = Bits(r)[i]
      /\ Len(buf) < r.n + 4 /\ buf \in Seq(Bytes) /\ Len(buf) \in Nat /\ r.m \in [Writers -> Nat]
  BY <1>1, <1>4 DEF AtReceiver, HeaderLen, TypeOK
<1>6. PICK p \in PayloadSet : p = Payloads[r.x][r.j]
  BY <1>5, PayloadOf DEF IsTag
<1>7. /\ Full(r) \in Nat /\ Full(r) >= 4 /\ Bits(r)[3] = p.cid /\ Bits(r)[4] = 0
      /\ Full(r) = 4 + Len(p.b)
      /\ \A i \in 1 .. Full(r) - 4 : Bits(r)[4 + i] = p.b[i]
  BY <1>5, <1>6, TagBits DEF HeaderLen
<1>8. p.b \in Seq(Bytes) /\ Len(p.b) \in Nat /\ p.cid \in {4, 5}
  BY DEF PayloadSet, AttCid, SignalCid
<1>9. buf[3] + 256 * buf[4] = p.cid
  <2>1. 3 \in 1 .. r.n /\ 4 \in 1 .. r.n
    BY <1>4, <1>7
  <2>2. buf[3] = p.cid /\ buf[4] = 0
    BY <1>5, <1>7, <2>1
  <2> QED
    BY <1>8, <2>2
<1>10. SubSeq(buf, HeaderLen + 1, PduLen) = p.b
  <2>1. PICK q \in Seq(Bytes) : /\ q = SubSeq(buf, HeaderLen + 1, PduLen) /\ Len(q) = Full(r) - 4
                                /\ \A i \in 1 .. Full(r) - 4 : q[i] = buf[4 + i]
    <3>1. PICK f \in Nat : f = Full(r) /\ f >= 4 /\ f <= Len(buf)
      BY <1>4, <1>5, <1>7
    <3>2. SubSeq(buf, 5, f) \in Seq(Bytes) /\ Len(SubSeq(buf, 5, f)) = f - 4
            /\ \A i \in 1 .. f - 4 : SubSeq(buf, 5, f)[i] = buf[4 + i]
      BY <1>5, <3>1
    <3>3. SubSeq(buf, HeaderLen + 1, PduLen) = SubSeq(buf, 5, f)
      BY <1>4, <3>1 DEF HeaderLen
    <3> QED
      BY <3>1, <3>2, <3>3
  <2>2. ASSUME NEW i \in 1 .. Full(r) - 4 PROVE q[i] = p.b[i]
    <3>1. 4 + i \in 1 .. r.n
      BY <1>4, <1>7, <2>2
    <3>2. buf[4 + i] = Bits(r)[4 + i]
      BY <1>5, <3>1
    <3> QED
      BY <1>7, <2>1, <3>2
  <2>3. Len(q) = Len(p.b)
    BY <1>7, <1>8, <2>1
  <2>4. ASSUME NEW u \in Seq(Bytes), NEW v \in Seq(Bytes), Len(u) = Len(v), \A i \in 1 .. Len(u) : u[i] = v[i]
        PROVE  u = v
    BY <2>4
  <2>5. q = p.b
    BY <1>8, <2>1, <2>2, <2>3, <2>4
  <2> QED
    BY <2>1, <2>5
<1>11. r.x \in Writers /\ r.j \in DOMAIN Payloads[r.x] /\ r.j = d[r.x] + 1 /\ r.m = [d EXCEPT ![r.x] = @ + 1]
  <2>1. End(r) = Full(r)
    BY <1>4, <1>5, <1>7 DEF End
  <2> QED
    BY <1>5, <2>1 DEF IsTag, Counted
<1>12. got \in Seq(Seq(Bytes)) /\ dataCh \in Seq(Seq(Bytes)) /\ got \o dataCh \in Seq(Seq(Bytes))
  BY DEF TypeOK
<1>13. /\ p.cid = AttCid => Delivered(Append(got \o dataCh, p.b), r.m)
       /\ p.cid # AttCid => Delivered(got \o dataCh, r.m)
  <2>1. PICK z \in Seq(Seq(Bytes)) : z = got \o dataCh
    BY <1>12
  <2>2. PICK x \in Writers : x = r.x
    BY <1>11
  <2>3. PICK j \in DOMAIN Payloads[x] : j = r.j
    BY <1>11, <2>2
  <2>4. PICK e \in [Writers -> Nat] : e = r.m
    BY <1>5
  <2>5. Delivered(z, d)
    BY <1>1, <2>1
  <2>6. j = d[x] + 1 /\ e = [d EXCEPT ![x] = @ + 1]
    BY <1>11, <2>2, <2>3, <2>4
  <2>7. /\ Payloads[x][j].cid = AttCid => Delivered(Append(z, Payloads[x][j].b), e)
        /\ Payloads[x][j].cid # AttCid => Delivered(z, e)
    BY <2>5, <2>6, DeliverNext
  <2> QED
    BY <1>6, <2>1, <2>2, <2>3, <2>4, <2>7
<1>14. PICK y : y = got' \o dataCh' /\ Delivered(y, r.m)
  <2>1. CASE p.cid = SignalCid
    <3>1. got' \o dataCh' = got \o dataCh
      BY <1>2, <1>9, <2>1 DEF ParsePdu
    <3>2. p.cid # AttCid
      BY <2>1 DEF AttCid, SignalCid
    <3>3. Delivered(got \o dataCh, r.m)
      BY <1>13, <3>2
    <3> QED
      BY <3>1, <3>3
  <2>2. CASE p.cid # SignalCid
    <3>1. dataCh' = Append(dataCh, p.b) /\ got' = got
      BY <1>2, <1>9, <1>10, <2>2 DEF ParsePdu
    <3>2. got \o Append(dataCh, p.b) = Append(got \o dataCh, p.b)
      <4>1. PICK S : S = Seq(Bytes)
        OBVIOUS
      <4>2. got \in Seq(S) /\ dataCh \in Seq(S) /\ p.b \in S
        BY <1>8, <1>12, <4>1
      <4> QED
        BY <4>2, AppendLast
    <3>3. p.cid = AttCid
      BY <1>8, <2>2 DEF AttCid, SignalCid
    <3> QED
      BY <1>13, <3>1, <3>2, <3>3
  <2> QED
    BY <2>1, <2>2
<1>15. Delivered(got \o dataCh, r.m)'
  BY <1>14 DEF Delivered
<1>16. PICK s : s.x = r.x /\ s.j = r.j /\ s.o = 0 /\ s.n = 0 /\ s.m = r.m
  <2>1. PICK s : s = [x |-> r.x, j |-> r.j, o |-> 0, n |-> 0, m |-> r.m]
    OBVIOUS
  <2> QED
    BY <2>1
<1>17. AtReceiver(s, r.m)'
  <2>1. Len(buf') = Len(buf) - Full(r)
    <3>1. Full(r) \in 0 .. Len(buf)
      BY <1>4, <1>5, <1>7
    <3>2. Len(Drop(buf, Full(r))) = Len(buf) - Full(r)
      BY <1>5, <3>1, CutBytes
    <3> QED
      BY <1>2, <1>4, <3>2
  <2>2. Len(buf') < HeaderLen
    <3>1. Len(buf) < Full(r) + 4
      BY <1>4, <1>5
    <3>2. PICK f \in Nat, l \in Nat : f = Full(r) /\ l = Len(buf)
      BY <1>5, <1>7
    <3>3. l - f < 4
      BY <3>1, <3>2
    <3> QED
      BY <2>1, <3>2, <3>3 DEF HeaderLen
  <2> QED
    BY <1>5, <1>16, <2>2 DEF AtReceiver
<1>18. ~ Mid(s) /\ ~ Mid(r) /\ \A t : After(r, t) => After(s, t)
  <2>1. ~ Mid(s)
    BY <1>16 DEF Mid, End
  <2>2. ~ Mid(r)
    BY <1>4, <1>5, <1>7 DEF Mid, End
  <2> QED
    BY <1>16, <2>1, <2>2 DEF After
<1>19. Chain(s, Q)
  <2>1. SUFFICES ASSUME NEW k \in 1 .. Len(Q) PROVE IsTag(Q[k]) /\ After(Before(s, Q, k), Q[k])
    BY DEF Chain
  <2>2. IsTag(Q[k]) /\ After(Before(r, Q, k), Q[k])
    BY <1>1 DEF Chain
  <2> QED
    BY <1>18, <2>2 DEF Before
<1>20. AtWriters(Before(s, Q, Len(Q) + 1))'
  <2>1. CASE Len(Q) + 1 = 1
    <3>1. Before(s, Q, Len(Q) + 1) = s /\ Before(r, Q, Len(Q) + 1) = r
      BY <2>1 DEF Before
    <3> QED
      BY <1>1, <1>2, <1>16, <1>18, <3>1 DEF AtWriters, MidFrame
  <2>2. CASE Len(Q) + 1 # 1
    <3>1. Before(s, Q, Len(Q) + 1) = Before(r, Q, Len(Q) + 1)
      BY <2>2 DEF Before
    <3> QED
      BY <1>1, <1>2, <3>1 DEF AtWriters, MidFrame
  <2> QED
    BY <2>1, <2>2
<1>21. Wire(Q, s, r.m)'
  BY <1>3, <1>15, <1>17, <1>19, <1>20 DEF Wire
<1> QED
  BY <1>5, <1>21

\* The other steps move no bytes.
LEMMA QuietWire ==
  ASSUME TypeOK, LengthsFit,
         NEW Q \in Seq(TagSet), NEW r, NEW d \in [Writers -> Nat], Wire(Q, r, d),
         \/ \E x \in Writers : StartWrite(x) \/ TakeCredit(x)
         \/ \E n \in 1 .. Credits : NumberOfCompletedPkts(n)
         \/ NeedMore \/ Read \/ UNCHANGED vars
  PROVE  Wire(Q, r, d)'
<1>1. /\ OnAir(Q) /\ Chain(r, Q) /\ AtReceiver(r, d) /\ FreshFrames
      /\ AtWriters(Before(r, Q, Len(Q) + 1)) /\ Delivered(got \o dataCh, d)
  BY DEF Wire
<1>2. PICK e : e = Before(r, Q, Len(Q) + 1) /\ AtWriters(e) /\ (Mid(e) => IsTag(e))
  <2>1. Len(Q) + 1 \in 1 .. Len(Q) + 1
    OBVIOUS
  <2> QED
    BY <1>1, <2>1, TagBefore
<1>3. ASSUME NEW x \in Writers, StartWrite(x) PROVE Wire(Q, r, d)'
  <2>1. /\ wpc[x] = "idle" /\ wpc' = [wpc EXCEPT ![x] = "credit"]
        /\ w' = [w EXCEPT ![x] = Frame(Payloads[x][wnext[x]])]
        /\ flag' = [flag EXCEPT ![x] = FALSE]
        /\ UNCHANGED <<wnext, rpc, buf, ctrl, aclCh, dataCh, got, up>>
    BY <1>3 DEF StartWrite, rx
  <2>2. OnAir(Q)' /\ AtReceiver(r, d)' /\ Delivered(got \o dataCh, d)'
    <3>1. OnAir(Q)'
      BY <1>1, <2>1 DEF OnAir
    <3>2. AtReceiver(r, d)'
      BY <1>1, <2>1 DEF AtReceiver
    <3>3. Delivered(got \o dataCh, d)'
      BY <1>1, <2>1 DEF Delivered
    <3> QED
      BY <3>1, <3>2, <3>3
  <2>3. FreshFrames'
    BY <1>1, <2>1 DEF FreshFrames, TypeOK
  <2>4. \A y \in Writers : MidFrame(y)' <=> MidFrame(y)
    BY <2>1 DEF MidFrame, TypeOK
  <2>5. up /\ Mid(e) => w'[e.x] = w[e.x]
    <3>1. up /\ Mid(e) => e.x \in Writers /\ MidFrame(e.x)
      BY <1>2 DEF AtWriters, IsTag
    <3> QED
      BY <2>1, <3>1 DEF MidFrame, TypeOK
  <2>6. AtWriters(Before(r, Q, Len(Q) + 1))'
    <3>1. up' = up /\ wnext' = wnext
      BY <2>1
    <3> QED
      BY <1>2, <2>4, <2>5, <3>1 DEF AtWriters
  <2> QED
    BY <1>1, <2>2, <2>3, <2>6 DEF Wire
<1>4. ASSUME NEW x \in Writers, TakeCredit(x) PROVE Wire(Q, r, d)'
  <2>1. /\ wpc[x] = "credit" /\ wpc' = [wpc EXCEPT ![x] = "send"]
        /\ UNCHANGED <<wnext, w, flag, rpc, buf, ctrl, aclCh, dataCh, got, up>>
    BY <1>4 DEF TakeCredit, rx
  <2>2. OnAir(Q)' /\ AtReceiver(r, d)' /\ Delivered(got \o dataCh, d)'
    <3>1. OnAir(Q)'
      BY <1>1, <2>1 DEF OnAir
    <3>2. AtReceiver(r, d)'
      BY <1>1, <2>1 DEF AtReceiver
    <3>3. Delivered(got \o dataCh, d)'
      BY <1>1, <2>1 DEF Delivered
    <3> QED
      BY <3>1, <3>2, <3>3
  <2>3. FreshFrames'
    BY <1>1, <2>1 DEF FreshFrames, TypeOK
  <2>4. \A y \in Writers : MidFrame(y)' <=> MidFrame(y)
    BY <2>1 DEF MidFrame, TypeOK
  <2>5. AtWriters(Before(r, Q, Len(Q) + 1))'
    BY <1>2, <2>1, <2>4 DEF AtWriters
  <2> QED
    BY <1>1, <2>2, <2>3, <2>5 DEF Wire
<1>5. CASE (\E n \in 1 .. Credits : NumberOfCompletedPkts(n)) \/ UNCHANGED vars
  <2>1. UNCHANGED <<wpc, wnext, w, flag, rpc, buf, ctrl, aclCh, dataCh, got, up>>
    BY <1>5 DEF NumberOfCompletedPkts, vars, writers, rx
  <2>2. OnAir(Q)' /\ AtReceiver(r, d)' /\ Delivered(got \o dataCh, d)' /\ FreshFrames'
    <3>1. OnAir(Q)'
      BY <1>1, <2>1 DEF OnAir
    <3>2. AtReceiver(r, d)'
      BY <1>1, <2>1 DEF AtReceiver
    <3>3. Delivered(got \o dataCh, d)'
      BY <1>1, <2>1 DEF Delivered
    <3>4. FreshFrames'
      BY <1>1, <2>1 DEF FreshFrames
    <3> QED
      BY <3>1, <3>2, <3>3, <3>4
  <2>3. AtWriters(Before(r, Q, Len(Q) + 1))'
    BY <1>1, <2>1 DEF AtWriters, MidFrame
  <2> QED
    BY <1>1, <2>2, <2>3 DEF Wire
<1>6. CASE NeedMore
  <2>1. UNCHANGED <<wpc, wnext, w, flag, buf, ctrl, aclCh, dataCh, got, up>> /\ ~ Complete
    BY <1>6 DEF NeedMore, writers
  <2>2. r.n = 0 \/ r.n # Full(r)
    BY <1>1, <2>1, CompleteFrame
  <2>3. AtReceiver(r, d)'
    BY <1>1, <2>1, <2>2 DEF AtReceiver
  <2>4. OnAir(Q)' /\ Delivered(got \o dataCh, d)' /\ FreshFrames'
    BY <1>1, <2>1 DEF OnAir, Delivered, FreshFrames
  <2>5. AtWriters(Before(r, Q, Len(Q) + 1))'
    BY <1>1, <2>1 DEF AtWriters, MidFrame
  <2> QED
    BY <1>1, <2>3, <2>4, <2>5 DEF Wire
<1>7. CASE Read
  <2>1. UNCHANGED <<wpc, wnext, w, flag, rpc, buf, ctrl, aclCh, up>>
    BY <1>7 DEF Read, writers, rx
  <2>2. got' \o dataCh' = got \o dataCh
    <3>1. dataCh # <<>> /\ got' = Append(got, Head(dataCh)) /\ dataCh' = Tail(dataCh)
            /\ got \in Seq(Seq(Bytes)) /\ dataCh \in Seq(Seq(Bytes))
      BY <1>7 DEF Read, TypeOK
    <3> QED
      BY <3>1, ReadKeeps
  <2>3. PICK y : y = got' \o dataCh' /\ Delivered(y, d)
    BY <1>1, <2>2
  <2>4. Delivered(got \o dataCh, d)'
    BY <2>3 DEF Delivered
  <2>5. OnAir(Q)' /\ AtReceiver(r, d)' /\ FreshFrames'
    BY <1>1, <2>1 DEF OnAir, AtReceiver, FreshFrames
  <2>6. AtWriters(Before(r, Q, Len(Q) + 1))'
    BY <1>1, <2>1 DEF AtWriters, MidFrame
  <2> QED
    BY <1>1, <2>4, <2>5, <2>6 DEF Wire
<1> QED
  BY <1>3, <1>4, <1>5, <1>6, <1>7

-----------------------------------------------------------------------------
\* Every step that mixes no frames keeps the chain.
LEMMA WireStep ==
  ASSUME ShortPadding, LengthsFit, Distinct
  PROVE  TypeOK /\ WireInv /\ [Next]_vars => WireInv'
<1> SUFFICES ASSUME TypeOK, WireInv, [Next]_vars, ~ mixed'
             PROVE  \E Q \in Seq(TagSet), d \in [Writers -> Nat] : \E r : Wire(Q, r, d)'
  BY DEF WireInv
<1>1. ~ mixed
  BY DEF Next, WriterStep, ControllerStep, LoopStep, StartWrite, TakeCredit, SendFragment, Transmit,
         NumberOfCompletedPkts, Disconnect, Receive, ParsePdu, NeedMore, Read, vars
<1>2. PICK Q \in Seq(TagSet), d \in [Writers -> Nat] : \E r : Wire(Q, r, d)
  BY <1>1 DEF WireInv
<1>3. PICK r : Wire(Q, r, d)
  BY <1>2
<1>4. ASSUME NEW x \in Writers, SendFragment(x) PROVE \E P \in Seq(TagSet) : Wire(P, r, d)'
  BY <1>3, <1>4, SendWire
<1>5. ASSUME NEW n \in Padding, Transmit(n) PROVE Wire(Q, r, d)'
  BY <1>3, <1>5, TransmitWire
<1>6. CASE Disconnect
  <2>1. \E P \in Seq(TagSet) : Wire(P, r, d)'
    BY <1>3, <1>6, DisconnectWire
  <2> QED
    BY <2>1
<1>7. CASE Receive
  <2>1. \E P \in Seq(TagSet) : \E s : Wire(P, s, d)'
    BY <1>3, <1>7, ReceiveWire
  <2> QED
    BY <2>1
<1>8. CASE ParsePdu
  <2>1. \E e \in [Writers -> Nat] : \E s : Wire(Q, s, e)'
    BY <1>3, <1>8, ParseWire
  <2> QED
    BY <2>1
<1>9. CASE \/ \E x \in Writers : StartWrite(x) \/ TakeCredit(x)
           \/ \E n \in 1 .. Credits : NumberOfCompletedPkts(n)
           \/ NeedMore \/ Read \/ UNCHANGED vars
  <2>1. Wire(Q, r, d)'
    BY <1>3, <1>9, QuietWire
  <2> QED
    BY <2>1
<1> QED
  BY <1>4, <1>5, <1>6, <1>7, <1>8, <1>9 DEF Next, WriterStep, ControllerStep, LoopStep

\* Nothing is on its way at first.
LEMMA WireInit == Init => WireInv
<1> SUFFICES ASSUME Init PROVE \E Q \in Seq(TagSet), d \in [Writers -> Nat] : \E r : Wire(Q, r, d)
  BY DEF WireInv
<1>1. PICK Q \in Seq(TagSet) : Q = <<>> /\ Len(Q) = 0
  <2>1. <<>> \in Seq(TagSet) /\ Len(<<>>) = 0
    OBVIOUS
  <2> QED
    BY <2>1
<1>2. PICK d \in [Writers -> Nat] : d = [x \in Writers |-> 0]
  OBVIOUS
<1>3. PICK r : r.o = 0 /\ r.n = 0 /\ r.m = d
  <2>1. PICK s : s = [o |-> 0, n |-> 0, m |-> d]
    OBVIOUS
  <2> QED
    BY <2>1
<1>4. OnAir(Q) /\ Chain(r, Q)
  <2>1. Len(aclCh) = 0 /\ Len(ctrl) = 0
    BY DEF Init
  <2> QED
    BY <1>1, <2>1 DEF OnAir, Chain
<1>5. AtReceiver(r, d)
  <2>1. Len(buf) < HeaderLen
    BY DEF Init, HeaderLen
  <2> QED
    BY <1>3, <2>1 DEF AtReceiver
<1>6. FreshFrames
  BY DEF Init, FreshFrames
<1>7. AtWriters(Before(r, Q, Len(Q) + 1))
  <2>1. Before(r, Q, Len(Q) + 1) = r
    BY <1>1 DEF Before
  <2>2. ~ Mid(r)
    BY <1>3 DEF Mid, End
  <2> QED
    BY <1>2, <1>3, <2>1, <2>2 DEF AtWriters, Init, MidFrame
<1>8. Delivered(got \o dataCh, d)
  <2>1. PICK y : y = got \o dataCh /\ Len(y) = 0
    <3>1. Len(<<>> \o <<>>) = 0
      <4>1. <<>> \in Seq(Nat) /\ Len(<<>>) = 0
        OBVIOUS
      <4> QED
        BY <4>1, Concat
    <3> QED
      BY <3>1 DEF Init
  <2>2. \A x \in Writers : CountOf(x, y, 0) = 0 /\ AttCount(x, 0) = 0
    <3>1. 1 .. 0 = {} /\ Cardinality({}) = 0
      BY FS_EmptySet
    <3>2. ASSUME NEW x \in Writers PROVE CountOf(x, y, 0) = 0 /\ AttCount(x, 0) = 0
      <4>1. {i \in 1 .. 0 : IsPayloadOf(x, y[i])} = {} /\ {i \in 1 .. 0 : Payloads[x][i].cid = AttCid} = {}
        BY <3>1
      <4> QED
        BY <3>1, <4>1 DEF CountOf, AttCount
    <3> QED
      BY <3>2
  <2>3. Delivered(y, d)
    BY <1>2, <2>1, <2>2 DEF Delivered
  <2> QED
    BY <2>1, <2>3
<1>9. Wire(Q, r, d)
  BY <1>4, <1>5, <1>6, <1>7, <1>8 DEF Wire
<1> QED
  BY <1>9

\* What Read has returned is a prefix of what has been delivered.
LEMMA WireReads == TypeOK /\ WireInv => ReadsWhatWasWritten
<1> SUFFICES ASSUME TypeOK, WireInv, ~ mixed
             PROVE  /\ \A i \in DOMAIN got : \E x \in Writers : IsPayloadOf(x, got[i])
                    /\ \A x \in Writers : \A i \in DOMAIN got : IsPayloadOf(x, got[i]) =>
                         \E j \in DOMAIN Payloads[x] : /\ Payloads[x][j] = [cid |-> AttCid, b |-> got[i]]
                                                       /\ AttCount(x, j) = CountOf(x, got, i)
  BY DEF ReadsWhatWasWritten
<1>1. PICK Q \in Seq(TagSet), d \in [Writers -> Nat] : \E r : Wire(Q, r, d)
  BY DEF WireInv
<1>2. got \in Seq(Seq(Bytes)) /\ dataCh \in Seq(Seq(Bytes))
  BY DEF TypeOK
<1>3. PICK y : y = got \o dataCh /\ Delivered(y, d)
  BY <1>1 DEF Wire
<1>4. Len(y) = Len(got) + Len(dataCh) /\ \A i \in 1 .. Len(got) : y[i] = got[i]
  <2>1. /\ Len(got \o dataCh) = Len(got) + Len(dataCh)
        /\ \A i \in 1 .. Len(got) : (got \o dataCh)[i] = got[i]
    BY <1>2, Concat
  <2> QED
    BY <1>3, <2>1
<1>5. DOMAIN got = 1 .. Len(got) /\ Len(got) \in Nat /\ Len(dataCh) \in Nat
  BY <1>2
<1>6. \A i \in 1 .. Len(got) : i \in 1 .. Len(y) /\ y[i] = got[i]
  BY <1>4, <1>5
<1>7. ASSUME NEW i \in 1 .. Len(got), NEW x \in Writers PROVE CountOf(x, y, i) = CountOf(x, got, i)
  <2>1. i \in Nat /\ \A k \in 1 .. i : y[k] = got[k]
    BY <1>4, <1>5
  <2> QED
    BY <2>1, CountSame
<1>8. \A i \in DOMAIN got : \E x \in Writers : IsPayloadOf(x, got[i])
  BY <1>3, <1>5, <1>6 DEF Delivered
<1>9. ASSUME NEW x \in Writers, NEW i \in DOMAIN got, IsPayloadOf(x, got[i])
      PROVE  \E j \in DOMAIN Payloads[x] : /\ Payloads[x][j] = [cid |-> AttCid, b |-> got[i]]
                                           /\ AttCount(x, j) = CountOf(x, got, i)
  <2>1. i \in 1 .. Len(y) /\ y[i] = got[i] /\ CountOf(x, y, i) = CountOf(x, got, i)
    BY <1>5, <1>6, <1>7
  <2>2. PICK j \in DOMAIN Payloads[x] : /\ Payloads[x][j] = [cid |-> AttCid, b |-> y[i]]
                                        /\ AttCount(x, j) = CountOf(x, y, i)
    BY <1>3, <1>9, <2>1 DEF Delivered
  <2> QED
    BY <2>1, <2>2
<1> QED
  BY <1>8, <1>9

\* Whatever the sizes of packets, payloads and channels, however the writers, the two
\* controllers, conn.loop and Read interleave, and whether the link is lost: as long as
\* the packets of two frames have not been mixed, Read returns payloads that were
\* written, whole, those of one writer in order and with none left out between them
\* (conn.write, conn.loop, conn.Read).
THEOREM FramesArriveWhole ==
  ASSUME ShortPadding, LengthsFit, Distinct
  PROVE  Spec => []ReadsWhatWasWritten
BY TypeInit, TypeStep, WireInit, WireStep, WireReads, PTL DEF Spec

-----------------------------------------------------------------------------
(* The buffers of the HCI main loop (PacketPool).                          *)

\* Besides one owner per buffer, the goroutine of an event that has not put its
\* buffer back still finds its own packet there, and so does mainLoop.
OwnContent ==
  /\ mpc = "handle" => npkts \in Packets /\ content[mbuf] = npkts
  /\ \A p \in Packets : Running(p) => content[gbuf[p]] = p
  /\ \A p \in Packets : p > npkts => gpc[p] = "none" /\ kind[p] = None
  /\ \A p \in Packets : gpc[p] # "none" => kind[p] \in {"direct", "late"}
  /\ mpc = "handle" => gpc[npkts] = "none"
  /\ \A p \in late : kind[p] = "late"

\* The inductive invariant.
PoolInv == PoolTypeOK /\ OneOwner /\ OwnContent

\* Put adds its buffer at the end of the pool or leaves the pool as it was.
LEMMA PutAdds ==
  ASSUME NEW b \in Bufs, pool \in Seq(Bufs), Len(pool) <= Depth, Put(b)
  PROVE  /\ pool' \in Seq(Bufs) /\ Len(pool') <= Depth
         /\ pool' = pool \/ pool' = Append(pool, b)
BY PoolAssumption DEF Put

\* A buffer that nobody else owns, appended to the pool, leaves it without
\* duplicates.
LEMMA AppendOnce ==
  ASSUME NEW b \in Bufs, pool \in Seq(Bufs), ~ InPool(b), pool' = Append(pool, b),
         \A i, j \in DOMAIN pool : pool[i] = pool[j] => i = j
  PROVE  /\ \A i, j \in DOMAIN pool' : pool'[i] = pool'[j] => i = j
         /\ \A c \in Bufs : InPool(c)' => InPool(c) \/ c = b
<1>1. DOMAIN pool = 1 .. Len(pool) /\ DOMAIN pool' = 1 .. Len(pool) + 1 /\ Len(pool) \in Nat
  OBVIOUS
<1>2. \A i \in 1 .. Len(pool) : pool'[i] = pool[i] /\ pool[i] # b
  BY <1>1 DEF InPool
<1>3. pool'[Len(pool) + 1] = b
  OBVIOUS
<1>4. \A i, j \in DOMAIN pool' : pool'[i] = pool'[j] => i = j
  BY <1>1, <1>2, <1>3
<1>5. \A c \in Bufs : InPool(c)' => InPool(c) \/ c = b
  BY <1>1, <1>2, <1>3 DEF InPool
<1> QED
  BY <1>4, <1>5

\* Taking the first buffer out of the pool leaves the others there.
LEMMA TailOnce ==
  ASSUME pool \in Seq(Bufs), pool # <<>>, pool' = Tail(pool),
         \A i, j \in DOMAIN pool : pool[i] = pool[j] => i = j
  PROVE  /\ pool' \in Seq(Bufs) /\ Head(pool) \in Bufs /\ Len(pool') <= Len(pool)
         /\ \A i, j \in DOMAIN pool' : pool'[i] = pool'[j] => i = j
         /\ \A c \in Bufs : InPool(c)' => InPool(c) /\ c # Head(pool)
         /\ InPool(Head(pool))
<1>1. /\ DOMAIN pool = 1 .. Len(pool) /\ DOMAIN pool' = 1 .. Len(pool) - 1
      /\ Len(pool) \in Nat \ {0} /\ pool' \in Seq(Bufs) /\ Len(pool') = Len(pool) - 1
  OBVIOUS
<1>2. \A i \in 1 .. Len(pool) - 1 : pool'[i] = pool[i + 1]
  OBVIOUS
<1>3. Head(pool) = pool[1] /\ Head(pool) \in Bufs
  BY <1>1
<1>4. \A i, j \in DOMAIN pool' : pool'[i] = pool'[j] => i = j
  <2>1. SUFFICES ASSUME NEW i \in DOMAIN pool', NEW j \in DOMAIN pool', pool'[i] = pool'[j]
                 PROVE  i = j
    OBVIOUS
  <2>2. i + 1 \in DOMAIN pool /\ j + 1 \in DOMAIN pool /\ pool[i + 1] = pool[j + 1]
    BY <1>1, <1>2, <2>1
  <2>3. i + 1 = j + 1
    BY <2>2
  <2> QED
    BY <1>1, <2>3
<1>5. \A c \in Bufs : InPool(c)' => InPool(c) /\ c # Head(pool)
  <2>1. SUFFICES ASSUME NEW c \in Bufs, NEW i \in DOMAIN pool', pool'[i] = c
                 PROVE  InPool(c) /\ c # Head(pool)
    BY DEF InPool
  <2>2. i + 1 \in DOMAIN pool /\ i + 1 # 1 /\ 1 \in DOMAIN pool /\ pool[i + 1] = c
    BY <1>1, <1>2, <2>1
  <2> QED
    BY <1>3, <2>2 DEF InPool
<1>6. InPool(Head(pool))
  BY <1>1, <1>3 DEF InPool
<1> QED
  BY <1>1, <1>3, <1>4, <1>5, <1>6

\* Every step keeps the invariant.
LEMMA PoolStep ==
  PoolInv /\ EarlyIntact /\ [PoolNext]_poolVars => PoolInv' /\ EarlyIntact'
<1> SUFFICES ASSUME PoolInv, EarlyIntact, [PoolNext]_poolVars PROVE PoolInv' /\ EarlyIntact'
  OBVIOUS
<1> USE PoolAssumption
<1>0. PoolTypeOK /\ OneOwner /\ OwnContent
  BY DEF PoolInv
<1>1. CASE Get
  <2>0. mbuf' \in Bufs /\ pool' \in Seq(Bufs) /\ Len(pool') <= Depth
    BY <1>0, <1>1, TailOnce DEF Get, PoolTypeOK, OneOwner
  <2>1. /\ \A i, j \in DOMAIN pool' : pool'[i] = pool'[j] => i = j
        /\ \A c \in Bufs : InPool(c)' => InPool(c)
        /\ ~ InPool(mbuf)'
    <3>1. CASE pool # <<>>
      BY <1>0, <1>1, <2>0, <3>1, TailOnce DEF Get, PoolTypeOK, OneOwner
    <3>2. CASE pool = <<>>
      BY <1>0, <1>1, <2>0, <3>2 DEF Get, OneOwner, InPool, Reachable
    <3> QED
      BY <3>1, <3>2
  <2>2. \A p \in Packets : Running(p) => gbuf[p] # mbuf'
    <3>1. CASE pool # <<>>
      BY <1>0, <1>1, <3>1, TailOnce DEF Get, PoolTypeOK, OneOwner
    <3>2. CASE pool = <<>>
      BY <1>0, <1>1, <3>2 DEF Get, Reachable
    <3> QED
      BY <3>1, <3>2
  <2>3. PoolTypeOK'
    BY <1>0, <1>1, <2>0 DEF Get, PoolTypeOK, goroutines
  <2>4. OneOwner'
    BY <1>0, <1>1, <2>0, <2>1, <2>2 DEF Get, PoolTypeOK, OneOwner, Running, goroutines
  <2>5. OwnContent' /\ EarlyIntact'
    BY <1>0, <1>1 DEF Get, OwnContent, EarlyIntact, Running, goroutines
  <2> QED
    BY <2>3, <2>4, <2>5 DEF PoolInv
<1>2. CASE GetNil \/ ReadNothing \/ ReadError \/ Join \/ CloseConns
  <2>1. /\ UNCHANGED <<content, pool, open, npkts, goroutines>>
        /\ mbuf' \in {mbuf, None} /\ mpc' \in {"get", "exit", "done", mpc}
        /\ mpc' = mpc => mbuf' = mbuf
        /\ cpc' \in {cpc, "conns", "closed"}
    BY <1>2 DEF GetNil, ReadNothing, ReadError, Join, CloseConns
  <2>2. PoolTypeOK'
    BY <1>0, <2>1 DEF PoolTypeOK, goroutines
  <2>3. OneOwner'
    BY <1>0, <2>1 DEF PoolTypeOK, OneOwner, InPool, Running, goroutines
  <2>4. OwnContent' /\ EarlyIntact'
    BY <1>0, <2>1 DEF OwnContent, EarlyIntact, Running, goroutines
  <2> QED
    BY <2>2, <2>3, <2>4 DEF PoolInv
<1>3. ASSUME NEW k \in Kinds, ReadPacket(k) PROVE PoolInv' /\ EarlyIntact'
  <2>1. npkts + 1 \in Packets /\ npkts' = npkts + 1 /\ mbuf \in Bufs
    BY <1>0, <1>3 DEF ReadPacket, PoolTypeOK, Packets
  <2>2. PoolTypeOK'
    BY <1>0, <1>3, <2>1 DEF ReadPacket, PoolTypeOK
  <2>3. OneOwner'
    BY <1>0, <1>3 DEF ReadPacket, OneOwner, InPool, Running
  <2>4. OwnContent'
    BY <1>0, <1>3, <2>1 DEF ReadPacket, PoolTypeOK, OneOwner, OwnContent, Running, Packets, AllKinds
  <2>5. EarlyIntact'
    BY <1>0, <1>3, <2>1 DEF ReadPacket, PoolTypeOK, OwnContent, EarlyIntact, Packets, AllKinds
  <2> QED
    BY <2>2, <2>3, <2>4, <2>5 DEF PoolInv
<1>4. CASE HandleHere
  <2>1. npkts \in Packets /\ mbuf \in Bufs /\ ~ InPool(mbuf) /\ content[mbuf] = npkts
    BY <1>0, <1>4 DEF HandleHere, PoolTypeOK, OneOwner, OwnContent
  <2>2. pool' \in Seq(Bufs) /\ Len(pool') <= Depth /\ (pool' = pool \/ pool' = Append(pool, mbuf))
    BY <1>0, <1>4, <2>1, PutAdds DEF HandleHere, PoolTypeOK
  <2>3. PoolTypeOK'
    BY <1>0, <1>4, <2>1, <2>2 DEF HandleHere, PoolTypeOK
  <2>4. /\ \A i, j \in DOMAIN pool' : pool'[i] = pool'[j] => i = j
        /\ \A c \in Bufs : InPool(c)' => InPool(c) \/ c = mbuf
    BY <1>0, <2>1, <2>2, AppendOnce DEF PoolTypeOK, OneOwner, InPool
  <2>5. OneOwner'
    BY <1>0, <1>4, <2>1, <2>4 DEF HandleHere, PoolTypeOK, OneOwner, Running
  <2>6. OwnContent' /\ EarlyIntact'
    BY <1>0, <1>4, <2>1 DEF HandleHere, PoolTypeOK, OwnContent, EarlyIntact, Running
  <2> QED
    BY <2>3, <2>5, <2>6 DEF PoolInv
<1>5. CASE StartDispatch
  <2>1. npkts \in Packets /\ mbuf \in Bufs /\ ~ InPool(mbuf) /\ content[mbuf] = npkts
    BY <1>0, <1>5 DEF StartDispatch, PoolTypeOK, OneOwner, OwnContent
  <2>2. PoolTypeOK'
    BY <1>0, <1>5, <2>1 DEF StartDispatch, PoolTypeOK
  <2>3. OneOwner'
    BY <1>0, <1>5, <2>1 DEF StartDispatch, PoolTypeOK, OneOwner, OwnContent, InPool, Running
  <2>4. OwnContent' /\ EarlyIntact'
    BY <1>0, <1>5, <2>1 DEF StartDispatch, PoolTypeOK, OwnContent, EarlyIntact, Running, Packets
  <2> QED
    BY <2>2, <2>3, <2>4 DEF PoolInv
<1>6. ASSUME NEW p \in Packets, Dispatch(p) PROVE PoolInv' /\ EarlyIntact'
  <2>1. gbuf[p] \in Bufs /\ content[gbuf[p]] = p /\ kind[p] \in {"direct", "late"}
    BY <1>0, <1>6 DEF Dispatch, PoolTypeOK, OwnContent, Running
  <2>2. PoolTypeOK'
    BY <1>0, <1>6, <2>1 DEF Dispatch, PoolTypeOK
  <2>3. OneOwner'
    BY <1>0, <1>6 DEF Dispatch, PoolTypeOK, OneOwner, InPool, Running
  <2>4. EarlyIntact'
    BY <1>0, <1>6, <2>1 DEF Dispatch, PoolTypeOK, EarlyIntact
  <2>5. OwnContent'
    BY <1>0, <1>6, <2>1 DEF Dispatch, PoolTypeOK, OwnContent, Running
  <2> QED
    BY <2>2, <2>3, <2>4, <2>5 DEF PoolInv
<1>7. ASSUME NEW p \in Packets, PutBack(p) PROVE PoolInv' /\ EarlyIntact'
  <2>1. gbuf[p] \in Bufs /\ ~ InPool(gbuf[p]) /\ gbuf[p] # mbuf
    BY <1>0, <1>7 DEF PutBack, PoolTypeOK, OneOwner, Running
  <2>2. pool' \in Seq(Bufs) /\ Len(pool') <= Depth
          /\ (pool' = pool \/ pool' = Append(pool, gbuf[p]))
    BY <1>0, <1>7, <2>1, PutAdds DEF PutBack, PoolTypeOK
  <2>3. PoolTypeOK'
    BY <1>0, <1>7, <2>2 DEF PutBack, PoolTypeOK
  <2>4. /\ \A i, j \in DOMAIN pool' : pool'[i] = pool'[j] => i = j
        /\ \A c \in Bufs : InPool(c)' => InPool(c) \/ c = gbuf[p]
    BY <1>0, <2>1, <2>2, AppendOnce DEF PoolTypeOK, OneOwner, InPool
  <2>5. OneOwner'
    BY <1>0, <1>7, <2>1, <2>4 DEF PutBack, PoolTypeOK, OneOwner, Running
  <2>6. OwnContent' /\ EarlyIntact'
    BY <1>0, <1>7 DEF PutBack, PoolTypeOK, OwnContent, EarlyIntact, Running, Packets
  <2> QED
    BY <2>3, <2>5, <2>6 DEF PoolInv
<1>8. ASSUME NEW p \in Packets, LookLater(p) PROVE PoolInv' /\ EarlyIntact'
  <2>1. PoolTypeOK'
    BY <1>0, <1>8 DEF LookLater, PoolTypeOK
  <2>2. OneOwner'
    BY <1>0, <1>8 DEF LookLater, OneOwner, InPool, Running
  <2>3. OwnContent' /\ EarlyIntact'
    BY <1>0, <1>8 DEF LookLater, PoolTypeOK, OwnContent, EarlyIntact, Running
  <2> QED
    BY <2>1, <2>2, <2>3 DEF PoolInv
<1>9. CASE ClosePool
  <2>1. PoolTypeOK'
    <3>1. pool' \in Seq(Bufs) /\ Len(pool') <= Depth
      BY <1>9 DEF ClosePool
    <3> QED
      BY <1>0, <1>9, <3>1 DEF ClosePool, PoolTypeOK, goroutines
  <2>2. OneOwner'
    BY <1>0, <1>9 DEF ClosePool, OneOwner, InPool, Running, goroutines
  <2>3. OwnContent' /\ EarlyIntact'
    BY <1>0, <1>9 DEF ClosePool, OwnContent, EarlyIntact, Running, goroutines
  <2> QED
    BY <2>1, <2>2, <2>3 DEF PoolInv
<1>10. CASE UNCHANGED poolVars
  BY <1>0, <1>10 DEF PoolInv, PoolTypeOK, OneOwner, OwnContent, EarlyIntact, InPool, Running,
                     poolVars, goroutines
<1> QED
  BY <1>1, <1>2, <1>3, <1>4, <1>5, <1>6, <1>7, <1>8, <1>9, <1>10
     DEF PoolNext, MainStep, EventStep, CloseStep

\* No buffer has an owner at first.
LEMMA PoolAtFirst == PoolInit => PoolInv /\ EarlyIntact
BY PoolAssumption DEF PoolInit, PoolInv, PoolTypeOK, OneOwner, OwnContent, EarlyIntact, InPool, Running,
                      Packets

\* Every buffer of the main loop has one owner at a time: mainLoop, the goroutine
\* of one event, or the pool, where it is once.  No packet is read into a buffer
\* that a Dispatch still works on (mainLoop, handlePacket, BytePool).
THEOREM BuffersOwned == PoolSpec => []OneOwner
<1>1. PoolInv => OneOwner
  BY DEF PoolInv
<1> QED
  BY <1>1, PoolAtFirst, PoolStep, PTL DEF PoolSpec

\* A handler that parses its event before it returns, and handleL2CAP, find the
\* packet that was read for them.
THEOREM HandlersSeeTheirPacket == PoolSpec => []EarlyIntact
BY PoolAtFirst, PoolStep, PTL DEF PoolSpec
=============================================================================
