--------------------------- MODULE AttClientProofs ---------------------------
(***************************************************************************)
(* Proofs about AttClient, for any number of callers and handles and any   *)
(* bounds.                                                                 *)
(***************************************************************************)
EXTENDS AttClient, TLAPS

(* The bounded events keep their counters natural numbers. *)
LEMMA SpendType ==
  ASSUME TypeOK, NEW b \in Bounded, Spend(b)
  PROVE  used' \in [Bounded -> Nat]
BY DEF TypeOK, Spend

(* A write to the connection appends one PDU, or none when it is down. *)
LEMMA WriteType ==
  ASSUME TypeOK, NEW t, NEW m, [t |-> t, m |-> m] \in OutPdus, Write(t, m)
  PROVE  toPeer' \in Seq(OutPdus)
BY DEF TypeOK, Write

(* What the peer can be sent, and what it can answer. *)
LEMMA PduTypes ==
  /\ \A m \in Messages : [t |-> "req", m |-> m] \in OutPdus /\ [t |-> "cmd", m |-> m] \in OutPdus
  /\ [t |-> "cnf", m |-> None] \in OutPdus /\ [t |-> "rej", m |-> None] \in OutPdus
  /\ \A p \in OutPdus : p.t \in {"req", "cmd"} => p.m \in Messages
  /\ \A m \in Messages :
       /\ InPdu("rsp", attRespFor(Opcode(m.kind)), m.id, None) \in InPdus
       /\ InPdu("err", Opcode(m.kind), m.id, None) \in InPdus
  /\ \A h \in Handles :
       InPdu("ntf", "none", None, h) \in InPdus /\ InPdu("ind", "none", None, h) \in InPdus
  /\ InPdu("req", "MtuReq", None, None) \in InPdus
<1>1. \A m \in Messages : m.kind \in Kinds /\ m.id \in ReqIds /\ m.h \in Handles
  BY DEF Messages
<1>2. \A k \in Kinds : Opcode(k) \in AnswerOps /\ attRespFor(Opcode(k)) \in AnswerOps
  BY DEF Kinds, Opcode, attRespFor, AnswerOps
<1>3. \A m \in Messages : InPdu("rsp", attRespFor(Opcode(m.kind)), m.id, None) \in InPdus
  BY <1>1, <1>2 DEF InPdu, InPdus
<1>4. \A m \in Messages : InPdu("err", Opcode(m.kind), m.id, None) \in InPdus
  BY <1>1, <1>2 DEF InPdu, InPdus
<1>5. \A h \in Handles : InPdu("ntf", "none", None, h) \in InPdus
                       /\ InPdu("ind", "none", None, h) \in InPdus
  BY DEF InPdu, InPdus
<1>6. InPdu("req", "MtuReq", None, None) \in InPdus
  BY DEF InPdu, InPdus
<1>7. \A m \in Messages : [t |-> "req", m |-> m] \in OutPdus /\ [t |-> "cmd", m |-> m] \in OutPdus
  BY DEF OutPdus
<1>8. [t |-> "cnf", m |-> None] \in OutPdus /\ [t |-> "rej", m |-> None] \in OutPdus
  BY DEF OutPdus
<1>9. \A p \in OutPdus : p.t \in {"req", "cmd"} => p.m \in Messages
  BY DEF OutPdus
<1> QED
  BY <1>3, <1>4, <1>5, <1>6, <1>7, <1>8, <1>9

(* TypeOK is inductive: every goroutine of the client has its locals in    *)
(* scope whenever it uses them.                                            *)
THEOREM TypeCorrect == Spec => []TypeOK
<1>1. Init => TypeOK
  <2> SUFFICES ASSUME Init PROVE TypeOK
    OBVIOUS
  <2>1. ncalls \in [Callers -> 0 .. MaxCalls] /\ used \in [Bounded -> Nat]
    BY ClientAssumption DEF Init
  <2>2. ccc \in [Handles -> BOOLEAN]
    BY Zenon DEF Init
  <2>3. toPeer \in Seq(OutPdus) /\ fromPeer \in Seq(InPdus)
    BY DEF Init
  <2> QED
    BY <2>1, <2>2, <2>3 DEF Init, TypeOK
<1>2. TypeOK /\ [Next]_vars => TypeOK'
  <2> SUFFICES ASSUME TypeOK, [Next]_vars PROVE TypeOK'
    OBVIOUS
  <2> USE DEF client, listener, reader, peer
  <2>1. ASSUME NEW c \in Callers, NEW k \in Kinds, NEW h \in Handles, StartCall(c, k, h)
        PROVE  TypeOK'
    <3> DEFINE m == [kind |-> k, h |-> h, id |-> <<c, ncalls[c] + 1>>]
    <3>1. ncalls[c] + 1 \in 1 .. MaxCalls
      BY <2>1, ClientAssumption DEF TypeOK, StartCall
    <3>2. m \in Messages /\ m # None
      BY <3>1, ClientAssumption DEF Messages, ReqIds
    <3>3. call' = [call EXCEPT ![c] = m] /\ cpc' = [cpc EXCEPT ![c] = "send"]
      BY <2>1 DEF StartCall
    <3> HIDE DEF m
    <3>4. call' \in [Callers -> Messages \cup {None}] /\ \A d \in Callers : call'[d] = None => cpc'[d] = "idle"
      BY <3>2, <3>3 DEF TypeOK
    <3> QED
      BY <2>1, <3>1, <3>4 DEF TypeOK, StartCall
  <2>2. ASSUME NEW c \in Callers, Submit(c) PROVE TypeOK'
    BY <2>2 DEF TypeOK, Submit
  <2>3. ASSUME NEW c \in Callers, Receive(c) PROVE TypeOK'
    BY <2>3 DEF TypeOK, Receive, InPdus
  <2>4. ASSUME NEW c \in Callers, Unsubscribe(c) PROVE TypeOK'
    BY <2>4 DEF TypeOK, Unsubscribe, Messages
  <2>5. ASSUME NEW c \in Callers, Cancel(c) PROVE TypeOK'
    <3>1. used' \in [Bounded -> Nat]
      BY <2>5, SpendType DEF Cancel, Bounded
    <3> QED
      BY <2>5, <3>1 DEF TypeOK, Cancel
  <2>6. CASE ListenerWrite
    BY <2>6, WriteType, PduTypes, ZenonT(60) DEF TypeOK, ListenerWrite
  <2>7. CASE AcceptResponse
    BY <2>7 DEF TypeOK, AcceptResponse
  <2>8. CASE MismatchedResponse
    BY <2>8 DEF TypeOK, MismatchedResponse
  <2>9. CASE Reject
    BY <2>9, WriteType, PduTypes DEF TypeOK, Reject
  <2>10. CASE ListenerExit
    BY <2>10 DEF TypeOK, ListenerExit
  <2>11. CASE ReaderRead
    <3>1. Head(fromPeer) \in InPdus /\ Tail(fromPeer) \in Seq(InPdus)
      BY <2>11 DEF TypeOK, ReaderRead
    <3> QED
      BY <2>11, <3>1, ClientAssumption DEF TypeOK, ReaderRead
  <2>12. CASE Dispatch
    BY <2>12 DEF TypeOK, Dispatch
  <2>13. CASE Confirm
    BY <2>13, WriteType, PduTypes DEF TypeOK, Confirm
  <2>14. CASE ReaderQuit
    BY <2>14 DEF TypeOK, ReaderQuit
  <2>15. CASE PeerAnswer
    <3> DEFINE m == Head(toPeer).m
    <3>1. Head(toPeer) \in OutPdus /\ Tail(toPeer) \in Seq(OutPdus)
      BY <2>15 DEF TypeOK, PeerAnswer
    <3>2. m \in Messages
      BY <3>1, <2>15, PduTypes DEF PeerAnswer
    <3>3. PICK p \in InPdus : fromPeer' = Append(fromPeer, p)
      BY <2>15, <3>2, PduTypes DEF PeerAnswer
    <3>5. fromPeer' \in Seq(InPdus)
      BY <3>3 DEF TypeOK
    <3>4. ccc' \in [Handles -> BOOLEAN]
      BY <2>15, <3>2 DEF PeerAnswer, TypeOK, Messages
    <3> QED
      BY <2>15, <3>1, <3>3, <3>4, <3>5 DEF TypeOK, PeerAnswer
  <2>16. CASE PeerTake
    BY <2>16 DEF TypeOK, PeerTake
  <2>17. ASSUME NEW h \in Handles, PeerNotify(h) PROVE TypeOK'
    <3>1. used' \in [Bounded -> Nat]
      BY <2>17, SpendType DEF PeerNotify, Bounded
    <3>2. PICK p \in InPdus : fromPeer' = Append(fromPeer, p)
      BY <2>17, PduTypes DEF PeerNotify
    <3>3. fromPeer' \in Seq(InPdus)
      BY <3>2 DEF TypeOK
    <3>4. indOut' \in BOOLEAN
      BY <2>17 DEF TypeOK, PeerNotify
    <3> QED
      BY <2>17, <3>1, <3>3, <3>4 DEF TypeOK, PeerNotify
  <2>18. CASE PeerRequest
    <3>1. used' \in [Bounded -> Nat]
      BY <2>18, SpendType DEF PeerRequest, Bounded
    <3> QED
      BY <2>18, <3>1, PduTypes DEF TypeOK, PeerRequest
  <2>19. CASE LinkDrop
    <3>1. used' \in [Bounded -> Nat]
      BY <2>19, SpendType DEF LinkDrop, Bounded
    <3>2. toPeer' \in Seq(OutPdus)
      BY <2>19 DEF LinkDrop
    <3>3. link' \in BOOLEAN
      BY <2>19 DEF LinkDrop
    <3>4. UNCHANGED <<client, listener, reader, peer, sub, fromPeer, ctxDone>>
      BY <2>19 DEF LinkDrop
    <3> QED
      BY <3>1, <3>2, <3>3, <3>4 DEF TypeOK
  <2>20. CASE LoopCtxDone
    <3>1. used' \in [Bounded -> Nat]
      BY <2>20, SpendType DEF LoopCtxDone, Bounded
    <3> QED
      BY <2>20, <3>1 DEF TypeOK, LoopCtxDone
  <2>21. CASE UNCHANGED vars
    BY <2>21 DEF TypeOK, vars
  <2> QED
    BY <2>1, <2>2, <2>3, <2>4, <2>5, <2>6, <2>7, <2>8, <2>9, <2>10, <2>11, <2>12,
       <2>13, <2>14, <2>15, <2>16, <2>17, <2>18, <2>19, <2>20, <2>21
       DEF Next, CallerStep, ListenerStep, ReaderStep, PeerStep
<1> QED
  BY <1>1, <1>2, PTL DEF Spec

-----------------------------------------------------------------------------
(* Effect of each kind of write on the PDUs in flight.                     *)

LEMMA WriteOther ==
  ASSUME TypeOK, NEW t, NEW m, [t |-> t, m |-> m] \in OutPdus, Write(t, m), t # "req"
  PROVE  OutReqs' = OutReqs /\ \A i \in OutReqs : toPeer'[i] = toPeer[i]
BY DEF TypeOK, Write, OutReqs

LEMMA WriteRequest ==
  ASSUME TypeOK, NEW m \in Messages, Write("req", m), OutReqs = {}
  PROVE  /\ \A i, j \in OutReqs' : i = j
         /\ \A i \in OutReqs' : toPeer'[i].m = m
<1>1. CASE ~ link
  BY <1>1 DEF Write, OutReqs
<1>2. CASE link
  <2> DEFINE p == [t |-> "req", m |-> m]
  <2>1. toPeer' = Append(toPeer, p) /\ toPeer \in Seq(OutPdus) /\ p \in OutPdus
    BY <1>2, PduTypes DEF Write, TypeOK
  <2>2. \A i \in OutReqs' : i = Len(toPeer) + 1
    BY <2>1 DEF OutReqs
  <2>3. toPeer'[Len(toPeer) + 1] = p
    BY <2>1
  <2> QED
    BY <2>2, <2>3
<1> QED
  BY <1>1, <1>2

LEMMA SendOther ==
  ASSUME TypeOK, NEW p \in InPdus, ~ IsAnswer(p), fromPeer' = Append(fromPeer, p)
  PROVE  Answers' = Answers /\ \A i \in Answers : fromPeer'[i] = fromPeer[i]
BY DEF TypeOK, Answers

(* Between them they are inductive: the listener serves a message only when *)
(* nothing is in flight, and the answer in flight is to the message served. *)
THEOREM ResponsesAreOwn == Spec => [](SequentialRequests /\ OwnResponse)
<1> DEFINE Inv == SequentialRequests /\ OwnResponse
<1>1. Init => Inv
  BY DEF Init, SequentialRequests, OwnResponse, OutReqs, Answers, InHand
<1>2. TypeOK /\ TypeOK' /\ Inv /\ [Next]_vars => Inv'
  <2> SUFFICES ASSUME TypeOK, TypeOK', Inv, [Next]_vars PROVE Inv'
    OBVIOUS
  <2> USE DEF client, listener, reader, peer
  <2>0. ASSUME UNCHANGED <<toPeer, fromPeer>>
        PROVE  /\ OutReqs' = OutReqs /\ \A i \in OutReqs : toPeer'[i] = toPeer[i]
               /\ Answers' = Answers /\ \A i \in Answers : fromPeer'[i] = fromPeer[i]
    BY <2>0 DEF OutReqs, Answers
  <2>1. ASSUME NEW c \in Callers, NEW k \in Kinds, NEW h \in Handles, StartCall(c, k, h)
        PROVE  Inv'
    BY <2>0, <2>1 DEF TypeOK, StartCall, SequentialRequests, OwnResponse, InHand
  <2>2. ASSUME NEW c \in Callers, Submit(c) PROVE Inv'
    BY <2>0, <2>2 DEF Submit, SequentialRequests, OwnResponse, InHand
  <2>3. ASSUME NEW c \in Callers, Receive(c) PROVE Inv'
    BY <2>0, <2>3 DEF TypeOK, Receive, SequentialRequests, OwnResponse, InHand
  <2>4. ASSUME NEW c \in Callers, Unsubscribe(c) PROVE Inv'
    BY <2>0, <2>4 DEF Unsubscribe, SequentialRequests, OwnResponse, InHand
  <2>5. ASSUME NEW c \in Callers, Cancel(c) PROVE Inv'
    BY <2>0, <2>5 DEF Cancel, SequentialRequests, OwnResponse, InHand
  <2>6. CASE ListenerWrite
    <3>1. lreq \in Messages
      BY <2>6 DEF TypeOK, ListenerWrite
    <3>2. OutReqs = {} /\ Answers = {} /\ ~ InHand
      BY <2>6 DEF ListenerWrite, SequentialRequests
    <3>3. Answers' = {} /\ ~ InHand'
      BY <2>6, <3>2 DEF ListenerWrite, Answers, InHand
    <3>4. CASE lreq.kind = "cmd"
      <4>1. OutReqs' = {}
        BY <2>6, <3>1, <3>2, <3>4, WriteOther, PduTypes DEF ListenerWrite
      <4> QED
        BY <2>6, <3>3, <3>4, <4>1 DEF ListenerWrite, SequentialRequests, OwnResponse
    <3>5. CASE lreq.kind # "cmd"
      BY <2>6, <3>1, <3>2, <3>3, <3>5, WriteRequest
         DEF ListenerWrite, SequentialRequests, OwnResponse
    <3> QED
      BY <3>4, <3>5
  <2>7. CASE AcceptResponse
    <3>1. InHand
      BY <2>7 DEF AcceptResponse, Matches, InHand, IsAnswer
    <3> QED
      BY <2>0, <2>7, <3>1 DEF AcceptResponse, SequentialRequests, OwnResponse, InHand
  <2>8. CASE MismatchedResponse
    BY <2>0, <2>8 DEF MismatchedResponse, SequentialRequests, OwnResponse, InHand
  <2>9. CASE Reject
    <3>1. OutReqs' = OutReqs /\ \A i \in OutReqs : toPeer'[i] = toPeer[i]
      BY <2>9, WriteOther, PduTypes DEF Reject
    <3>2. Answers' = Answers /\ InHand' = InHand
      BY <2>9 DEF Reject, Answers, InHand
    <3> QED
      BY <2>9, <3>1, <3>2 DEF Reject, SequentialRequests, OwnResponse
  <2>10. CASE ListenerExit
    BY <2>0, <2>10 DEF ListenerExit, SequentialRequests, OwnResponse, InHand
  <2>11. CASE ReaderRead
    <3>1. OutReqs' = OutReqs /\ ~ InHand
      BY <2>11 DEF ReaderRead, OutReqs, InHand
    <3>2. /\ fromPeer \in Seq(InPdus) /\ fromPeer # <<>> /\ fromPeer' = Tail(fromPeer)
          /\ Head(fromPeer) = fromPeer[1] /\ rmsg' = fromPeer[1]
      BY <2>11 DEF ReaderRead, TypeOK
    <3>3. \A i \in Answers' : i + 1 \in Answers /\ fromPeer'[i] = fromPeer[i + 1] /\ i \in Nat \ {0}
      BY <3>2 DEF Answers
    <3>4. IsAnswer(fromPeer[1]) => 1 \in Answers
      BY <3>2 DEF Answers
    <3>5. CASE IsAnswer(fromPeer[1])
      <4>1. Answers' = {}
        BY <3>3, <3>4, <3>5 DEF SequentialRequests
      <4>2. OutReqs = {} /\ rmsg'.id = lreq.id /\ lpc \in {"await", "reject"}
        BY <3>2, <3>4, <3>5 DEF SequentialRequests
      <4> QED
        BY <2>11, <3>1, <4>1, <4>2 DEF ReaderRead, SequentialRequests, OwnResponse
    <3>6. CASE ~ IsAnswer(fromPeer[1])
      <4>1. ~ InHand'
        BY <3>2, <3>6 DEF InHand
      <4>2. \A i, j \in Answers' : i = j
        BY <3>3 DEF SequentialRequests
      <4>3. Answers' # {} => Answers # {}
        BY <3>3
      <4>4. \A i \in Answers' : fromPeer'[i].id = lreq.id
        BY <3>3 DEF SequentialRequests
      <4> QED
        BY <2>11, <3>1, <4>1, <4>2, <4>3, <4>4 DEF ReaderRead, SequentialRequests, OwnResponse
    <3> QED
      BY <3>5, <3>6
  <2>12. CASE Dispatch
    BY <2>0, <2>12 DEF Dispatch, SequentialRequests, OwnResponse, InHand
  <2>13. CASE Confirm
    <3>1. OutReqs' = OutReqs /\ \A i \in OutReqs : toPeer'[i] = toPeer[i]
      BY <2>13, WriteOther, PduTypes DEF Confirm
    <3>2. Answers' = Answers /\ ~ InHand /\ ~ InHand'
      BY <2>13 DEF Confirm, Answers, InHand
    <3> QED
      BY <2>13, <3>1, <3>2 DEF Confirm, SequentialRequests, OwnResponse
  <2>14. CASE ReaderQuit
    BY <2>0, <2>14 DEF ReaderQuit, SequentialRequests, OwnResponse, InHand
  <2>15. CASE PeerAnswer
    <3> DEFINE m == Head(toPeer).m
    <3>1. toPeer \in Seq(OutPdus) /\ toPeer # <<>> /\ toPeer' = Tail(toPeer) /\ 1 \in OutReqs
      BY <2>15 DEF PeerAnswer, TypeOK, OutReqs
    <3>2. Answers = {} /\ m = lreq /\ lpc \in {"await", "reject"} /\ ~ InHand
      BY <3>1 DEF SequentialRequests
    <3>3. OutReqs' = {}
      <4>1. \A i \in OutReqs' : i + 1 \in OutReqs /\ i \in Nat /\ i # 0
        BY <3>1 DEF OutReqs
      <4> QED
        BY <3>1, <4>1 DEF SequentialRequests
    <3>4. m \in Messages
      BY <2>15, <3>1, PduTypes DEF PeerAnswer
    <3>5. PICK p \in InPdus : fromPeer' = Append(fromPeer, p) /\ p.id = lreq.id
      BY <2>15, <3>2, <3>4, PduTypes DEF PeerAnswer, InPdu
    <3>6. \A i \in Answers' : i = Len(fromPeer) + 1
      BY <3>2, <3>5 DEF Answers, TypeOK
    <3>7. fromPeer'[Len(fromPeer) + 1] = p
      BY <3>5 DEF TypeOK
    <3>8. ~ InHand'
      BY <2>15, <3>2 DEF PeerAnswer, InHand
    <3> QED
      BY <2>15, <3>2, <3>3, <3>5, <3>6, <3>7, <3>8 DEF PeerAnswer, SequentialRequests, OwnResponse
  <2>16. CASE PeerTake
    <3>1. toPeer \in Seq(OutPdus) /\ toPeer # <<>> /\ toPeer' = Tail(toPeer)
      BY <2>16 DEF PeerTake, TypeOK
    <3>2. \A i \in OutReqs' : i + 1 \in OutReqs /\ toPeer'[i] = toPeer[i + 1] /\ i \in Nat
      BY <3>1 DEF OutReqs
    <3>3. Answers' = Answers /\ InHand' = InHand
      BY <2>16 DEF PeerTake, Answers, InHand
    <3>4. \A i, j \in OutReqs' : i = j
      BY <3>2 DEF SequentialRequests
    <3>5. OutReqs' # {} => OutReqs # {}
      BY <3>2
    <3>6. \A i \in OutReqs' : toPeer'[i].m = lreq
      BY <3>2 DEF SequentialRequests
    <3> QED
      BY <2>16, <3>3, <3>4, <3>5, <3>6 DEF PeerTake, SequentialRequests, OwnResponse
  <2>17. ASSUME NEW h \in Handles, PeerNotify(h) PROVE Inv'
    <3>1. PICK p \in InPdus : fromPeer' = Append(fromPeer, p) /\ ~ IsAnswer(p)
      BY <2>17, PduTypes DEF PeerNotify, InPdu, IsAnswer
    <3>2. OutReqs' = OutReqs /\ InHand' = InHand
      BY <2>17 DEF PeerNotify, OutReqs, InHand
    <3> QED
      BY <2>17, <3>1, <3>2, SendOther DEF PeerNotify, SequentialRequests, OwnResponse
  <2>18. CASE PeerRequest
    <3>1. PICK p \in InPdus : fromPeer' = Append(fromPeer, p) /\ ~ IsAnswer(p)
      BY <2>18, PduTypes DEF PeerRequest, InPdu, IsAnswer
    <3>2. OutReqs' = OutReqs /\ InHand' = InHand
      BY <2>18 DEF PeerRequest, OutReqs, InHand
    <3> QED
      BY <2>18, <3>1, <3>2, SendOther DEF PeerRequest, SequentialRequests, OwnResponse
  <2>19. CASE LinkDrop
    <3>1. OutReqs' = {} /\ Answers' = Answers /\ InHand' = InHand
      BY <2>19 DEF LinkDrop, OutReqs, Answers, InHand
    <3> QED
      BY <2>19, <3>1 DEF LinkDrop, SequentialRequests, OwnResponse
  <2>20. CASE LoopCtxDone
    BY <2>0, <2>20 DEF LoopCtxDone, SequentialRequests, OwnResponse, InHand
  <2>21. CASE UNCHANGED vars
    BY <2>0, <2>21 DEF vars, SequentialRequests, OwnResponse, InHand
  <2> QED
    BY <2>1, <2>2, <2>3, <2>4, <2>5, <2>6, <2>7, <2>8, <2>9, <2>10, <2>11, <2>12,
       <2>13, <2>14, <2>15, <2>16, <2>17, <2>18, <2>19, <2>20, <2>21
       DEF Next, CallerStep, ListenerStep, ReaderStep, PeerStep
<1> QED
  BY <1>1, <1>2, TypeCorrect, PTL DEF Spec
-----------------------------------------------------------------------------
(* Indications and confirmations.                                          *)

\* A write that is not a confirmation, or a PDU that is not an indication,
\* leaves the pending ones as they are.
LEMMA WriteNoCnf ==
  ASSUME TypeOK, NEW t, NEW m, [t |-> t, m |-> m] \in OutPdus, Write(t, m), t # "cnf"
  PROVE  Cnfs' = Cnfs
BY DEF TypeOK, Write, Cnfs

LEMMA SendNoInd ==
  ASSUME TypeOK, NEW p \in InPdus, p.t # "ind", fromPeer' = Append(fromPeer, p)
  PROVE  Inds' = Inds
BY DEF TypeOK, Inds

\* One element at most is left of a set of positions when a sequence loses its
\* head, and none when the head was among them.
LEMMA InTail ==
  ASSUME NEW S, NEW q \in Seq(S), q # <<>>, NEW T
  PROVE  LET In(r) == {i \in DOMAIN r : r[i].t = T}
         IN (\A i, j \in In(q) : i = j) =>
              /\ \A i, j \in In(Tail(q)) : i = j
              /\ In(Tail(q)) # {} => In(q) # {}
              /\ Head(q).t = T => In(q) # {} /\ In(Tail(q)) = {}
<1> DEFINE In(r) == {i \in DOMAIN r : r[i].t = T}
<1>1. /\ Head(q) = q[1] /\ 1 \in DOMAIN q
      /\ \A i \in DOMAIN Tail(q) : i \in Nat /\ i # 0 /\ i + 1 \in DOMAIN q /\ Tail(q)[i] = q[i + 1]
  OBVIOUS
<1>2. \A i \in In(Tail(q)) : i \in Nat /\ i # 0 /\ i + 1 \in In(q)
  BY <1>1
<1>3. Head(q).t = T => 1 \in In(q)
  BY <1>1
<1> HIDE DEF In
<1>4. ASSUME \A i, j \in In(q) : i = j
      PROVE  /\ \A i, j \in In(Tail(q)) : i = j
             /\ In(Tail(q)) # {} => In(q) # {}
             /\ Head(q).t = T => In(q) # {} /\ In(Tail(q)) = {}
  <2>1. \A i, j \in In(Tail(q)) : i = j
    <3>1. SUFFICES ASSUME NEW i \in In(Tail(q)), NEW j \in In(Tail(q)) PROVE i = j
      OBVIOUS
    <3>2. i + 1 = j + 1
      BY <1>2, <1>4
    <3> QED
      BY <1>2, <3>2
  <2>2. Head(q).t = T => In(Tail(q)) = {}
    <3>1. SUFFICES ASSUME Head(q).t = T, NEW i \in In(Tail(q)) PROVE FALSE
      OBVIOUS
    <3>2. i + 1 = 1
      BY <1>2, <1>3, <1>4, <3>1
    <3> QED
      BY <1>2, <3>2
  <2> QED
    BY <1>2, <1>3, <2>1, <2>2
<1> QED
  BY <1>4 DEF In

\* However notifications, indications, requests and rejections interleave, the
\* reader confirms an indication exactly once (peripheral.loop).
THEOREM IndicationsConfirmedOnce == Spec => []ConfirmedOnce
<1> DEFINE Inv == ConfirmedOnce /\ (rpc = "confirm" => rmsg.t = "ind")
<1>1. Init => Inv
  BY DEF Init, ConfirmedOnce, Cnfs, Inds, IndHeld
<1>2. TypeOK /\ TypeOK' /\ Inv /\ [Next]_vars => Inv'
  <2> SUFFICES ASSUME TypeOK, TypeOK', Inv, [Next]_vars PROVE Inv'
    OBVIOUS
  <2> USE DEF client, listener, reader, peer
  <2>0. ASSUME UNCHANGED <<toPeer, fromPeer>> PROVE Cnfs' = Cnfs /\ Inds' = Inds
    BY <2>0 DEF Cnfs, Inds
  <2>1. ASSUME NEW c \in Callers, NEW k \in Kinds, NEW h \in Handles, StartCall(c, k, h)
        PROVE  Inv'
    BY <2>0, <2>1 DEF StartCall, ConfirmedOnce, IndHeld
  <2>2. ASSUME NEW c \in Callers, CallerStep(c) \/ Cancel(c) PROVE Inv'
    BY <2>0, <2>2 DEF CallerStep, Submit, Receive, Unsubscribe, Cancel, ConfirmedOnce, IndHeld
  <2>3. CASE ListenerWrite \/ Reject
    <3>1. Cnfs' = Cnfs
      <4>1. CASE ListenerWrite
        <5>1. lreq \in Messages
          BY <4>1 DEF TypeOK, ListenerWrite
        <5> QED
          BY <4>1, <5>1, WriteNoCnf, PduTypes DEF ListenerWrite
      <4>2. CASE Reject
        BY <4>2, WriteNoCnf, PduTypes DEF Reject
      <4> QED
        BY <2>3, <4>1, <4>2
    <3>2. Inds' = Inds /\ UNCHANGED <<rpc, rmsg, indOut>>
      BY <2>3 DEF ListenerWrite, Reject, Inds
    <3> QED
      BY <3>1, <3>2 DEF ConfirmedOnce, IndHeld
  <2>4. CASE AcceptResponse \/ MismatchedResponse \/ ListenerExit
    BY <2>0, <2>4 DEF AcceptResponse, MismatchedResponse, ListenerExit, ConfirmedOnce, IndHeld
  <2>5. CASE ReaderRead
    <3>1. /\ fromPeer \in Seq(InPdus) /\ fromPeer # <<>> /\ fromPeer' = Tail(fromPeer)
          /\ rmsg' = Head(fromPeer) /\ rpc = "read" /\ rpc' \in {"dispatch", "hand"}
          /\ Cnfs' = Cnfs /\ indOut' = indOut
      BY <2>5 DEF ReaderRead, TypeOK, Cnfs
    <3>2. /\ \A i, j \in Inds' : i = j
          /\ Inds' # {} => Inds # {}
          /\ Head(fromPeer).t = "ind" => Inds # {} /\ Inds' = {}
      BY <3>1, InTail DEF ConfirmedOnce, Inds
    <3> QED
      BY <3>1, <3>2 DEF ConfirmedOnce, IndHeld
  <2>6. CASE Dispatch
    BY <2>0, <2>6 DEF Dispatch, ConfirmedOnce, IndHeld
  <2>7. CASE Confirm
    <3>1. IndHeld /\ Cnfs = {} /\ Inds = {} /\ indOut /\ rpc' = "read" /\ indOut' = indOut
      BY <2>7 DEF Confirm, ConfirmedOnce, IndHeld
    <3>2. Inds' = {} /\ ~ IndHeld'
      BY <2>7, <3>1 DEF Confirm, Inds, IndHeld
    <3>3. \A i \in Cnfs' : i = Len(toPeer) + 1
      BY <2>7, <3>1, PduTypes DEF Confirm, Write, Cnfs, TypeOK
    <3> QED
      BY <3>1, <3>2, <3>3 DEF ConfirmedOnce
  <2>8. CASE ReaderQuit
    BY <2>0, <2>8 DEF ReaderQuit, ConfirmedOnce, IndHeld
  <2>9. CASE PeerAnswer
    <3>1. /\ toPeer \in Seq(OutPdus) /\ toPeer # <<>> /\ toPeer' = Tail(toPeer)
          /\ UNCHANGED <<rpc, rmsg, indOut>>
      BY <2>9 DEF PeerAnswer, TypeOK
    <3>2. (\A i, j \in Cnfs' : i = j) /\ (Cnfs' # {} => Cnfs # {})
      BY <3>1, InTail DEF ConfirmedOnce, Cnfs
    <3>3. Head(toPeer).m \in Messages
      <4>1. Head(toPeer) \in OutPdus
        BY <3>1
      <4> QED
        BY <2>9, <4>1, PduTypes DEF PeerAnswer
    <3>4. PICK p \in InPdus : fromPeer' = Append(fromPeer, p) /\ p.t # "ind"
      BY <2>9, <3>3, PduTypes DEF PeerAnswer, InPdu
    <3>5. Inds' = Inds
      BY <3>4, SendNoInd
    <3> QED
      BY <3>1, <3>2, <3>5 DEF ConfirmedOnce, IndHeld
  <2>10. CASE PeerTake
    <3>1. /\ toPeer \in Seq(OutPdus) /\ toPeer # <<>> /\ toPeer' = Tail(toPeer)
          /\ indOut' = (indOut /\ Head(toPeer).t # "cnf")
          /\ UNCHANGED <<rpc, rmsg>> /\ Inds' = Inds
      BY <2>10 DEF PeerTake, TypeOK, Inds
    <3>2. /\ \A i, j \in Cnfs' : i = j
          /\ Cnfs' # {} => Cnfs # {}
          /\ Head(toPeer).t = "cnf" => Cnfs # {} /\ Cnfs' = {}
      BY <3>1, InTail DEF ConfirmedOnce, Cnfs
    <3> QED
      BY <3>1, <3>2 DEF ConfirmedOnce, IndHeld
  <2>11. ASSUME NEW h \in Handles, PeerNotify(h) PROVE Inv'
    <3>1. Cnfs' = Cnfs /\ UNCHANGED <<rpc, rmsg>> /\ fromPeer \in Seq(InPdus)
      BY <2>11 DEF PeerNotify, Cnfs, TypeOK
    <3>2. CASE fromPeer' = Append(fromPeer, InPdu("ntf", "none", None, h)) /\ UNCHANGED indOut
      <4>1. Inds' = Inds
        BY <3>2, SendNoInd, PduTypes DEF InPdu
      <4> QED
        BY <3>1, <3>2, <4>1 DEF ConfirmedOnce, IndHeld
    <3>3. CASE /\ ~ indOut /\ indOut' = TRUE
               /\ fromPeer' = Append(fromPeer, InPdu("ind", "none", None, h))
      <4>1. Cnfs = {} /\ Inds = {} /\ ~ IndHeld
        BY <3>3 DEF ConfirmedOnce
      <4>2. \A i \in Inds' : i = Len(fromPeer) + 1
        BY <3>1, <3>3, <4>1, PduTypes DEF Inds
      <4>3. ~ IndHeld'
        BY <3>1, <4>1 DEF IndHeld
      <4> QED
        BY <3>1, <3>3, <4>1, <4>2, <4>3 DEF ConfirmedOnce
    <3> QED
      BY <2>11, <3>2, <3>3 DEF PeerNotify
  <2>12. CASE PeerRequest
    <3>1. Inds' = Inds
      BY <2>12, SendNoInd, PduTypes DEF PeerRequest, InPdu
    <3>2. Cnfs' = Cnfs /\ UNCHANGED <<rpc, rmsg, indOut>>
      BY <2>12 DEF PeerRequest, Cnfs
    <3> QED
      BY <3>1, <3>2 DEF ConfirmedOnce, IndHeld
  <2>13. CASE LinkDrop
    <3>1. Cnfs' = {} /\ Inds' = Inds /\ UNCHANGED <<rpc, rmsg, indOut>>
      BY <2>13 DEF LinkDrop, Cnfs, Inds
    <3> QED
      BY <3>1 DEF ConfirmedOnce, IndHeld
  <2>14. CASE LoopCtxDone \/ UNCHANGED vars
    BY <2>0, <2>14 DEF LoopCtxDone, vars, ConfirmedOnce, IndHeld
  <2> QED
    BY <2>1, <2>2, <2>3, <2>4, <2>5, <2>6, <2>7, <2>8, <2>9, <2>10, <2>11, <2>12, <2>13, <2>14
       DEF Next, ListenerStep, ReaderStep, PeerStep
<1> QED
  BY <1>1, <1>2, TypeCorrect, PTL DEF Spec
-----------------------------------------------------------------------------
(* Notifications and their callbacks.                                      *)

\* One goroutine subscribes to and unsubscribes from a characteristic.
OneManager == \A h \in Handles : \A c, d \in Managers[h] : c = d

\* The PDU is a notification or an indication of the characteristic with value handle h.
Notifies(p, h) == p.t \in {"ntf", "ind"} /\ p.h = h
NoneSent(h) == ~ ccc[h] /\ \A i \in DOMAIN fromPeer : ~ Notifies(fromPeer[i], h)

\* Nothing of h is on its way to a callback, and nothing will be before a caller
\* subscribes to it again.
Silent(h) ==
  /\ NoneSent(h)
  /\ ~ (rpc = "dispatch" /\ rmsg.h = h)
  /\ ~ (lreq # None /\ lreq.kind = "sub" /\ lreq.h = h)

\* A call is known by its id, and the listener serves one that was made.
CallInv ==
  /\ \A c \in Callers : call[c] # None =>
       /\ call[c].id = <<c, ncalls[c]>>
       /\ call[c].kind \in {"sub", "unsub"} => c \in Managers[call[c].h]
       /\ lreq # None /\ lreq.id = call[c].id => lreq = call[c]
  /\ lreq # None => lreq.id[2] <= ncalls[lreq.id[1]]

\* The answer to a request to stop comes behind the last notification.
StopInv ==
  lreq # None /\ lreq.kind = "unsub" =>
    /\ lpc = "deliver" => Silent(lreq.h)
    /\ InHand => NoneSent(lreq.h)
    /\ \A i \in Answers : ~ ccc[lreq.h] /\ \A j \in DOMAIN fromPeer : Notifies(fromPeer[j], lreq.h) => j < i

\* A characteristic without a callback is silent, and so is one about to lose it.
SubInv ==
  /\ \A c \in Callers : cpc[c] = "unsubscribe" => call[c].kind = "unsub"
  /\ \A c \in Callers, h \in Handles : cpc[c] = "unsubscribe" /\ call[c].h = h => Silent(h)
  /\ \A h \in Handles : sub[h] = None =>
       Silent(h) /\ \A c \in Callers : cpc[c] = "send" /\ call[c].kind = "sub" => call[c].h # h

\* What the reader dispatches names a characteristic.
ReadInv == rpc = "dispatch" => rmsg.h \in Handles

NotifyInv == CallInv /\ StopInv /\ SubInv /\ ReadInv /\ NoNotificationLost

\* Who touches what the invariant is about.
LEMMA NotifySteps ==
  ASSUME [Next]_vars
  PROVE  /\ \/ UNCHANGED <<fromPeer, ccc>>
            \/ ReaderRead \/ PeerAnswer \/ PeerRequest \/ \E h \in Handles : PeerNotify(h)
         /\ UNCHANGED lreq \/ lreq' = None \/ \E c \in Callers : Submit(c)
         /\ UNCHANGED <<rpc, rmsg>> \/ ReaderRead \/ rpc' \notin {"dispatch", "hand"}
         /\ \/ UNCHANGED <<call, ncalls>>
            \/ \E c \in Callers, k \in Kinds, h \in Handles : StartCall(c, k, h)
         /\ \/ UNCHANGED sub \/ \E c \in Callers : Unsubscribe(c)
            \/ \E c \in Callers, k \in Kinds, h \in Handles : StartCall(c, k, h)
         /\ UNCHANGED lost \/ Dispatch
         /\ lpc' = "deliver" => lpc = "deliver" \/ AcceptResponse
         /\ \/ UNCHANGED cpc
            \/ \E c \in Callers : CallerStep(c) \/ Cancel(c)
            \/ \E c \in Callers, k \in Kinds, h \in Handles : StartCall(c, k, h)
<1> USE DEF client, listener, reader, peer
<1>1. CASE UNCHANGED vars
  BY <1>1 DEF vars
<1>2. ASSUME NEW c \in Callers, NEW k \in Kinds, NEW h \in Handles, StartCall(c, k, h)
      PROVE  UNCHANGED <<fromPeer, ccc, lreq, rpc, rmsg, lost, lpc>>
  BY <1>2 DEF StartCall
<1>3. ASSUME NEW c \in Callers, Submit(c)
      PROVE  UNCHANGED <<fromPeer, ccc, rpc, rmsg, lost, call, ncalls, sub>> /\ lpc' # "deliver"
  BY <1>3 DEF Submit
<1>4. ASSUME NEW c \in Callers, Receive(c) \/ Unsubscribe(c) \/ Cancel(c)
      PROVE  /\ UNCHANGED <<fromPeer, ccc, rpc, rmsg, lost, call, ncalls>>
             /\ (UNCHANGED <<lreq, lpc>> \/ (lreq' = None /\ lpc' # "deliver"))
             /\ UNCHANGED sub \/ Unsubscribe(c)
  BY <1>4 DEF Receive, Unsubscribe, Cancel
<1>5. CASE ListenerStep
  BY <1>5 DEF ListenerStep, ListenerWrite, AcceptResponse, MismatchedResponse, Reject, ListenerExit
<1>6. CASE ReaderStep
  BY <1>6 DEF ReaderStep, ReaderRead, Dispatch, Confirm, ReaderQuit
<1>7. CASE PeerStep
  BY <1>7 DEF PeerStep, PeerAnswer, PeerTake
<1>8. CASE \E h \in Handles : PeerNotify(h)
  BY <1>8 DEF PeerNotify
<1>9. CASE PeerRequest \/ LinkDrop \/ LoopCtxDone
  BY <1>9 DEF PeerRequest, LinkDrop, LoopCtxDone
<1>10. CASE \E c \in Callers : CallerStep(c) \/ Cancel(c)
  BY <1>3, <1>4, <1>10 DEF CallerStep
<1> QED
  BY <1>1, <1>2, <1>5, <1>6, <1>7, <1>8, <1>9, <1>10 DEF Next

\* The peer answers the message the listener serves.
LEMMA AnswerFacts ==
  ASSUME TypeOK, SequentialRequests, PeerAnswer
  PROVE  /\ lreq \in Messages /\ lreq # None /\ Answers = {} /\ ~ InHand /\ UNCHANGED <<lreq, rpc, rmsg, lpc>>
         /\ \E p \in InPdus :
              /\ fromPeer' = Append(fromPeer, p) /\ p.t \in {"rsp", "err"}
              /\ p.t = "err" => lreq.kind \in ErrKinds /\ UNCHANGED ccc
              /\ p.t = "rsp" => ccc' = IF lreq.kind \in {"sub", "unsub"}
                                       THEN [ccc EXCEPT ![lreq.h] = (lreq.kind = "sub")] ELSE ccc
<1>1. PICK m : m = Head(toPeer).m
  OBVIOUS
<1>2. /\ toPeer \in Seq(OutPdus) /\ toPeer # <<>> /\ 1 \in OutReqs
      /\ toPeer[1].m = m /\ toPeer[1].t = "req" /\ toPeer[1] \in OutPdus
  BY <1>1 DEF PeerAnswer, TypeOK, OutReqs
<1>3. m = lreq /\ Answers = {} /\ ~ InHand
  BY <1>2 DEF SequentialRequests
<1>4. m \in Messages
  BY <1>2, PduTypes
<1>5. UNCHANGED <<lreq, rpc, rmsg, lpc>>
  BY DEF PeerAnswer, listener, reader
<1>6. CASE /\ fromPeer' = Append(fromPeer, InPdu("rsp", attRespFor(Opcode(m.kind)), m.id, None))
           /\ ccc' = IF m.kind \in {"sub", "unsub"} THEN [ccc EXCEPT ![m.h] = (m.kind = "sub")] ELSE ccc
  <2>1. PICK p : p = InPdu("rsp", attRespFor(Opcode(m.kind)), m.id, None)
    OBVIOUS
  <2>2. p \in InPdus /\ p.t = "rsp"
    BY <1>4, <2>1, PduTypes DEF InPdu
  <2> QED
    BY <1>3, <1>4, <1>5, <1>6, <2>1, <2>2, ClientAssumption
<1>7. CASE /\ m.kind \in ErrKinds
           /\ fromPeer' = Append(fromPeer, InPdu("err", Opcode(m.kind), m.id, None))
           /\ UNCHANGED ccc
  <2>1. PICK p : p = InPdu("err", Opcode(m.kind), m.id, None)
    OBVIOUS
  <2>2. p \in InPdus /\ p.t = "err"
    BY <1>4, <2>1, PduTypes DEF InPdu
  <2> QED
    BY <1>3, <1>4, <1>5, <1>7, <2>1, <2>2, ClientAssumption
<1> QED
  BY <1>1, <1>6, <1>7 DEF PeerAnswer

\* The peer notifies of a characteristic, or asks something.
LEMMA SentFacts ==
  ASSUME TypeOK
  PROVE  /\ \A h \in Handles : PeerNotify(h) =>
              /\ ccc[h] /\ UNCHANGED <<ccc, lreq, rpc, rmsg, lpc>>
              /\ \E p \in InPdus : fromPeer' = Append(fromPeer, p) /\ p.t \in {"ntf", "ind"} /\ p.h = h
         /\ PeerRequest =>
              /\ UNCHANGED <<ccc, lreq, rpc, rmsg, lpc>>
              /\ \E p \in InPdus : fromPeer' = Append(fromPeer, p) /\ p.t = "req"
<1>1. ASSUME NEW h \in Handles, PeerNotify(h)
      PROVE  \E p \in InPdus : fromPeer' = Append(fromPeer, p) /\ p.t \in {"ntf", "ind"} /\ p.h = h
  <2>1. PICK t \in {"ntf", "ind"} : fromPeer' = Append(fromPeer, InPdu(t, "none", None, h))
    BY <1>1 DEF PeerNotify
  <2>2. PICK p : p = InPdu(t, "none", None, h)
    OBVIOUS
  <2>3. p \in InPdus /\ p.t = t /\ p.h = h
    BY <2>2, PduTypes DEF InPdu
  <2> QED
    BY <2>1, <2>2, <2>3
<1>2. ASSUME PeerRequest PROVE \E p \in InPdus : fromPeer' = Append(fromPeer, p) /\ p.t = "req"
  <2>1. PICK p : p = InPdu("req", "MtuReq", None, None)
    OBVIOUS
  <2>2. p \in InPdus /\ p.t = "req" /\ fromPeer' = Append(fromPeer, p)
    BY <1>2, <2>1, PduTypes DEF InPdu, PeerRequest
  <2> QED
    BY <2>2
<1>3. \A h \in Handles : PeerNotify(h) => ccc[h] /\ UNCHANGED <<ccc, lreq, rpc, rmsg, lpc>>
  BY DEF PeerNotify, listener, reader
<1>4. PeerRequest => UNCHANGED <<ccc, lreq, rpc, rmsg, lpc>>
  BY DEF PeerRequest, listener, reader
<1> QED
  BY <1>1, <1>2, <1>3, <1>4

\* A PDU at the end of those on their way, and the one that is read.
LEMMA PduAdded ==
  ASSUME TypeOK, NEW p \in InPdus, fromPeer' = Append(fromPeer, p)
  PROVE  /\ \A i \in DOMAIN fromPeer' :
              \/ i \in DOMAIN fromPeer /\ fromPeer'[i] = fromPeer[i] /\ i < Len(fromPeer) + 1
              \/ i = Len(fromPeer) + 1 /\ fromPeer'[i] = p
         /\ Len(fromPeer) + 1 \in DOMAIN fromPeer'
<1>1. fromPeer \in Seq(InPdus)
  BY DEF TypeOK
<1> QED
  BY <1>1

LEMMA PduRead ==
  ASSUME TypeOK, ReaderRead
  PROVE  /\ 1 \in DOMAIN fromPeer /\ rmsg' = fromPeer[1] /\ rmsg' \in InPdus
         /\ \A i \in DOMAIN fromPeer' :
              i \in Nat /\ i + 1 \in DOMAIN fromPeer /\ i + 1 # 1 /\ fromPeer'[i] = fromPeer[i + 1]
         /\ rpc' = IF rmsg'.t \in {"ntf", "ind"} THEN "dispatch" ELSE "hand"
         /\ rpc = "read" /\ UNCHANGED <<ccc, lreq, lpc>>
<1>1. fromPeer \in Seq(InPdus) /\ fromPeer # <<>> /\ fromPeer' = Tail(fromPeer) /\ rmsg' = Head(fromPeer)
  BY DEF TypeOK, ReaderRead
<1>2. /\ 1 \in DOMAIN fromPeer /\ Head(fromPeer) = fromPeer[1] /\ fromPeer[1] \in InPdus
      /\ \A i \in DOMAIN fromPeer' :
           i \in Nat /\ i + 1 \in DOMAIN fromPeer /\ i + 1 # 1 /\ fromPeer'[i] = fromPeer[i + 1]
  BY <1>1
<1> QED
  BY <1>1, <1>2 DEF ReaderRead, listener, peer

\* A characteristic the peer does not notify of stays so until it accepts a
\* subscription.
LEMMA NoneSentStep ==
  ASSUME TypeOK, SequentialRequests, [Next]_vars, NEW h \in Handles, NoneSent(h),
         PeerAnswer => ~ (lreq.kind = "sub" /\ lreq.h = h)
  PROVE  NoneSent(h)'
<1>1. ccc \in [Handles -> BOOLEAN] /\ ~ ccc[h] /\ \A i \in DOMAIN fromPeer : ~ Notifies(fromPeer[i], h)
  BY DEF TypeOK, NoneSent
<1>2. CASE UNCHANGED <<fromPeer, ccc>>
  BY <1>1, <1>2 DEF NoneSent
<1>3. CASE ReaderRead
  <2>1. UNCHANGED ccc /\ \A i \in DOMAIN fromPeer' : i + 1 \in DOMAIN fromPeer /\ fromPeer'[i] = fromPeer[i + 1]
    BY <1>3, PduRead
  <2> QED
    BY <1>1, <2>1 DEF NoneSent, Notifies
<1>4. ASSUME NEW p \in InPdus, fromPeer' = Append(fromPeer, p), ~ Notifies(p, h), ~ ccc'[h] PROVE NoneSent(h)'
  <2>1. \A i \in DOMAIN fromPeer' : (i \in DOMAIN fromPeer /\ fromPeer'[i] = fromPeer[i]) \/ fromPeer'[i] = p
    BY <1>4, PduAdded
  <2> QED
    BY <1>1, <1>4, <2>1 DEF NoneSent, Notifies
<1>5. CASE PeerAnswer
  <2>1. PICK p \in InPdus :
              /\ fromPeer' = Append(fromPeer, p) /\ p.t \in {"rsp", "err"}
              /\ p.t = "err" => UNCHANGED ccc
              /\ p.t = "rsp" => ccc' = IF lreq.kind \in {"sub", "unsub"}
                                       THEN [ccc EXCEPT ![lreq.h] = (lreq.kind = "sub")] ELSE ccc
    BY <1>5, AnswerFacts
  <2>2. ~ ccc'[h]
    BY <1>1, <1>5, <2>1
  <2> QED
    BY <1>4, <2>1, <2>2 DEF Notifies
<1>6. CASE PeerRequest
  <2>1. UNCHANGED ccc /\ \E p \in InPdus : fromPeer' = Append(fromPeer, p) /\ p.t = "req"
    BY <1>6, SentFacts
  <2> QED
    BY <1>1, <1>4, <2>1 DEF Notifies
<1>7. ASSUME NEW g \in Handles, PeerNotify(g) PROVE NoneSent(h)'
  <2>1. /\ ccc[g] /\ UNCHANGED ccc
        /\ \E p \in InPdus : fromPeer' = Append(fromPeer, p) /\ p.t \in {"ntf", "ind"} /\ p.h = g
    BY <1>7, SentFacts
  <2> QED
    BY <1>1, <1>4, <2>1 DEF Notifies
<1> QED
  BY <1>2, <1>3, <1>5, <1>6, <1>7, NotifySteps

\* A silent characteristic stays so until the listener takes a subscription.
LEMMA SilentStep ==
  ASSUME TypeOK, SequentialRequests, [Next]_vars, NEW h \in Handles, Silent(h),
         \A c \in Callers : Submit(c) => ~ (call[c].kind = "sub" /\ call[c].h = h)
  PROVE  Silent(h)'
<1>1. NoneSent(h)'
  <2>1. PeerAnswer => ~ (lreq.kind = "sub" /\ lreq.h = h)
    BY AnswerFacts DEF Silent
  <2> QED
    BY <2>1, NoneSentStep DEF Silent
<1>2. ~ (rpc' = "dispatch" /\ rmsg'.h = h)
  <2>1. CASE ReaderRead
    BY <2>1, PduRead DEF Silent, NoneSent, Notifies
  <2> QED
    BY <2>1, NotifySteps DEF Silent
<1>3. ~ (lreq' # None /\ lreq'.kind = "sub" /\ lreq'.h = h)
  <2>1. ASSUME NEW c \in Callers, Submit(c) PROVE lreq' = call[c]
    BY <2>1 DEF Submit
  <2> QED
    BY <2>1, NotifySteps DEF Silent
<1> QED
  BY <1>1, <1>2, <1>3 DEF Silent

\* Every step keeps calls apart by their ids.
LEMMA CallInvStep ==
  ASSUME TypeOK, TypeOK', CallInv, [Next]_vars
  PROVE  CallInv'
<1>1. /\ ncalls \in [Callers -> 0 .. MaxCalls] /\ lreq \in Messages \cup {None}
      /\ call \in [Callers -> Messages \cup {None}]
      /\ lreq # None => lreq.id \in Callers \X (1 .. MaxCalls)
  BY DEF TypeOK, Messages, ReqIds
<1>2. CASE UNCHANGED <<call, ncalls>> /\ (UNCHANGED lreq \/ lreq' = None)
  BY <1>2 DEF CallInv
<1>3. ASSUME NEW c \in Callers, Submit(c) PROVE CallInv'
  <2>1. lreq' = call[c] /\ UNCHANGED <<call, ncalls>> /\ call[c] # None
    BY <1>3 DEF Submit, TypeOK
  <2>2. call[c].id = <<c, ncalls[c]>> /\ ncalls[c] \in Nat
    BY <1>1, <2>1, ClientAssumption DEF CallInv
  <2>3. \A d \in Callers : call[d] # None /\ call[c].id = call[d].id => d = c
    BY <2>2 DEF CallInv
  <2>4. lreq'.id[2] <= ncalls'[lreq'.id[1]]
    BY <2>1, <2>2
  <2> QED
    BY <2>1, <2>3, <2>4 DEF CallInv
<1>4. ASSUME NEW c \in Callers, NEW k \in Kinds, NEW h \in Handles, StartCall(c, k, h) PROVE CallInv'
  <2>1. PICK m : m = [kind |-> k, h |-> h, id |-> <<c, ncalls[c] + 1>>]
    OBVIOUS
  <2>2. m.kind = k /\ m.h = h /\ m.id = <<c, ncalls[c] + 1>>
    BY <2>1
  <2>3. /\ k \in {"sub", "unsub"} => c \in Managers[h]
        /\ call' = [call EXCEPT ![c] = m] /\ ncalls' = [ncalls EXCEPT ![c] = ncalls[c] + 1] /\ UNCHANGED lreq
    BY <1>4, <2>1 DEF StartCall, listener
  <2>4. /\ call'[c] = m /\ ncalls'[c] = ncalls[c] + 1 /\ ncalls[c] \in Nat
        /\ \A d \in Callers : d # c => call'[d] = call[d] /\ ncalls'[d] = ncalls[d]
    BY <1>1, <2>3
  <2>5. lreq # None => lreq.id[1] \in Callers /\ lreq.id[2] \in Nat /\ lreq.id = <<lreq.id[1], lreq.id[2]>>
    BY <1>1
  <2>6. lreq # None => lreq.id # m.id
    BY <2>2, <2>4, <2>5 DEF CallInv
  <2>7. lreq # None => lreq.id[2] <= ncalls'[lreq.id[1]]
    BY <2>4, <2>5 DEF CallInv
  <2>8. \A d \in Callers : call'[d] # None =>
          /\ call'[d].id = <<d, ncalls'[d]>>
          /\ call'[d].kind \in {"sub", "unsub"} => d \in Managers[call'[d].h]
          /\ lreq' # None /\ lreq'.id = call'[d].id => lreq' = call'[d]
    BY <2>2, <2>3, <2>4, <2>6 DEF CallInv
  <2> QED
    BY <2>3, <2>7, <2>8 DEF CallInv
<1>5. (\E c \in Callers : Submit(c)) => UNCHANGED <<call, ncalls>>
  BY DEF Submit
<1>6. ASSUME NEW c \in Callers, NEW k \in Kinds, NEW h \in Handles, StartCall(c, k, h) PROVE UNCHANGED lreq
  BY <1>6 DEF StartCall, listener
<1> QED
  BY <1>2, <1>3, <1>4, NotifySteps

\* Every step keeps the answer to a request to stop behind the notifications.
LEMMA StopInvStep ==
  ASSUME "unsub" \notin ErrKinds, TypeOK, SequentialRequests, StopInv, [Next]_vars
  PROVE  StopInv'
<1>1. SUFFICES ASSUME lreq' # None, lreq'.kind = "unsub"
               PROVE  /\ lpc' = "deliver" => Silent(lreq.h)'
                      /\ InHand' => NoneSent(lreq.h)'
                      /\ \A i \in Answers' : /\ ~ ccc'[lreq'.h]
                                             /\ \A j \in DOMAIN fromPeer' : Notifies(fromPeer'[j], lreq'.h) => j < i
  BY DEF StopInv, Notifies
<1>2. CASE \E c \in Callers : Submit(c)
  <2>1. lpc = "select" /\ lpc' = "write" /\ UNCHANGED <<fromPeer, rpc, rmsg>>
    BY <1>2 DEF Submit, reader
  <2>2. Answers = {} /\ ~ InHand
    BY <2>1 DEF SequentialRequests
  <2>3. Answers' = {} /\ ~ InHand'
    BY <2>1, <2>2 DEF Answers, InHand
  <2> QED
    BY <2>1, <2>3
<1>3. CASE UNCHANGED lreq /\ ~ \E c \in Callers : Submit(c)
  <2>1. PICK h : h = lreq.h
    OBVIOUS
  <2>2. lreq # None /\ lreq.kind = "unsub" /\ h \in Handles /\ lreq'.h = h
    BY <1>1, <1>3, <2>1 DEF TypeOK, Messages
  <2>3. /\ lpc = "deliver" => Silent(h)
        /\ InHand => NoneSent(h)
        /\ \A i \in Answers : ~ ccc[h] /\ \A j \in DOMAIN fromPeer : Notifies(fromPeer[j], h) => j < i
    BY <2>1, <2>2 DEF StopInv
  <2>4. NoneSent(h) => NoneSent(h)'
    BY <2>2, NoneSentStep
  <2>5. ASSUME lpc' = "deliver" PROVE Silent(h)'
    <3>1. CASE lpc = "deliver"
      BY <1>3, <2>2, <2>3, <3>1, SilentStep
    <3>2. CASE AcceptResponse
      <4>1. InHand /\ rpc' = "read"
        BY <3>2 DEF AcceptResponse, Matches, InHand, IsAnswer
      <4> QED
        BY <1>3, <2>2, <2>3, <2>4, <4>1 DEF Silent
    <3> QED
      BY <2>5, <3>1, <3>2, NotifySteps
  <2>6. ASSUME InHand' PROVE NoneSent(h)'
    <3>1. CASE ReaderRead
      <4>1. /\ 1 \in DOMAIN fromPeer /\ rmsg' = fromPeer[1] /\ UNCHANGED ccc
            /\ \A i \in DOMAIN fromPeer' : i \in Nat /\ i + 1 \in DOMAIN fromPeer /\ fromPeer'[i] = fromPeer[i + 1]
        BY <3>1, PduRead
      <4>2. 1 \in Answers
        BY <2>6, <4>1 DEF InHand, Answers
      <4>3. ~ ccc[h] /\ \A j \in DOMAIN fromPeer : Notifies(fromPeer[j], h) => j < 1
        BY <2>3, <4>2
      <4>4. \A i \in DOMAIN fromPeer' : ~ Notifies(fromPeer[i + 1], h)
        BY <4>1, <4>3
      <4> QED
        BY <4>1, <4>3, <4>4 DEF NoneSent, Notifies
    <3>2. CASE UNCHANGED <<rpc, rmsg>>
      BY <2>3, <2>4, <2>6, <3>2 DEF InHand
    <3> QED
      BY <2>6, <3>1, <3>2, NotifySteps DEF InHand
  <2>7. \A i \in Answers' : /\ ~ ccc'[h]
                            /\ \A j \in DOMAIN fromPeer' : Notifies(fromPeer'[j], h) => j < i
    <3>1. CASE UNCHANGED <<fromPeer, ccc>>
      BY <2>3, <3>1 DEF Answers
    <3>2. CASE ReaderRead
      <4>1. /\ UNCHANGED ccc
            /\ \A i \in DOMAIN fromPeer' : i \in Nat /\ i + 1 \in DOMAIN fromPeer /\ fromPeer'[i] = fromPeer[i + 1]
        BY <3>2, PduRead
      <4>2. \A i \in Answers' : i \in DOMAIN fromPeer' /\ i + 1 \in Answers
        BY <4>1 DEF Answers
      <4>3. SUFFICES ASSUME NEW i \in Answers'
                     PROVE  ~ ccc[h] /\ \A j \in DOMAIN fromPeer' : Notifies(fromPeer'[j], h) => j < i
        BY <4>1
      <4>4. \A j \in DOMAIN fromPeer' : Notifies(fromPeer'[j], h) => j + 1 < i + 1
        BY <2>3, <4>1, <4>2
      <4>5. i \in Nat
        BY <4>1, <4>2
      <4> QED
        BY <2>3, <4>1, <4>2, <4>4, <4>5
    <3>3. CASE PeerAnswer
      <4>1. PICK p \in InPdus :
              /\ fromPeer' = Append(fromPeer, p) /\ p.t \in {"rsp", "err"}
              /\ p.t = "err" => lreq.kind \in ErrKinds
              /\ p.t = "rsp" => ccc' = IF lreq.kind \in {"sub", "unsub"}
                                       THEN [ccc EXCEPT ![lreq.h] = (lreq.kind = "sub")] ELSE ccc
        BY <3>3, AnswerFacts
      <4>2. p.t = "rsp" /\ ccc' = [ccc EXCEPT ![h] = FALSE]
        BY <2>1, <2>2, <4>1
      <4>3. ~ ccc'[h]
        BY <2>2, <4>2 DEF TypeOK
      <4>4. \A i \in DOMAIN fromPeer' :
              \/ i \in DOMAIN fromPeer /\ fromPeer'[i] = fromPeer[i] /\ i < Len(fromPeer) + 1
              \/ i = Len(fromPeer) + 1 /\ fromPeer'[i] = p
        BY <4>1, PduAdded
      <4>5. \A i \in Answers' : i = Len(fromPeer) + 1
        BY <3>3, <4>4, AnswerFacts DEF Answers
      <4>6. \A j \in DOMAIN fromPeer' : Notifies(fromPeer'[j], h) => j < Len(fromPeer) + 1
        BY <4>1, <4>4 DEF Notifies
      <4> QED
        BY <4>3, <4>5, <4>6
    <3>4. ASSUME NEW p \in InPdus, fromPeer' = Append(fromPeer, p), UNCHANGED ccc,
                 ~ IsAnswer(p), Notifies(p, h) => ccc[h]
          PROVE  \A i \in Answers' : /\ ~ ccc'[h]
                                     /\ \A j \in DOMAIN fromPeer' : Notifies(fromPeer'[j], h) => j < i
      <4>1. Answers' = Answers
        BY <3>4, SendOther
      <4>2. \A i \in DOMAIN fromPeer' : (i \in DOMAIN fromPeer /\ fromPeer'[i] = fromPeer[i]) \/ fromPeer'[i] = p
        BY <3>4, PduAdded
      <4> QED
        BY <2>3, <3>4, <4>1, <4>2 DEF Notifies
    <3>5. CASE PeerRequest
      <4>1. UNCHANGED ccc /\ \E p \in InPdus : fromPeer' = Append(fromPeer, p) /\ p.t = "req"
        BY <3>5, SentFacts
      <4> QED
        BY <3>4, <4>1 DEF Notifies, IsAnswer
    <3>6. ASSUME NEW g \in Handles, PeerNotify(g)
          PROVE  \A i \in Answers' : /\ ~ ccc'[h]
                                     /\ \A j \in DOMAIN fromPeer' : Notifies(fromPeer'[j], h) => j < i
      <4>1. /\ ccc[g] /\ UNCHANGED ccc
            /\ \E p \in InPdus : fromPeer' = Append(fromPeer, p) /\ p.t \in {"ntf", "ind"} /\ p.h = g
        BY <3>6, SentFacts
      <4> QED
        BY <3>4, <4>1 DEF Notifies, IsAnswer
    <3> QED
      BY <3>1, <3>2, <3>3, <3>5, <3>6, NotifySteps
  <2> QED
    BY <1>3, <2>1, <2>5, <2>6, <2>7
<1> QED
  BY <1>1, <1>2, <1>3, NotifySteps

\* Every step keeps the callback of a characteristic that is not silent.
LEMMA SubInvStep ==
  ASSUME OneManager, TypeOK, SequentialRequests, CallInv, StopInv, SubInv, [Next]_vars
  PROVE  SubInv'
<1>1. /\ call \in [Callers -> Messages \cup {None}] /\ cpc \in [Callers -> {"idle", "send", "wait", "unsubscribe"}]
      /\ \A c \in Callers : call[c] = None => cpc[c] = "idle"
      /\ sub \in [Handles -> Callers \cup {None}]
  BY DEF TypeOK
<1>2. \A c \in Callers : cpc[c] # "idle" => call[c] \in Messages /\ call[c] # None /\ call[c].h \in Handles
  BY <1>1 DEF Messages
<1>3. ASSUME NEW c \in Callers, NEW d \in Callers, cpc[c] # "idle", cpc[d] # "idle", call[c].h = call[d].h,
             call[c].kind \in {"sub", "unsub"}, call[d].kind \in {"sub", "unsub"}
      PROVE  c = d
  BY <1>2, <1>3 DEF CallInv, OneManager
<1>4. \A c \in Callers : Submit(c) => cpc[c] = "send"
  BY DEF Submit
<1>5. ASSUME NEW c \in Callers, cpc'[c] = "unsubscribe"
      PROVE  call'[c].kind = "unsub" /\ \A h \in Handles : call'[c].h = h => Silent(h)'
  <2>1. CASE Receive(c)
    <3>1. cpc[c] = "wait" /\ lpc = "deliver" /\ lreq.id = call[c].id /\ UNCHANGED call /\ call[c].kind = "unsub"
      BY <1>1, <1>5, <2>1 DEF Receive
    <3>2. lreq # None
      BY <3>1 DEF TypeOK
    <3>3. lreq = call[c]
      BY <1>2, <3>1, <3>2 DEF CallInv
    <3>4. Silent(call[c].h)
      BY <3>1, <3>2, <3>3 DEF StopInv
    <3>5. \A d \in Callers : ~ Submit(d)
      BY <3>1 DEF Submit
    <3> QED
      BY <3>1, <3>4, <3>5, SilentStep
  <2>2. CASE ~ Receive(c)
    <3>1. cpc[c] = "unsubscribe" /\ call'[c] = call[c]
      <4>1. ASSUME NEW d \in Callers, CallerStep(d) \/ Cancel(d) PROVE cpc[c] = "unsubscribe" /\ UNCHANGED call
        <5>1. UNCHANGED call /\ \E v \in {"idle", "wait", "unsubscribe"} :
                cpc' = [cpc EXCEPT ![d] = v] /\ (v = "unsubscribe" => Receive(d))
          BY <4>1 DEF CallerStep, Submit, Receive, Unsubscribe, Cancel
        <5> QED
          BY <1>1, <1>5, <2>2, <5>1
      <4>2. ASSUME NEW d \in Callers, NEW k \in Kinds, NEW h \in Handles, StartCall(d, k, h)
            PROVE  cpc[c] = "unsubscribe" /\ call'[c] = call[c]
        BY <1>1, <1>5, <4>2 DEF StartCall
      <4> QED
        BY <1>5, <4>1, <4>2, NotifySteps
    <3>2. call[c].kind = "unsub"
      BY <3>1 DEF SubInv
    <3>3. SUFFICES ASSUME NEW h \in Handles, call[c].h = h PROVE Silent(h)'
      BY <3>1, <3>2
    <3>4. ASSUME NEW d \in Callers, Submit(d), call[d].kind = "sub", call[d].h = h PROVE FALSE
      <4>1. cpc[d] = "send"
        BY <3>4, <1>4
      <4>2. d = c
        BY <1>3, <3>1, <3>2, <3>3, <3>4, <4>1
      <4> QED
        BY <3>1, <4>1, <4>2
    <3> QED
      BY <3>1, <3>3, <3>4, SilentStep DEF SubInv
  <2> QED
    BY <2>1, <2>2
<1>6. ASSUME NEW h \in Handles, sub'[h] = None
      PROVE  Silent(h)' /\ \A c \in Callers : cpc'[c] = "send" /\ call'[c].kind = "sub" => call'[c].h # h
  <2>1. Silent(h) /\ \A c \in Callers : cpc'[c] = "send" /\ cpc[c] = "send" /\ call[c].kind = "sub" => call[c].h # h
    <3>1. CASE sub[h] = None
      BY <3>1 DEF SubInv
    <3>2. CASE sub[h] # None
      <4>1. ASSUME NEW d \in Callers, NEW k \in Kinds, NEW g \in Handles, StartCall(d, k, g) PROVE sub'[h] # None
        BY <1>1, <3>2, <4>1, ClientAssumption DEF StartCall
      <4>2. PICK d \in Callers : Unsubscribe(d)
        BY <1>6, <3>2, <4>1, NotifySteps
      <4>3. cpc[d] = "unsubscribe" /\ sub' = [sub EXCEPT ![call[d].h] = None] /\ cpc' = [cpc EXCEPT ![d] = "idle"]
        BY <4>2 DEF Unsubscribe
      <4>4. call[d].h = h /\ call[d].kind = "unsub" /\ cpc'[d] = "idle"
        BY <1>1, <1>6, <3>2, <4>3 DEF SubInv
      <4>5. Silent(h)
        BY <4>3, <4>4 DEF SubInv
      <4>6. ASSUME NEW c \in Callers, cpc'[c] = "send", cpc[c] = "send",
                   call[c].kind = "sub", call[c].h = h
            PROVE  FALSE
        <5>1. c = d
          BY <1>3, <4>3, <4>4, <4>6
        <5> QED
          BY <4>4, <4>6, <5>1
      <4> QED
        BY <4>5, <4>6
    <3> QED
      BY <3>1, <3>2
  <2>2. ASSUME NEW d \in Callers, Submit(d), call[d].kind = "sub", call[d].h = h PROVE FALSE
    <3>1. cpc[d] = "send"
      BY <1>4, <2>2
    <3>2. UNCHANGED sub
      BY <2>2 DEF Submit
    <3> QED
      BY <1>6, <2>2, <3>1, <3>2 DEF SubInv
  <2>3. Silent(h)'
    BY <2>1, <2>2, SilentStep
  <2>4. ASSUME NEW c \in Callers, cpc'[c] = "send", call'[c].kind = "sub", call'[c].h = h PROVE FALSE
    <3>1. ASSUME NEW d \in Callers, NEW k \in Kinds, NEW g \in Handles, StartCall(d, k, g) PROVE FALSE
      <4>1. PICK m : m = [kind |-> k, h |-> g, id |-> <<d, ncalls[d] + 1>>]
        OBVIOUS
      <4>2. m.kind = k /\ m.h = g
        BY <4>1
      <4>3. /\ cpc' = [cpc EXCEPT ![d] = "send"] /\ call' = [call EXCEPT ![d] = m]
            /\ sub' = IF k = "sub" THEN [sub EXCEPT ![g] = d] ELSE sub
        BY <3>1, <4>1 DEF StartCall
      <4>4. CASE c = d
        <5>1. call'[c] = m
          BY <1>1, <4>3, <4>4
        <5>2. k = "sub" /\ g = h
          BY <2>4, <4>2, <5>1
        <5>3. sub'[h] = d
          BY <1>1, <4>3, <5>2
        <5> QED
          BY <1>6, <5>3, ClientAssumption
      <4>5. CASE c # d
        <5>1. cpc'[c] = cpc[c] /\ call'[c] = call[c]
          BY <1>1, <4>3, <4>5
        <5> QED
          BY <2>1, <2>4, <5>1
      <4> QED
        BY <4>4, <4>5
    <3>2. UNCHANGED call
      BY <3>1, NotifySteps
    <3>3. cpc[c] # "send"
      BY <2>1, <2>4, <3>2
    <3>4. ASSUME NEW d \in Callers, CallerStep(d) \/ Cancel(d) PROVE FALSE
      <4>1. \E v \in {"idle", "wait", "unsubscribe"} : cpc' = [cpc EXCEPT ![d] = v]
        BY <3>4 DEF CallerStep, Submit, Receive, Unsubscribe, Cancel
      <4> QED
        BY <1>1, <2>4, <3>3, <4>1
    <3> QED
      BY <2>4, <3>1, <3>3, <3>4, NotifySteps
  <2> QED
    BY <2>3, <2>4
<1> QED
  BY <1>5, <1>6 DEF SubInv

\* Every notification is dispatched to a callback.
LEMMA DispatchStep ==
  ASSUME TypeOK, SubInv, ReadInv, NoNotificationLost, [Next]_vars
  PROVE  ReadInv' /\ NoNotificationLost'
<1>1. ReadInv'
  <2>1. CASE ReaderRead
    <3>1. rpc' = "dispatch" => rmsg' \in InPdus /\ rmsg'.t \in {"ntf", "ind"}
      BY <2>1, PduRead
    <3>2. \A p \in InPdus : p.t \in {"ntf", "ind"} => p.h \in Handles
      BY DEF InPdus
    <3> QED
      BY <3>1, <3>2 DEF ReadInv
  <2> QED
    BY <2>1, NotifySteps DEF ReadInv
<1>2. ASSUME Dispatch PROVE UNCHANGED lost
  <2>1. rpc = "dispatch" /\ lost' = (lost \/ sub[rmsg.h] = None)
    BY <1>2 DEF Dispatch
  <2>2. sub[rmsg.h] # None
    BY <2>1 DEF ReadInv, SubInv, Silent
  <2> QED
    BY <2>1, <2>2 DEF TypeOK
<1> QED
  BY <1>1, <1>2, NotifySteps DEF NoNotificationLost
-----------------------------------------------------------------------------
\* With one goroutine managing a characteristic and a peer that does not refuse to
\* stop, no notification or indication finds its callback missing, however calls of
\* other goroutines, cancellations, a lost link and requests of the peer interleave:
\* setNotifyValue, sendReq and loop.
THEOREM NotificationsAreHeard ==
  ASSUME OneManager, "unsub" \notin ErrKinds
  PROVE  Spec => []NoNotificationLost
<1>1. Init => NotifyInv
  <2> SUFFICES ASSUME Init PROVE NotifyInv
    OBVIOUS
  <2>1. CallInv /\ StopInv /\ ReadInv /\ NoNotificationLost
    BY DEF Init, CallInv, StopInv, ReadInv, NoNotificationLost
  <2>2. \A h \in Handles : Silent(h)
    BY DEF Init, Silent, NoneSent
  <2>3. SubInv
    BY <2>2 DEF Init, SubInv
  <2> QED
    BY <2>1, <2>3 DEF NotifyInv
<1>2. TypeOK /\ TypeOK' /\ SequentialRequests /\ NotifyInv /\ [Next]_vars => NotifyInv'
  BY CallInvStep, StopInvStep, SubInvStep, DispatchStep DEF NotifyInv
<1>3. NotifyInv => NoNotificationLost
  BY DEF NotifyInv
<1> QED
  BY <1>1, <1>2, <1>3, TypeCorrect, ResponsesAreOwn, PTL DEF Spec
=============================================================================
