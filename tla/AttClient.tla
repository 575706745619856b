------------------------------ MODULE AttClient ------------------------------
(***************************************************************************)
(* The ATT client of a connected peripheral (peripheral_linux.go).         *)
(*                                                                         *)
(* Any number of application goroutines ("callers") run the methods of     *)
(* Peripheral; each ends in sendReq or sendCmd.  Two goroutines serve      *)
(* them: the "listener" takes one message at a time from the unbuffered    *)
(* reqCh, writes it to the L2CAP connection and, for a request, waits for  *)
(* the response that has its opcode; the "reader" reads PDUs, hands        *)
(* responses to the listener over the unbuffered respCh, and starts a      *)
(* goroutine of its own for the callback of every notification.            *)
(*                                                                         *)
(* An unbuffered Go channel is a rendezvous: one step of both parties.     *)
(* The peer is a conforming ATT server.  It is external to the             *)
(* repository.  The field id of a message is auxiliary: ATT PDUs carry no  *)
(* identifier, and the code matches a response by its opcode alone.        *)
(***************************************************************************)
EXTENDS Naturals, Sequences

CONSTANTS
  Callers,     \* application goroutines
  Handles,     \* value handles of the characteristics that can notify
  Managers,    \* Managers[h]: the callers that call SetNotifyValue on h
  ErrKinds,    \* the kinds of call the peer may answer with an Error Response
  MaxCalls,    \* bound: calls made by one caller
  MaxCancels,  \* bound: context cancellations
  MaxNotify,   \* bound: notifications and indications sent by the peer
  MaxPeerReqs, \* bound: requests the peer sends to us
  MaxDrops,    \* bound: 1 when the link may be lost, 0 when it may not
  MaxStops,    \* bound: 1 when the context of the device may end, 0 otherwise
  MaxFaults,   \* bound: cancellations, lost links and ended contexts together
  None         \* no caller, no request, no handle

\* ReadCharacteristic, WriteCharacteristic(noResp), SetNotifyValue(f) and
\* SetNotifyValue(nil) stand for every method that sends a PDU.
Kinds == {"read", "cmd", "sub", "unsub"}

\* The opcode of the PDU a call writes: attrOpReadReq, attrOpWriteCmd, or
\* attrOpWriteReq for a write of the client characteristic configuration.
Opcode(k) == CASE k = "read" -> "ReadReq"
               [] k = "cmd"  -> "WriteCmd"
               [] OTHER      -> "WriteReq"

\* const.go: the response opcode of each request opcode used here.
attRespFor(op) == IF op = "ReadReq" THEN "ReadResp" ELSE "WriteResp"

ReqIds == Callers \X (1 .. MaxCalls)
Messages == [kind : Kinds, h : Handles, id : ReqIds]

\* PDUs from us to the peer: a request or command of a caller, a
\* confirmation, or the Error Response to a PDU the listener did not expect.
OutPdus == [t : {"req", "cmd"}, m : Messages] \cup [t : {"cnf", "rej"}, m : {None}]
\* PDUs from the peer: the answer to a request, a request of its own, a
\* notification or an indication.
AnswerOps == {"ReadResp", "WriteResp", "ReadReq", "WriteReq", "WriteCmd"}
InPdus == [t : {"rsp", "err"}, op : AnswerOps, id : ReqIds, h : {None}]
          \cup [t : {"req"}, op : {"MtuReq"}, id : {None}, h : {None}]
          \cup [t : {"ntf", "ind"}, op : {"none"}, id : {None}, h : Handles]

ASSUME ClientAssumption ==
  /\ None \notin Callers \cup Handles
  /\ None \notin ReqIds \cup Messages \cup InPdus
  /\ Managers \in [Handles -> SUBSET Callers]
  /\ MaxCalls \in Nat /\ MaxCancels \in Nat /\ MaxNotify \in Nat
  /\ MaxPeerReqs \in Nat /\ MaxDrops \in Nat /\ MaxStops \in Nat
  /\ MaxFaults \in Nat

VARIABLES
  cpc,      \* program counter of each caller
  call,     \* the message of each caller's current call
  ncalls,   \* number of calls each caller has begun
  got,      \* id of the request whose answer the caller's last call returned
  lpc,      \* program counter of the listener
  lreq,     \* the message the listener is serving
  lresp,    \* the response the listener is about to deliver
  rpc,      \* program counter of the reader
  rmsg,     \* the PDU the reader is handling
  sub,      \* subscriber.sub: the caller whose callback is registered
  quit,     \* quitCh is closed
  toPeer,   \* PDUs written, not yet received by the peer
  fromPeer, \* PDUs sent by the peer, not yet read (conn.dataCh and the air)
  link,     \* the connection is up
  ccc,      \* the peer's client characteristic configuration: notifying
  indOut,   \* the peer waits for a confirmation
  preqOut,  \* the peer waits for the answer to a request of its own
  lost,     \* a notification was read for a handle with no callback
  ctxDone,  \* the context of the device's main loop has ended
  used      \* used[b]: how much of the bounds has been used

client == <<cpc, call, ncalls, got>>
listener == <<lpc, lreq, lresp>>
reader == <<rpc, rmsg, quit, lost>>
peer == <<ccc, indOut, preqOut>>
vars == <<client, listener, reader, peer, sub, toPeer, fromPeer, link, ctxDone, used>>

Bounded == {"cancel", "notify", "peerreq", "drop", "stop"}
Budget == [cancel |-> MaxCancels, notify |-> MaxNotify, peerreq |-> MaxPeerReqs,
           drop |-> MaxDrops, stop |-> MaxStops]
Faults == used["cancel"] + used["drop"] + used["stop"]
\* One more use of the bounded environment event b.
Spend(b) ==
  /\ used[b] < Budget[b] /\ (b \in {"cancel", "drop", "stop"} => Faults < MaxFaults)
  /\ used' = [used EXCEPT ![b] = @ + 1]

\* The types, and which local variables of a goroutine are in scope where:
\* a caller past "idle" has a message, the listener has one while it serves
\* one and a response only to deliver, the reader has a PDU while it handles it.
TypeOK ==
  /\ cpc \in [Callers -> {"idle", "send", "wait", "unsubscribe"}]
  /\ call \in [Callers -> Messages \cup {None}]
  /\ ncalls \in [Callers -> 0 .. MaxCalls]
  /\ got \in [Callers -> ReqIds \cup {None}]
  /\ lpc \in {"select", "write", "await", "reject", "deliver", "exited"}
  /\ lreq \in Messages \cup {None}
  /\ lresp \in InPdus \cup {None}
  /\ rpc \in {"read", "hand", "dispatch", "confirm", "exited"}
  /\ rmsg \in InPdus \cup {None}
  /\ sub \in [Handles -> Callers \cup {None}]
  /\ toPeer \in Seq(OutPdus)
  /\ fromPeer \in Seq(InPdus)
  /\ ccc \in [Handles -> BOOLEAN]
  /\ quit \in BOOLEAN /\ link \in BOOLEAN /\ indOut \in BOOLEAN
  /\ preqOut \in BOOLEAN /\ lost \in BOOLEAN /\ ctxDone \in BOOLEAN
  /\ used \in [Bounded -> Nat]
  /\ \A c \in Callers : call[c] = None => cpc[c] = "idle"
  /\ lreq = None <=> lpc \in {"select", "exited"}
  /\ lresp = None <=> lpc # "deliver"
  /\ rmsg = None <=> rpc \in {"read", "exited"}

Init ==
  /\ cpc = [c \in Callers |-> "idle"]
  /\ call = [c \in Callers |-> None]
  /\ ncalls = [c \in Callers |-> 0]
  /\ got = [c \in Callers |-> None]
  /\ lpc = "select" /\ lreq = None /\ lresp = None
  /\ rpc = "read" /\ rmsg = None /\ quit = FALSE /\ lost = FALSE
  /\ sub = [h \in Handles |-> None]
  /\ toPeer = <<>> /\ fromPeer = <<>> /\ link = TRUE
  /\ ccc = [h \in Handles |-> FALSE] /\ indOut = FALSE /\ preqOut = FALSE
  /\ ctxDone = FALSE
  /\ used = [b \in Bounded |-> 0]

\* l2c.Write: conn.write reports success whatever happens to the device.
Write(t, m) ==
  toPeer' = IF link THEN Append(toPeer, [t |-> t, m |-> m]) ELSE toPeer
-----------------------------------------------------------------------------
(* The callers.                                                            *)

\* Mutant: SetNotifyValue(nil) unregisters before it asks the peer to stop.
StartCall_EarlyUnsubscribe(c, k, h) ==
  /\ cpc[c] = "idle" /\ ncalls[c] < MaxCalls
  /\ k \in {"sub", "unsub"} => c \in Managers[h]
  /\ cpc' = [cpc EXCEPT ![c] = "send"]
  /\ ncalls' = [ncalls EXCEPT ![c] = @ + 1]
  /\ call' = [call EXCEPT ![c] = [kind |-> k, h |-> h, id |-> <<c, ncalls[c] + 1>>]]
  /\ got' = [got EXCEPT ![c] = None]
  /\ sub' = CASE k = "sub"   -> [sub EXCEPT ![h] = c]
              [] k = "unsub" -> [sub EXCEPT ![h] = None]
              [] OTHER       -> sub
  /\ UNCHANGED <<listener, reader, peer, toPeer, fromPeer, link, ctxDone, used>>

\* A method of Peripheral begins; setNotifyValue registers its callback
\* before it sends the request.
StartCall(c, k, h) ==
  /\ cpc[c] = "idle" /\ ncalls[c] < MaxCalls
  /\ k \in {"sub", "unsub"} => c \in Managers[h]
  /\ cpc' = [cpc EXCEPT ![c] = "send"]
  /\ ncalls' = [ncalls EXCEPT ![c] = @ + 1]
  /\ call' = [call EXCEPT ![c] = [kind |-> k, h |-> h, id |-> <<c, ncalls[c] + 1>>]]
  /\ got' = [got EXCEPT ![c] = None]
  /\ sub' = IF k = "sub" THEN [sub EXCEPT ![h] = c] ELSE sub
  /\ UNCHANGED <<listener, reader, peer, toPeer, fromPeer, link, ctxDone, used>>

\* p.reqCh <- m meets the listener's select; sendCmd returns at once.
Submit(c) ==
  /\ cpc[c] = "send" /\ lpc = "select"
  /\ lpc' = "write" /\ lreq' = call[c]
  /\ cpc' = [cpc EXCEPT ![c] = IF call[c].kind = "cmd" THEN "idle" ELSE "wait"]
  /\ UNCHANGED <<call, ncalls, got, lresp, reader, peer, sub, toPeer, fromPeer,
                 link, ctxDone, used>>

\* The caller's context ends while sendReq or sendCmd waits.
Cancel(c) ==
  /\ cpc[c] \in {"send", "wait"}
  /\ Spend("cancel")
  /\ cpc' = [cpc EXCEPT ![c] = "idle"]
  /\ UNCHANGED <<call, ncalls, got, listener, reader, peer, sub, toPeer, fromPeer,
                 link, ctxDone>>

\* req.respCh <- r meets the caller's receive.  The channel belongs to one
\* call: a later call of the same caller waits on another one.
Receive(c) ==
  /\ cpc[c] = "wait" /\ lpc = "deliver" /\ lreq.id = call[c].id
  /\ got' = [got EXCEPT ![c] = lresp.id]
  /\ cpc' = [cpc EXCEPT ![c] = IF call[c].kind = "unsub" THEN "unsubscribe" ELSE "idle"]
  /\ lpc' = "select" /\ lreq' = None /\ lresp' = None
  /\ UNCHANGED <<call, ncalls, reader, peer, sub, toPeer, fromPeer, link, ctxDone, used>>

\* setNotifyValue with no callback unregisters after the answer, even when
\* the answer is an error.
Unsubscribe(c) ==
  /\ cpc[c] = "unsubscribe"
  /\ sub' = [sub EXCEPT ![call[c].h] = None]
  /\ cpc' = [cpc EXCEPT ![c] = "idle"]
  /\ UNCHANGED <<call, ncalls, got, listener, reader, peer, toPeer, fromPeer, link,
                 ctxDone, used>>
-----------------------------------------------------------------------------
(* The listener goroutine of loop.                                         *)

\* p.l2c.Write(req.b); a message without respCh is done with.
ListenerWrite ==
  /\ lpc = "write"
  /\ IF lreq.kind = "cmd"
     THEN Write("cmd", lreq) /\ lpc' = "select" /\ lreq' = None
     ELSE Write("req", lreq) /\ lpc' = "await" /\ UNCHANGED lreq
  /\ UNCHANGED <<client, lresp, reader, peer, sub, fromPeer, link, ctxDone, used>>

\* Mutant: whatever comes through respCh is taken for the response.
Matches_Any(r, m) == TRUE

\* Does PDU r answer message m?  The opcode is all there is to go by.
Matches(r, m) ==
  \/ r.t = "rsp" /\ r.op = attRespFor(Opcode(m.kind))
  \/ r.t = "err" /\ r.op = Opcode(m.kind)

\* r := <-respCh meets the reader's respCh <- b, and r is the response.
AcceptResponse ==
  /\ lpc = "await" /\ rpc = "hand" /\ Matches(rmsg, lreq)
  /\ lpc' = "deliver" /\ lresp' = rmsg
  /\ rpc' = "read" /\ rmsg' = None
  /\ UNCHANGED <<client, lreq, quit, lost, peer, sub, toPeer, fromPeer, link, ctxDone, used>>

\* Mutant: a mismatched response ends the wait for the right one.
MismatchedResponse_GiveUp ==
  /\ lpc = "await" /\ rpc = "hand" /\ ~ Matches(rmsg, lreq)
  /\ lpc' = "select" /\ lreq' = None
  /\ rpc' = "read" /\ rmsg' = None
  /\ UNCHANGED <<client, lresp, quit, lost, peer, sub, toPeer, fromPeer, link, ctxDone, used>>

\* ... and r is something else.
MismatchedResponse ==
  /\ lpc = "await" /\ rpc = "hand" /\ ~ Matches(rmsg, lreq)
  /\ lpc' = "reject"
  /\ rpc' = "read" /\ rmsg' = None
  /\ UNCHANGED <<client, lreq, lresp, quit, lost, peer, sub, toPeer, fromPeer, link,
                 ctxDone, used>>

\* p.l2c.Write(attErrorResp(...)), then wait on for the response.
Reject ==
  /\ lpc = "reject"
  /\ Write("rej", None)
  /\ lpc' = "await"
  /\ UNCHANGED <<client, lreq, lresp, reader, peer, sub, fromPeer, link, ctxDone, used>>

\* <-p.quitCh or <-ctx.Done(): only the outer select looks at them.
ListenerExit ==
  /\ lpc = "select" /\ (quit \/ ctxDone)
  /\ lpc' = "exited"
  /\ UNCHANGED <<client, lreq, lresp, reader, peer, sub, toPeer, fromPeer, link, ctxDone, used>>
-----------------------------------------------------------------------------
(* The reader: the body of loop.                                           *)

\* p.l2c.Read returns a PDU: a response goes to respCh, the rest is for us.
ReaderRead ==
  /\ rpc = "read" /\ fromPeer # <<>>
  /\ rmsg' = Head(fromPeer) /\ fromPeer' = Tail(fromPeer)
  /\ rpc' = IF Head(fromPeer).t \in {"ntf", "ind"} THEN "dispatch" ELSE "hand"
  /\ UNCHANGED <<client, listener, quit, lost, peer, sub, toPeer, link, ctxDone, used>>

\* Mutant: every notification is confirmed as if it were an indication.
Dispatch_ConfirmAll ==
  /\ rpc = "dispatch"
  /\ lost' = (lost \/ sub[rmsg.h] = None)
  /\ rpc' = "confirm"
  /\ UNCHANGED <<client, listener, rmsg, quit, peer, sub, toPeer, fromPeer, link, ctxDone, used>>

\* Mutant: an indication is dispatched and forgotten.
Dispatch_NoConfirm ==
  /\ rpc = "dispatch"
  /\ lost' = (lost \/ sub[rmsg.h] = None)
  /\ rpc' = "read" /\ rmsg' = None
  /\ UNCHANGED <<client, listener, quit, peer, sub, toPeer, fromPeer, link, ctxDone, used>>

\* f := p.sub.fn(h); the callback runs in a goroutine of its own.
Dispatch ==
  /\ rpc = "dispatch"
  /\ lost' = (lost \/ sub[rmsg.h] = None)
  /\ rpc' = IF rmsg.t = "ind" THEN "confirm" ELSE "read"
  /\ rmsg' = IF rmsg.t = "ind" THEN rmsg ELSE None
  /\ UNCHANGED <<client, listener, quit, peer, sub, toPeer, fromPeer, link, ctxDone, used>>

\* p.l2c.Write([]byte{attrOpHandleCnf})
Confirm ==
  /\ rpc = "confirm"
  /\ Write("cnf", None)
  /\ rpc' = "read" /\ rmsg' = None
  /\ UNCHANGED <<client, listener, quit, lost, peer, sub, fromPeer, link, ctxDone, used>>

\* p.l2c.Read fails once the connection is gone and its data is drained.
ReaderQuit ==
  /\ rpc = "read" /\ fromPeer = <<>> /\ ~ link
  /\ quit' = TRUE /\ rpc' = "exited"
  /\ UNCHANGED <<client, listener, rmsg, lost, peer, sub, toPeer, fromPeer, link, ctxDone, used>>
-----------------------------------------------------------------------------
(* The environment: the peer, the link and the owner of the device.        *)

InPdu(t, op, id, h) == [t |-> t, op |-> op, id |-> id, h |-> h]

\* The peer answers the request at the head of its queue; a successful
\* write of the configuration takes effect before the answer is sent.
PeerAnswer ==
  /\ link /\ toPeer # <<>> /\ Head(toPeer).t = "req"
  /\ toPeer' = Tail(toPeer)
  /\ LET m == Head(toPeer).m IN
     \/ /\ fromPeer' = Append(fromPeer,
                         InPdu("rsp", attRespFor(Opcode(m.kind)), m.id, None))
        /\ ccc' = IF m.kind \in {"sub", "unsub"}
                  THEN [ccc EXCEPT ![m.h] = (m.kind = "sub")] ELSE ccc
     \/ /\ m.kind \in ErrKinds
        /\ fromPeer' = Append(fromPeer, InPdu("err", Opcode(m.kind), m.id, None))
        /\ UNCHANGED ccc
  /\ UNCHANGED <<client, listener, reader, indOut, preqOut, sub, link, ctxDone, used>>

\* The peer takes a command, a confirmation or an Error Response.
PeerTake ==
  /\ link /\ toPeer # <<>> /\ Head(toPeer).t # "req"
  /\ toPeer' = Tail(toPeer)
  /\ indOut' = (indOut /\ Head(toPeer).t # "cnf")
  /\ preqOut' = (preqOut /\ Head(toPeer).t # "rej")
  /\ UNCHANGED <<client, listener, reader, ccc, sub, fromPeer, link, ctxDone, used>>

PeerNotify(h) ==
  /\ link /\ ccc[h] /\ Spend("notify")
  /\ \/ /\ fromPeer' = Append(fromPeer, InPdu("ntf", "none", None, h))
        /\ UNCHANGED indOut
     \/ /\ ~ indOut /\ indOut' = TRUE
        /\ fromPeer' = Append(fromPeer, InPdu("ind", "none", None, h))
  /\ UNCHANGED <<client, listener, reader, ccc, preqOut, sub, toPeer, link, ctxDone>>

\* The peer is a client of ours as well: it asks for an MTU, say.
PeerRequest ==
  /\ link /\ ~ preqOut /\ Spend("peerreq")
  /\ preqOut' = TRUE
  /\ fromPeer' = Append(fromPeer, InPdu("req", "MtuReq", None, None))
  /\ UNCHANGED <<client, listener, reader, ccc, indOut, sub, toPeer, link, ctxDone>>

\* Disconnection: what was received can still be read, the rest is lost.
LinkDrop ==
  /\ link /\ Spend("drop")
  /\ link' = FALSE /\ toPeer' = <<>>
  /\ UNCHANGED <<client, listener, reader, peer, sub, fromPeer, ctxDone>>

\* The context given to Device.Start ends.
LoopCtxDone ==
  /\ ~ ctxDone /\ Spend("stop")
  /\ ctxDone' = TRUE
  /\ UNCHANGED <<client, listener, reader, peer, sub, toPeer, fromPeer, link>>
-----------------------------------------------------------------------------
CallerStep(c) == Submit(c) \/ Receive(c) \/ Unsubscribe(c)
ListenerStep == ListenerWrite \/ AcceptResponse \/ MismatchedResponse \/ Reject \/ ListenerExit
ReaderStep == ReaderRead \/ Dispatch \/ Confirm \/ ReaderQuit
PeerStep == PeerAnswer \/ PeerTake

Next ==
  \/ \E c \in Callers, k \in Kinds, h \in Handles : StartCall(c, k, h)
  \/ \E c \in Callers : CallerStep(c) \/ Cancel(c)
  \/ ListenerStep
  \/ ReaderStep
  \/ PeerStep
  \/ \E h \in Handles : PeerNotify(h)
  \/ PeerRequest \/ LinkDrop \/ LoopCtxDone

Spec == Init /\ [][Next]_vars

\* Go runs every goroutine that can run; a sender blocked on reqCh is queued
\* and is served in turn, hence strong fairness for Submit.  The peer answers.
Fairness ==
  /\ \A c \in Callers : SF_vars(Submit(c)) /\ WF_vars(Receive(c)) /\ WF_vars(Unsubscribe(c))
  /\ WF_vars(ListenerStep) /\ WF_vars(ReaderStep) /\ WF_vars(PeerStep)

FairSpec == Spec /\ Fairness
-----------------------------------------------------------------------------
(* Properties.                                                             *)

\* The PDU is the answer to a request of ours.
IsAnswer(r) == r.t \in {"rsp", "err"}

\* The requests on their way out, and the answers on their way in or in the
\* reader's hands.
OutReqs == {i \in DOMAIN toPeer : toPeer[i].t = "req"}
Answers == {i \in DOMAIN fromPeer : IsAnswer(fromPeer[i])}
InHand  == rpc = "hand" /\ IsAnswer(rmsg)

\* The ATT sequential protocol: however many goroutines call, at most one
\* request is between the listener and its answer, counting the request on
\* its way out, the answer on its way in and the answer in the reader's hands;
\* and while there is one, the listener is waiting for exactly that one, so
\* the reader is never stuck with an answer nobody will take
\* (loop: "Serialize the request.").
SequentialRequests ==
  /\ \A i, j \in OutReqs : i = j
  /\ \A i, j \in Answers : i = j
  /\ OutReqs = {} \/ Answers = {}
  /\ InHand => OutReqs = {} /\ Answers = {} /\ rmsg.id = lreq.id
  /\ \A i \in OutReqs : toPeer[i].m = lreq
  /\ \A i \in Answers : fromPeer[i].id = lreq.id
  /\ OutReqs # {} \/ Answers # {} \/ InHand => lpc \in {"await", "reject"}

\* No caller is ever given the response to another call, its own earlier and
\* abandoned calls included (sendReq, and the opcode match in loop).
OwnResponse ==
  /\ lpc = "deliver" => lresp.id = lreq.id
  /\ \A c \in Callers : got[c] # None => got[c] = call[c].id

\* With one goroutine managing a characteristic and a peer that does not
\* refuse to stop, no notification or indication finds its callback missing:
\* setNotifyValue registers before the request and unregisters after the answer.
NoNotificationLost == ~ lost

\* The confirmations on their way out, the indications on their way in, and
\* the one the reader is handling.
Cnfs == {i \in DOMAIN toPeer : toPeer[i].t = "cnf"}
Inds == {i \in DOMAIN fromPeer : fromPeer[i].t = "ind"}
IndHeld == rpc \in {"dispatch", "confirm"} /\ rmsg.t = "ind"

\* An indication is confirmed exactly once: a confirmation is only ever on its
\* way while the peer waits for it, and then the indication is not pending too.
ConfirmedOnce ==
  /\ \A i, j \in Cnfs : i = j
  /\ \A i, j \in Inds : i = j
  /\ Cnfs = {} \/ Inds = {}
  /\ IndHeld => Cnfs = {} /\ Inds = {}
  /\ Cnfs # {} \/ Inds # {} \/ IndHeld => indOut

\* Every call returns.
CallsReturn == \A c \in Callers : cpc[c] # "idle" ~> cpc[c] = "idle"

\* Every call returns, unless the context of some call is cancelled, the link
\* is lost or the device's context ends: the peer's errors, commands, requests
\* and notifications of other goroutines never keep a call from its answer.
CallsReturnUndisturbed ==
  \A c \in Callers :
    cpc[c] # "idle" ~> (cpc[c] = "idle" \/ used["cancel"] > 0 \/ ~ link \/ ctxDone)

\* Every indication on a live link is confirmed (loop: "write acknowledgement
\* for indication"), unless the reader is stuck for ever with a PDU for a
\* listener that does not come for it.
ConfirmedUnlessStuck == []<>(~ indOut \/ ~ link) \/ <>[](rpc = "hand")
=============================================================================
