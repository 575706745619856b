------------------------------ MODULE GattCalls ------------------------------
(***************************************************************************)
(* The operations of a peripheral of the Android backends over Binder and  *)
(* over a JNI proxy (android/binder/peripheral.go and                      *)
(* android/jniproxy/peripheral.go).  Both send a request and wait for the  *)
(* callback in a channel of capacity one that belongs to the peripheral,   *)
(* one channel for each kind of operation: it is never emptied, and it     *)
(* outlives an operation and a connection.                                 *)
(***************************************************************************)
EXTENDS Naturals, Sequences, FiniteSets

CONSTANTS
  Callers,  \* goroutines that use the peripheral
  Kinds,    \* the kinds of operations
  MaxGen,   \* bound: connection attempts
  MaxReq    \* bound: requests sent to the Bluetooth stack

Gens == 1 .. MaxGen
NoCaller == "nobody"

VARIABLES
  outstanding,  \* requests the stack has taken and not answered
  nreq,         \* number of requests sent so far
  chan,         \* chan[k]: the channel of operation k
  call,         \* call[p]: the operation of caller p
  mixed         \* auxiliary: kinds with an answer or a value nobody can place

calls == <<outstanding, nreq, chan, call, mixed>>

Nothing == [id |-> 0, by |-> NoCaller]
Idle == [pc |-> "idle", kind |-> "none", gen |-> 0, id |-> 0, res |-> Nothing]

CallsInit ==
  /\ outstanding = {} /\ nreq = 0 /\ chan = [k \in Kinds |-> <<>>]
  /\ call = [p \in Callers |-> Idle] /\ mixed = {}

\* A send with a default branch into a channel of capacity one.
Offer(c, v) == IF c = <<>> THEN <<v>> ELSE c

\* Another operation of the kind is under way.
Overlaps(p, k) == \E q \in Callers \ {p} : call[q].pc # "idle" /\ call[q].kind = k

\* Caller p sends a request that carries a value of caller v, to attempt g (0
\* when no link will answer it), and waits.
Send(p, k, g, v) ==
  /\ nreq' = nreq + 1
  /\ outstanding' = IF g = 0 THEN outstanding
                    ELSE outstanding \cup {[id |-> nreq', kind |-> k, gen |-> g, by |-> v]}
  /\ call' = [call EXCEPT ![p] = [Idle EXCEPT !.pc = "wait", !.kind = k, !.gen = g, !.id = nreq']]
  /\ mixed' = IF Overlaps(p, k) THEN mixed \cup {k} ELSE mixed

Answered(r) == [id |-> r.id, by |-> r.by]

\* The operation takes an answer from its channel and returns it.
TakeAnswer(p, next) ==
  LET k == call[p].kind
  IN /\ call[p].pc = "wait" /\ chan[k] # <<>>
     /\ chan' = [chan EXCEPT ![k] = Tail(@)]
     /\ call' = [call EXCEPT ![p].pc = next, ![p].res = Head(chan[k])]
     /\ UNCHANGED <<outstanding, nreq, mixed>>

\* The context of the caller ends first: the request stays behind.
CancelCall(p) ==
  /\ call[p].pc = "wait"
  /\ call' = [call EXCEPT ![p] = Idle]
  /\ mixed' = mixed \cup {call[p].kind}
  /\ UNCHANGED <<outstanding, nreq, chan>>

Return(p) ==
  /\ call[p].pc = "done"
  /\ call' = [call EXCEPT ![p] = Idle]
  /\ UNCHANGED <<outstanding, nreq, chan, mixed>>

-------------------------------------------------------------------------------
\* An operation returns the answer to the request it sent, and the request
\* carried its own value, unless an operation of its kind was cancelled,
\* overlapped another or did not wait for its answer: no lost link, no second
\* connection and no operation of another kind leaves a foreign answer.
OwnResult ==
  \A p \in Callers :
    call[p].pc = "done" /\ call[p].kind \notin mixed
      => call[p].res = [id |-> call[p].id, by |-> p]
===============================================================================
