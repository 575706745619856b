----------------------------- MODULE PacketPool -----------------------------
(***************************************************************************)
(* The buffers of the HCI main loop (linux/hci.go mainLoop, handlePacket,  *)
(* Close; linux/util/byte_pool.go), and how long a handler looks into one. *)
(*                                                                         *)
(* mainLoop gets a buffer from the pool, reads a packet into it and handles*)
(* it.  ACL data is copied before the buffer goes back.  An event is       *)
(* dispatched in a goroutine that puts the buffer back when the handler has*)
(* returned; but the handlers of LE meta events only start another         *)
(* goroutine, and HandleComplete passes a slice of the buffer on to the    *)
(* Send that waits for it.  Both look at the buffer later.                 *)
(*                                                                         *)
(* Names are distinct from those of L2cap: PacketProofs extends both.      *)
(***************************************************************************)
EXTENDS Naturals, Sequences, FiniteSets

CONSTANTS
  Bufs,      \* byte slices
  Depth,     \* the capacity of BytePool.Pool
  Kinds,     \* the kinds of packets the controller sends
  MaxPackets,\* bound: packets
  OpenConns, \* connections in HCI.conns when Close is called
  None

\* acl: handled in mainLoop; direct: an event its handler parses before it
\* returns; late: an event that is parsed, or looked at, after that; other: a
\* packet that is not handled.
AllKinds == {"acl", "direct", "late", "other"}
Packets == 1 .. MaxPackets

ASSUME PoolAssumption ==
  /\ Kinds \subseteq AllKinds /\ Depth \in Nat \ {0} /\ OpenConns \in Nat
  /\ MaxPackets \in Nat /\ None \notin Bufs /\ None \notin Packets /\ None \notin AllKinds

VARIABLES
  content, \* the packet each buffer holds
  pool,    \* BytePool.Pool, a channel
  open,    \* BytePool.Pool is not nil
  mpc,     \* program counter of mainLoop
  mbuf,    \* its buffer
  npkts,   \* packets read so far
  kind,    \* the kind of each packet
  gpc,     \* program counter of the goroutine of each packet
  gbuf,    \* its buffer
  late,    \* packets that are yet to be looked at after their handler returned
  seen,    \* what the handler of a packet found in its buffer
  cpc      \* program counter of HCI.Close

goroutines == <<kind, gpc, gbuf, late, seen>>
poolVars == <<content, pool, open, mpc, mbuf, npkts, goroutines, cpc>>

PoolTypeOK ==
  /\ content \in [Bufs -> Packets \cup {None}]
  /\ pool \in Seq(Bufs) /\ Len(pool) <= Depth
  /\ open \in BOOLEAN
  /\ mpc \in {"get", "read", "handle", "exit", "done"}
  /\ mbuf \in Bufs \cup {None} /\ (mpc \in {"read", "handle"} => mbuf # None)
  /\ npkts \in 0 .. MaxPackets
  /\ kind \in [Packets -> AllKinds \cup {None}]
  /\ gpc \in [Packets -> {"none", "dispatch", "put", "done"}]
  /\ gbuf \in [Packets -> Bufs \cup {None}]
  /\ \A p \in Packets : gpc[p] \in {"dispatch", "put"} \/ p \in late => gbuf[p] # None
  /\ late \subseteq Packets
  /\ seen \in [Packets -> Packets \cup {None}]
  /\ cpc \in {"open", "join", "conns", "closed"}

PoolInit ==
  /\ content = [b \in Bufs |-> None]
  /\ pool = <<>> /\ open = TRUE
  /\ mpc = "get" /\ mbuf = None /\ npkts = 0
  /\ kind = [p \in Packets |-> None]
  /\ gpc = [p \in Packets |-> "none"] /\ gbuf = [p \in Packets |-> None]
  /\ late = {} /\ seen = [p \in Packets |-> None]
  /\ cpc = "open"

InPool(b) == \E i \in DOMAIN pool : pool[i] = b
Running(p) == gpc[p] \in {"dispatch", "put"}

\* The buffers somebody still refers to; make([]byte, p.Width) returns another.
Reachable == {b \in Bufs : InPool(b) \/ b = mbuf
                             \/ \E p \in Packets : gbuf[p] = b /\ (Running(p) \/ p \in late)}

\* BytePool.Put: the buffer is discarded when the pool is full or closed.
Put(b) == pool' = IF open /\ Len(pool) < Depth THEN Append(pool, b) ELSE pool
-----------------------------------------------------------------------------
(* mainLoop.                                                               *)

\* h.pool.Get()
Get ==
  /\ mpc = "get" /\ open
  /\ IF pool # <<>> THEN mbuf' = Head(pool) /\ pool' = Tail(pool)
     ELSE mbuf' \in Bufs \ Reachable /\ UNCHANGED pool
  /\ mpc' = "read"
  /\ UNCHANGED <<content, open, npkts, goroutines, cpc>>

\* The pool is closed: a nil buffer ends the loop.
GetNil ==
  /\ mpc = "get" /\ ~ open
  /\ mpc' = "exit"
  /\ UNCHANGED <<content, pool, open, mbuf, npkts, goroutines, cpc>>

\* h.device.Read(b)
ReadPacket(k) ==
  /\ mpc = "read" /\ npkts < MaxPackets
  /\ npkts' = npkts + 1
  /\ content' = [content EXCEPT ![mbuf] = npkts + 1]
  /\ kind' = [kind EXCEPT ![npkts + 1] = k]
  /\ mpc' = "handle"
  /\ UNCHANGED <<pool, open, mbuf, gpc, gbuf, late, seen, cpc>>

\* Nothing was read, or EINTR: the loop goes on, and leaves its buffer.
ReadNothing ==
  /\ mpc = "read"
  /\ mpc' = "get" /\ mbuf' = None
  /\ UNCHANGED <<content, pool, open, npkts, goroutines, cpc>>

\* Any other error ends the loop.
ReadError ==
  /\ mpc = "read"
  /\ mpc' = "exit" /\ mbuf' = None
  /\ UNCHANGED <<content, pool, open, npkts, goroutines, cpc>>

\* Mutant: ACL data is a slice of the buffer, looked at by conn.loop.
HandleHere_NoCopy ==
  /\ mpc = "handle" /\ kind[npkts] \in {"acl", "other"}
  /\ late' = IF kind[npkts] = "acl" THEN late \cup {npkts} ELSE late
  /\ gbuf' = [gbuf EXCEPT ![npkts] = mbuf]
  /\ Put(mbuf)
  /\ mpc' = "get" /\ mbuf' = None
  /\ UNCHANGED <<content, open, npkts, kind, gpc, seen, cpc>>

\* handlePacket of ACL data, copied by aclData.unmarshal, and of packets that
\* are not handled; the buffer goes back.
HandleHere ==
  /\ mpc = "handle" /\ kind[npkts] \in {"acl", "other"}
  /\ seen' = IF kind[npkts] = "acl" THEN [seen EXCEPT ![npkts] = content[mbuf]] ELSE seen
  /\ Put(mbuf)
  /\ mpc' = "get" /\ mbuf' = None
  /\ UNCHANGED <<content, open, npkts, kind, gpc, gbuf, late, cpc>>

\* Mutant: the main loop puts the buffer of an event back as well.
StartDispatch_Put ==
  /\ mpc = "handle" /\ kind[npkts] \in {"direct", "late"}
  /\ gpc' = [gpc EXCEPT ![npkts] = "dispatch"] /\ gbuf' = [gbuf EXCEPT ![npkts] = mbuf]
  /\ Put(mbuf)
  /\ mpc' = "get" /\ mbuf' = None
  /\ UNCHANGED <<content, open, npkts, kind, late, seen, cpc>>

\* handlePacket of an event: a goroutine dispatches it and owns the buffer.
StartDispatch ==
  /\ mpc = "handle" /\ kind[npkts] \in {"direct", "late"}
  /\ gpc' = [gpc EXCEPT ![npkts] = "dispatch"] /\ gbuf' = [gbuf EXCEPT ![npkts] = mbuf]
  /\ mpc' = "get" /\ mbuf' = None
  /\ UNCHANGED <<content, pool, open, npkts, kind, late, seen, cpc>>
-----------------------------------------------------------------------------
(* The goroutines of the events.                                           *)

\* Event.Dispatch: the handler parses the event, or leaves that for later.
Dispatch(p) ==
  /\ gpc[p] = "dispatch"
  /\ IF kind[p] = "direct"
     THEN seen' = [seen EXCEPT ![p] = content[gbuf[p]]] /\ UNCHANGED late
     ELSE late' = late \cup {p} /\ UNCHANGED seen
  /\ gpc' = [gpc EXCEPT ![p] = "put"]
  /\ UNCHANGED <<content, pool, open, mpc, mbuf, npkts, kind, gbuf, cpc>>

\* h.pool.Put(buf)
PutBack(p) ==
  /\ gpc[p] = "put"
  /\ Put(gbuf[p])
  /\ gpc' = [gpc EXCEPT ![p] = "done"]
  /\ UNCHANGED <<content, open, mpc, mbuf, npkts, kind, gbuf, late, seen, cpc>>

\* handleConnection, handleAdvertisement, handleLTKRequest in their goroutines;
\* SendAndCheckResp comparing the return parameters.
LookLater(p) ==
  /\ p \in late
  /\ late' = late \ {p}
  /\ seen' = [seen EXCEPT ![p] = content[gbuf[p]]]
  /\ UNCHANGED <<content, pool, open, mpc, mbuf, npkts, kind, gpc, gbuf, cpc>>
-----------------------------------------------------------------------------
(* HCI.Close.                                                              *)

\* Mutant: the channel is closed and not set to nil, so that it gives nil
\* buffers but the loop is not told apart from one with an empty pool.
ClosePool_Keep ==
  /\ cpc = "open"
  /\ UNCHANGED open /\ pool' = <<>>
  /\ cpc' = "join"
  /\ UNCHANGED <<content, mpc, mbuf, npkts, goroutines>>

\* h.pool.Close()
ClosePool ==
  /\ cpc = "open"
  /\ open' = FALSE /\ pool' = <<>>
  /\ cpc' = "join"
  /\ UNCHANGED <<content, mpc, mbuf, npkts, goroutines>>

\* <-h.loopDone meets the deferred h.loopDone <- true.
Join ==
  /\ cpc = "join" /\ mpc = "exit"
  /\ mpc' = "done" /\ cpc' = "conns"
  /\ UNCHANGED <<content, pool, open, mbuf, npkts, goroutines>>

\* c.Close() for every connection sends a Disconnect and waits for the answer,
\* which only mainLoop could read; then the device is closed.
CloseConns ==
  /\ cpc = "conns" /\ (OpenConns = 0 \/ mpc # "done")
  /\ cpc' = "closed"
  /\ UNCHANGED <<content, pool, open, mpc, mbuf, npkts, goroutines>>
-----------------------------------------------------------------------------
MainStep == Get \/ GetNil \/ (\E k \in Kinds : ReadPacket(k)) \/ ReadNothing
              \/ HandleHere \/ StartDispatch
EventStep(p) == Dispatch(p) \/ PutBack(p) \/ LookLater(p)
CloseStep == ClosePool \/ Join \/ CloseConns

PoolNext == MainStep \/ ReadError \/ (\E p \in Packets : EventStep(p)) \/ CloseStep

PoolSpec == PoolInit /\ [][PoolNext]_poolVars

\* The loop reads again within 100 ms, the goroutines run, and Close, once
\* called, goes on.  Nothing obliges the application to close.
PoolFairSpec ==
  /\ PoolSpec
  /\ WF_poolVars(MainStep)
  /\ \A p \in Packets : WF_poolVars(EventStep(p))
  /\ WF_poolVars(Join \/ CloseConns)
-----------------------------------------------------------------------------
(* Properties.                                                             *)

\* What a handler finds in its buffer is the packet it was started for.
ParsedIntact == \A p \in Packets : seen[p] \in {None, p}

\* ... if it looks before it returns, as those of ACL data, disconnections,
\* completed packets and command status do.
EarlyIntact == \A p \in Packets : kind[p] # "late" => seen[p] \in {None, p}

\* A buffer has one owner: it is in the pool once, or mainLoop has it, or the
\* goroutine of one event.
OneOwner ==
  /\ \A i, j \in DOMAIN pool : pool[i] = pool[j] => i = j
  /\ mbuf # None => ~ InPool(mbuf)
  /\ \A p \in Packets : Running(p) => /\ gbuf[p] # mbuf /\ ~ InPool(gbuf[p])
                                      /\ \A q \in Packets : Running(q) /\ gbuf[q] = gbuf[p] => q = p

\* HCI.Close returns.
CloseReturns == cpc = "join" ~> cpc = "closed"
=============================================================================
