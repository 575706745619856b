---------------------------- MODULE HciCmdProofs ----------------------------
(***************************************************************************)
(* Proofs about HciCmd, for any senders, opcodes and bounds.               *)
(***************************************************************************)
EXTENDS HciCmd, TLAPS, WellFoundedInduction

(* A packet of q; commands still to be matched with their answers. *)
In(c, q) == \E i \in DOMAIN q : q[i] = c
Pending(c) == In(c, ctrl) \/ (\E e \in events : e.cmd = c) \/ (ppc = "match" /\ pev.cmd = c)

\* Commands are numbered by their senders, within the bounds.
CountInv ==
  /\ \A s \in Senders : nsent[s] <= MaxSends[s] /\ (pc[s] # "idle" => nsent[s] > 0)
  /\ ppc = "deliver" => pev.t = "complete"
  /\ ppc = "select" => pev = None

Types == TypeOK /\ CountInv

\* c was put into Cmd.sent at some time.
Born(c) == c[2] <= nsent[c[1]] /\ (pc[c[1]] = "append" => c[2] < nsent[c[1]])
AllBorn(q) == \A i \in DOMAIN q : q[i] # Nil => Born(q[i])

\* No slice and nobody else has a packet before its sender appends it.
PacketInv ==
  /\ AllBorn(sent) /\ AllBorn(psnap) /\ \A s \in Senders : AllBorn(snap[s])
  /\ \A c \in closed : Born(c)
  /\ ptarget # None => Born(ptarget)

\* The controller answers a command once, after it was written, with the kind
\* of event its opcode calls for; only a packet of that opcode is answered.
EventInv ==
  /\ \A i, j \in DOMAIN ctrl : ctrl[i] = ctrl[j] => i = j
  /\ \A e, f \in events : e.cmd = f.cmd => e = f
  /\ \A i \in DOMAIN ctrl : \A e \in events : ctrl[i] # e.cmd
  /\ pev # None => ~ In(pev.cmd, ctrl) /\ \A e \in events : e.cmd # pev.cmd
  /\ \A c \in Cmds : Pending(c) \/ (pev # None /\ c = pev.cmd) =>
       c[2] <= nsent[c[1]] /\ (c = Cur(c[1]) => pc[c[1]] \notin {"append", "write"})
  /\ \A e \in events : e.t = "status" <=> OpOf(e.cmd) \in StatusOps
  /\ pev # None => (pev.t = "status" <=> OpOf(pev.cmd) \in StatusOps)
  /\ ppc = "deliver" => OpOf(ptarget) = OpOf(pev.cmd)
  /\ \A c \in closed : OpOf(c) \in StatusOps

\* As long as no two goroutines were at Cmd.sent at the same time: what was
\* loaded is what is there, the packets of a sender are in order, and none is
\* answered twice or lost.
UnracedInv ==
  /\ ppc = "match" => psnap = sent /\ \A s \in Senders : pc[s] # "append"
  /\ \A s \in Senders : pc[s] = "append" => snap[s] = sent
  /\ \A s, t \in Senders : pc[s] = "append" /\ pc[t] = "append" => s = t
  /\ \A i \in DOMAIN sent : sent[i] # Nil /\ sent[i] \notin closed
  /\ \A i, j \in DOMAIN sent : i < j => sent[i] # sent[j] /\ (sent[i][1] = sent[j][1] => sent[i][2] < sent[j][2])
  /\ ppc = "deliver" => ~ In(ptarget, sent)
  /\ \A s \in Senders : pc[s] \in {"write", "wait"} =>
       In(Cur(s), sent) \/ (ppc = "deliver" /\ ptarget = Cur(s)) \/ Cur(s) \in closed

\* An answer that is not the one its packet asked for blocks the processor for
\* good; until then the packet of every command to be answered is there.
OrderInv ==
  /\ ppc = "deliver" => ptarget[2] <= pev.cmd[2]
  /\ \/ ppc = "deliver" /\ ptarget # pev.cmd
     \/ /\ \A c \in Cmds : Pending(c) /\ OpOf(c) \notin StatusOps => In(c, sent)
        /\ \A s \in Senders : pc[s] = "write" /\ Op[s] \notin StatusOps => In(Cur(s), sent)

\* As long as no Send gave up waiting, only the commands that are waited for
\* are to be answered.
Unanswered(c) == Pending(c) \/ (pev # None /\ c = pev.cmd)
WaitInv ==
  /\ \A c \in Cmds : Unanswered(c) =>
       c = Cur(c[1]) /\ pc[c[1]] = "wait" /\ c \notin closed
  /\ \A s \in Senders : pc[s] \in {"append", "write"} => Cur(s) \notin closed

OwnInv ==
  /\ ~ raced => OrderInv
  /\ cancels = 0 => WaitInv
  /\ OwnAnswer

\* No two senders use the same opcode; the commands whose answer is checked are
\* answered with CommandComplete.
OneOpcode == \A s, t \in Senders : Op[s] = Op[t] => s = t
CheckedComplete == \A s \in Checked : Op[s] \notin StatusOps

CmdInv == Types /\ PacketInv /\ EventInv /\ (raced \/ UnracedInv)

(* What the commands are. *)
LEMMA CmdFacts ==
  /\ \A c \in Cmds : c = <<c[1], c[2]>> /\ c[1] \in Senders /\ c[2] \in Nat /\ c[2] > 0 /\ c[2] <= MaxSends[c[1]]
  /\ \A s \in Senders : \A n \in Nat : n > 0 /\ n <= MaxSends[s] => <<s, n>> \in Cmds
  /\ Nil \notin Cmds /\ None \notin Cmds /\ None \notin Events
  /\ \A e \in Events : e.cmd \in Cmds /\ e.t \in {"complete", "status"}
  /\ <<>> \in Slices /\ DOMAIN <<>> = {} /\ \A s \in Senders : MaxSends[s] \in Nat
<1>1. \A c \in Cmds : c = <<c[1], c[2]>> /\ c[1] \in Senders /\ c[2] \in Nat /\ c[2] > 0 /\ c[2] <= MaxSends[c[1]]
  <2> TAKE c \in Cmds
  <2>1. PICK s \in Senders : c \in {s} \X (1 .. MaxSends[s])
    BY DEF Cmds
  <2>2. MaxSends[s] \in Nat
    BY CmdAssumption
  <2> QED
    BY <2>1, <2>2
<1>2. \A s \in Senders : \A n \in Nat : n > 0 /\ n <= MaxSends[s] => <<s, n>> \in Cmds
  <2> TAKE s \in Senders
  <2> TAKE n \in Nat
  <2> HAVE n > 0 /\ n <= MaxSends[s]
  <2>1. <<s, n>> \in {s} \X (1 .. MaxSends[s])
    BY CmdAssumption
  <2> QED
    BY <2>1 DEF Cmds
<1>3. \A e \in Events : e.cmd \in Cmds /\ e.t \in {"complete", "status"}
  BY DEF Events
<1>4. <<>> \in Slices /\ DOMAIN <<>> = {}
  BY DEF Slices
<1>5. \A s \in Senders : MaxSends[s] \in Nat
  BY CmdAssumption
<1> QED
  BY <1>1, <1>2, <1>3, <1>4, <1>5, CmdAssumption

(* The command of a sender that is sending. *)
LEMMA CurFacts ==
  ASSUME Types, NEW s \in Senders
  PROVE  /\ Cur(s)[1] = s /\ Cur(s)[2] = nsent[s] /\ nsent[s] \in Nat
         /\ pc[s] # "idle" => Cur(s) \in Cmds /\ Cur(s) # Nil /\ Cur(s) # None
         /\ \A c \in Cmds : c[1] = s /\ c[2] = nsent[s] => c = Cur(s)
<1>1. Cur(s)[1] = s /\ Cur(s)[2] = nsent[s] /\ nsent[s] \in Nat
  BY DEF Cur, Types, TypeOK
<1>2. pc[s] # "idle" => Cur(s) \in Cmds /\ Cur(s) # Nil /\ Cur(s) # None
  BY <1>1, CmdFacts DEF Types, CountInv, Cur
<1>3. \A c \in Cmds : c[1] = s /\ c[2] = nsent[s] => c = Cur(s)
  BY CmdFacts DEF Cur
<1> QED
  BY <1>1, <1>2, <1>3

(* The least element of a nonempty set of numbers. *)
LEMMA FirstFacts ==
  ASSUME NEW I \in SUBSET Nat, I # {}
  PROVE  First(I) \in I /\ \A j \in I : First(I) <= j
<1> DEFINE R == OpToRel(<, Nat)
<1>1. IsWellFoundedOn(R, Nat)
  BY NatLessThanWellFounded
<1>2. \A x, y \in Nat : <<x, y>> \in R <=> x < y
  BY DEF OpToRel
<1> HIDE DEF R
<1>3. PICK x \in I : \A y \in I : ~ (<<y, x>> \in R)
  BY <1>1, WFMin
<1>4. \A j \in I : x <= j
  <2> TAKE j \in I
  <2>1. ~ (j < x)
    BY <1>2, <1>3, Zenon
  <2> QED
    BY <2>1
<1>5. \E i \in I : \A j \in I : i <= j
  BY <1>4
<1> QED
  BY <1>5 DEF First

(* slices.Delete keeps every packet but one, in order. *)
LEMMA DeleteFacts ==
  ASSUME NEW q \in Slices, NEW i \in DOMAIN q
  PROVE  /\ Delete(q, i) \in Slices
         /\ \A k \in DOMAIN Delete(q, i) : \/ k < i /\ k \in DOMAIN q /\ Delete(q, i)[k] = q[k]
                                           \/ k >= i /\ k + 1 \in DOMAIN q /\ Delete(q, i)[k] = q[k + 1]
         /\ \A j \in DOMAIN q : j # i => In(q[j], Delete(q, i))
         /\ \A k \in DOMAIN Delete(q, i) : k \in Nat
<1>1. DOMAIN q = 1 .. Len(q) /\ Len(q) \in Nat /\ i \in Nat /\ i >= 1 /\ i <= Len(q)
  BY DEF Slices
<1>2. Len(q) - 1 \in Nat /\ DOMAIN Delete(q, i) = 1 .. Len(q) - 1
  BY <1>1 DEF Delete
<1>3. \A k \in DOMAIN Delete(q, i) : \/ k < i /\ k \in DOMAIN q /\ Delete(q, i)[k] = q[k]
                                     \/ k >= i /\ k + 1 \in DOMAIN q /\ Delete(q, i)[k] = q[k + 1]
  BY <1>1, <1>2 DEF Delete
<1>4. \A k \in DOMAIN q : q[k] \in Cmds \cup {Nil}
  BY DEF Slices
<1>5. Delete(q, i) \in Slices
  <2>1. \A k \in 1 .. Len(q) - 1 : Delete(q, i)[k] \in Cmds \cup {Nil}
    BY <1>2, <1>3, <1>4
  <2>2. Delete(q, i) \in [1 .. Len(q) - 1 -> Cmds \cup {Nil}]
    BY <2>1 DEF Delete
  <2> QED
    BY <1>2, <2>2 DEF Slices
<1>6. \A j \in DOMAIN q : j # i => In(q[j], Delete(q, i))
  <2> TAKE j \in DOMAIN q
  <2> HAVE j # i
  <2>1. CASE j < i
    <3>1. j \in DOMAIN Delete(q, i) /\ Delete(q, i)[j] = q[j]
      BY <1>1, <1>2, <1>3, <2>1
    <3> QED
      BY <3>1 DEF In
  <2>2. CASE j > i
    <3>1. j - 1 \in DOMAIN Delete(q, i) /\ Delete(q, i)[j - 1] = q[j]
      BY <1>1, <1>2, <1>3, <2>2
    <3> QED
      BY <3>1 DEF In
  <2> QED
    BY <1>1, <2>1, <2>2
<1> QED
  BY <1>2, <1>3, <1>5, <1>6

(* A stale slice shows packets it had, or nil. *)
LEMMA ShiftedFacts ==
  ASSUME NEW q \in Slices
  PROVE  /\ Shifted(q) \in Slices
         /\ \A i \in DOMAIN Shifted(q) : Shifted(q)[i] = Nil \/ In(Shifted(q)[i], q)
<1> DEFINE kept == {k \in DOMAIN q : \E i \in DOMAIN sent : sent[i] = q[k]}
           place(i) == {k \in kept : Cardinality({j \in kept : j <= k}) = i}
<1>1. Shifted(q) = [i \in 1 .. Len(q) |-> IF place(i) = {} THEN Nil ELSE q[CHOOSE k \in place(i) : TRUE]]
  BY DEF Shifted
<1>2. \A i : place(i) \subseteq DOMAIN q
  OBVIOUS
<1> HIDE DEF place
<1>3. \A i : place(i) # {} => (CHOOSE k \in place(i) : TRUE) \in DOMAIN q
  BY <1>2
<1>4. Len(q) \in Nat /\ \A k \in DOMAIN q : q[k] \in Cmds \cup {Nil}
  BY DEF Slices
<1>5. \A i \in 1 .. Len(q) : Shifted(q)[i] \in Cmds \cup {Nil} /\ (Shifted(q)[i] = Nil \/ In(Shifted(q)[i], q))
  <2> TAKE i \in 1 .. Len(q)
  <2>1. CASE place(i) = {}
    BY <1>1, <2>1
  <2>2. CASE place(i) # {}
    <3>1. PICK k \in DOMAIN q : Shifted(q)[i] = q[k]
      BY <1>1, <1>3, <2>2
    <3> QED
      BY <1>4, <3>1 DEF In
  <2> QED
    BY <2>1, <2>2
<1>6. Shifted(q) \in [1 .. Len(q) -> Cmds \cup {Nil}]
  BY <1>1, <1>5
<1> QED
  BY <1>4, <1>5, <1>6 DEF Slices

(* A packet is behind the others when it is appended. *)
LEMMA AppendFacts ==
  ASSUME NEW S, NEW q \in Seq(S), NEW x \in S
  PROVE  /\ Append(q, x) \in Seq(S)
         /\ DOMAIN Append(q, x) = DOMAIN q \cup {Len(q) + 1} /\ Append(q, x)[Len(q) + 1] = x
         /\ \A i \in DOMAIN q : Append(q, x)[i] = q[i] /\ i < Len(q) + 1
         /\ \A c : In(c, Append(q, x)) <=> In(c, q) \/ c = x
<1>1. DOMAIN q = 1 .. Len(q) /\ Len(q) \in Nat
  OBVIOUS
<1>2. /\ Append(q, x) \in Seq(S)
      /\ DOMAIN Append(q, x) = DOMAIN q \cup {Len(q) + 1} /\ Append(q, x)[Len(q) + 1] = x
      /\ \A i \in DOMAIN q : Append(q, x)[i] = q[i] /\ i < Len(q) + 1
  BY <1>1
<1>3. \A c : In(c, Append(q, x)) <=> In(c, q) \/ c = x
  BY <1>2 DEF In
<1> QED
  BY <1>2, <1>3

(* The oldest command is taken from the controller. *)
LEMMA TailFacts ==
  ASSUME NEW S, NEW q \in Seq(S), q # <<>>
  PROVE  /\ Tail(q) \in Seq(S) /\ Head(q) \in S /\ 1 \in DOMAIN q /\ Head(q) = q[1]
         /\ \A i \in DOMAIN Tail(q) : i \in Nat /\ i + 1 \in DOMAIN q /\ Tail(q)[i] = q[i + 1] /\ i + 1 # 1
BY DEF In

(* What processCmdEvents stops at. *)
LEMMA MatchFacts ==
  ASSUME Types, ppc = "match", Stops(psnap) # {}
  PROVE  LET i == First(Stops(psnap))
         IN /\ i \in DOMAIN psnap /\ i \in Nat /\ psnap \in Slices
            /\ psnap[i] = Nil \/ (psnap[i] \in Cmds /\ OpOf(psnap[i]) = OpOf(pev.cmd))
            /\ \A j \in DOMAIN psnap : psnap[j] = Nil \/ OpOf(psnap[j]) = OpOf(pev.cmd) => i <= j
<1>1. psnap \in Slices /\ DOMAIN psnap \subseteq Nat
  BY DEF Types, TypeOK, Slices
<1>2. Stops(psnap) \in SUBSET Nat
  BY <1>1 DEF Stops
<1>3. First(Stops(psnap)) \in Stops(psnap) /\ \A j \in Stops(psnap) : First(Stops(psnap)) <= j
  BY <1>2, FirstFacts
<1>4. \A j \in DOMAIN psnap : psnap[j] \in Cmds \cup {Nil}
  BY <1>1 DEF Slices
<1> QED
  BY <1>1, <1>3, <1>4 DEF Stops

(* The controller's answer is to a command that it was given. *)
LEMMA CtrlFacts ==
  ASSUME Types, CtrlAnswer
  PROVE  \A c \in Cmds : Pending(c)' => Pending(c)
<1>1. ctrl' = Tail(ctrl) /\ ctrl # <<>> /\ UNCHANGED <<ppc, pev>> /\ \A e \in events' : e \in events \/ e.cmd = Head(ctrl)
  BY DEF CtrlAnswer, proc
<1>2. \A c : In(c, ctrl') => In(c, ctrl)
  BY <1>1, TailFacts DEF Types, TypeOK, In
<1>3. In(Head(ctrl), ctrl)
  BY <1>1, TailFacts DEF Types, TypeOK, In
<1> QED
  BY <1>1, <1>2, <1>3 DEF Pending

(* Without a race, what is delivered to a Send that waits is its own answer. *)
LEMMA AnswerFacts ==
  ASSUME OneOpcode, Types, EventInv, OrderInv, NEW s \in Senders, ppc = "deliver", ptarget = Cur(s)
  PROVE  ptarget = pev.cmd
<1>1. pev # None /\ pev.cmd \in Cmds /\ ptarget \in Cmds
  BY CmdFacts DEF Types, TypeOK
<1>2. ptarget[1] = s /\ ptarget[2] = nsent[s] /\ nsent[s] \in Nat
  BY CurFacts
<1>3. pev.cmd[1] = s
  BY <1>1, <1>2, CmdFacts DEF EventInv, OneOpcode, OpOf
<1>4. pev.cmd[2] <= nsent[s] /\ nsent[s] <= pev.cmd[2] /\ pev.cmd[2] \in Nat
  BY <1>1, <1>2, <1>3, CmdFacts DEF EventInv, OrderInv
<1>5. pev.cmd[2] = nsent[s]
  BY <1>2, <1>4
<1> QED
  BY <1>1, <1>3, <1>5, CurFacts

(* Every step keeps the types. *)
LEMMA TypesStep ==
  ASSUME Types, [Next]_vars
  PROVE  Types'
<1> USE DEF Types, TypeOK, CountInv
<1>1. ASSUME NEW s \in Senders, AppendLoad(s) PROVE Types'
  <2>1. nsent[s] \in Nat /\ MaxSends[s] \in Nat /\ nsent[s] + 1 \in Nat /\ nsent[s] < MaxSends[s]
    BY <1>1, CmdFacts DEF AppendLoad
  <2>2. nsent[s] + 1 > 0 /\ nsent[s] + 1 <= MaxSends[s]
    BY <2>1
  <2>3. \A t \in Senders : nsent'[t] <= MaxSends[t] /\ (pc'[t] # "idle" => nsent'[t] > 0)
    BY <1>1, <2>2 DEF AppendLoad
  <2>4. nsent' \in [Senders -> Nat]
    BY <1>1, <2>1 DEF AppendLoad
  <2> QED
    BY <1>1, <2>3, <2>4 DEF AppendLoad, proc, bounds
<1>2. ASSUME NEW s \in Senders, AppendStore(s) PROVE Types'
  <2>1. Cur(s) \in Cmds \cup {Nil} /\ snap[s] \in Slices
    BY <1>2, CurFacts DEF AppendStore
  <2>2. Append(snap[s], Cur(s)) \in Slices /\ Append(Shifted(snap[s]), Cur(s)) \in Slices
    BY <2>1, ShiftedFacts, AppendFacts DEF Slices
  <2>3. <<>> \in Slices
    BY DEF Slices
  <2> QED
    BY <1>2, <2>2, <2>3 DEF AppendStore, proc, bounds
<1>3. ASSUME NEW s \in Senders, WriteCmd(s) PROVE Types'
  <2>1. Append(ctrl, Cur(s)) \in Seq(Cmds)
    BY <1>3, CurFacts, AppendFacts DEF WriteCmd
  <2> QED
    BY <1>3, <2>1 DEF WriteCmd, proc, bounds
<1>4. ASSUME NEW s \in Senders, WriteError(s) PROVE Types'
  BY <1>4, CmdAssumption DEF WriteError, proc
<1>5. ASSUME NEW s \in Senders, Cancel(s) PROVE Types'
  BY <1>5, CmdAssumption DEF Cancel, proc
<1>6. ASSUME NEW s \in Senders, ReceiveClosed(s) PROVE Types'
  <2>1. Cur(s) \in Cmds
    BY <1>6, CurFacts DEF ReceiveClosed
  <2> QED
    BY <1>6, <2>1 DEF ReceiveClosed, proc, bounds
<1>7. ASSUME NEW s \in Senders, Deliver(s) PROVE Types'
  <2>1. pev.cmd \in Cmds
    BY <1>7, CmdFacts DEF Deliver
  <2> QED
    BY <1>7, <2>1 DEF Deliver, bounds
<1>8. CASE CtrlAnswer
  <2>1. Tail(ctrl) \in Seq(Cmds) /\ Head(ctrl) \in Cmds
    BY <1>8, TailFacts DEF CtrlAnswer
  <2>2. events' \subseteq Events
    BY <1>8, <2>1 DEF CtrlAnswer, Events
  <2> QED
    BY <1>8, <2>1, <2>2 DEF CtrlAnswer, sender, proc, bounds
<1>9. ASSUME NEW e \in events, ProcTake(e) PROVE Types'
  <2>1. e # None
    BY CmdFacts
  <2> QED
    BY <1>9, <2>1 DEF ProcTake, sender, bounds
<1>10. CASE ProcUnknown
  BY <1>10, CmdFacts DEF ProcUnknown, sender, bounds
<1>11. CASE ProcNil
  BY <1>11, CmdFacts DEF ProcNil, sender, bounds
<1>12. CASE ProcMatch
  <2> DEFINE i == First(Stops(psnap))
  <2>1. i \in DOMAIN psnap /\ psnap[i] \in Cmds /\ Delete(psnap, i) \in Slices
    BY <1>12, MatchFacts, DeleteFacts DEF ProcMatch
  <2>2. sent' = Delete(psnap, i) /\ psnap' = <<>> /\ UNCHANGED <<raced, sender, bounds, ctrl, events>>
    BY <1>12 DEF ProcMatch
  <2> HIDE DEF i
  <2>3. CASE pev.t = "status"
    <3>1. /\ panic' = (psnap[i] \in closed) /\ closed' = closed \cup {psnap[i]}
          /\ ppc' = "select" /\ pev' = None /\ ptarget' = ptarget
      BY <1>12, <2>3 DEF ProcMatch, i
    <3> QED
      BY <2>1, <2>2, <3>1, CmdFacts DEF sender, bounds
  <2>4. CASE pev.t # "status"
    <3>1. ptarget' = psnap[i] /\ ppc' = "deliver" /\ UNCHANGED <<pev, closed, panic>>
      BY <1>12, <2>4 DEF ProcMatch, i
    <3>2. pev \in Events /\ pev.t = "complete"
      BY <1>12, <2>4, CmdFacts DEF ProcMatch
    <3> QED
      BY <1>12, <2>1, <2>2, <3>1, <3>2, CmdFacts DEF sender, bounds, ProcMatch
  <2> QED
    BY <2>3, <2>4
<1>13. CASE UNCHANGED vars
  BY <1>13, CmdAssumption DEF vars, sender, proc, bounds
<1> QED
  BY <1>1, <1>2, <1>3, <1>4, <1>5, <1>6, <1>7, <1>8, <1>9, <1>10, <1>11, <1>12,
      <1>13 DEF Next, SendStep, ProcStep

(* No step puts a packet of a later command anywhere. *)
LEMMA PacketStep ==
  ASSUME Types, PacketInv, [Next]_vars
  PROVE  PacketInv'
<1> USE DEF PacketInv, AllBorn, Born
<1>1. ASSUME NEW s \in Senders, AppendLoad(s) PROVE PacketInv'
  <2>1. nsent[s] \in Nat /\ nsent' = [nsent EXCEPT ![s] = nsent[s] + 1] /\ pc' = [pc EXCEPT ![s] = "append"]
    BY <1>1 DEF AppendLoad, Types, TypeOK
  <2>2. \A c \in Cmds : Born(c) => Born(c)'
    BY <2>1, CmdFacts DEF Types, TypeOK, Born
  <2>3. /\ \A q \in Slices : AllBorn(q) => AllBorn(q)'
    BY <2>2 DEF AllBorn, Slices
  <2> QED
    BY <1>1, <2>2, <2>3, ZenonT(60) DEF AppendLoad, proc, Types, TypeOK
<1>2. ASSUME NEW s \in Senders, AppendStore(s) PROVE PacketInv'
  <2>1. pc[s] = "append" /\ pc' = [pc EXCEPT ![s] = "write"] /\ nsent' = nsent /\ snap[s] \in Slices
    BY <1>2 DEF AppendStore, Types, TypeOK
  <2>2. \A c \in Cmds : Born(c) => Born(c)'
    BY <2>1, CmdFacts DEF Types, TypeOK, Born
  <2>3. \A q \in Slices : AllBorn(q) => AllBorn(q)'
    BY <2>2 DEF AllBorn, Slices
  <2>4. PICK c \in Cmds : c = Cur(s) /\ Born(c)'
    <3>1. Cur(s) \in Cmds /\ Cur(s)[1] = s /\ Cur(s)[2] = nsent[s] /\ nsent[s] \in Nat
      BY <2>1, CurFacts
    <3> QED
      BY <2>1, <3>1 DEF Born, Types, TypeOK
  <2>5. PICK q \in Slices : sent' = Append(q, Cur(s)) /\ AllBorn(q)
    BY <1>2, <2>1, ShiftedFacts DEF AppendStore, AllBorn, In
  <2>6. AllBorn(sent)'
    <3>1. AllBorn(q)' /\ q \in Seq(Cmds \cup {Nil})
      BY <2>3, <2>5 DEF Slices
    <3>2. \A i \in DOMAIN sent' : (i \in DOMAIN q /\ sent'[i] = q[i]) \/ sent'[i] = Cur(s)
      BY <2>4, <2>5, <3>1, AppendFacts
    <3> QED
      BY <2>4, <3>1, <3>2 DEF AllBorn
  <2> QED
    BY <1>2, <2>2, <2>3, <2>6, CmdFacts DEF AppendStore, proc, Types, TypeOK
<1>3. ASSUME NEW s \in Senders, WriteCmd(s) PROVE PacketInv'
  BY <1>3 DEF WriteCmd, proc, bounds
<1>4. ASSUME NEW s \in Senders, WriteError(s) PROVE PacketInv'
  BY <1>4 DEF WriteError, proc
<1>5. ASSUME NEW s \in Senders, Cancel(s) PROVE PacketInv'
  BY <1>5 DEF Cancel, proc
<1>6. ASSUME NEW s \in Senders, ReceiveClosed(s) PROVE PacketInv'
  BY <1>6 DEF ReceiveClosed, proc, bounds
<1>7. ASSUME NEW s \in Senders, Deliver(s) PROVE PacketInv'
  BY <1>7 DEF Deliver, bounds
<1>8. CASE CtrlAnswer
  BY <1>8 DEF CtrlAnswer, sender, proc, bounds
<1>9. ASSUME NEW e \in events, ProcTake(e) PROVE PacketInv'
  BY <1>9 DEF ProcTake, sender, bounds
<1>10. CASE ProcUnknown
  BY <1>10 DEF ProcUnknown, sender, bounds
<1>11. CASE ProcNil
  BY <1>11 DEF ProcNil, sender, bounds
<1>12. CASE ProcMatch
  <2> DEFINE i == First(Stops(psnap))
  <2>1. i \in DOMAIN psnap /\ psnap \in Slices /\ psnap[i] \in Cmds /\ Born(psnap[i])
    BY <1>12, MatchFacts, CmdFacts DEF ProcMatch
  <2>2. sent' = Delete(psnap, i) /\ psnap' = <<>> /\ UNCHANGED sender
    BY <1>12 DEF ProcMatch
  <2>3. closed' \in {closed, closed \cup {psnap[i]}} /\ ptarget' \in {ptarget, psnap[i]}
    BY <1>12 DEF ProcMatch
  <2> HIDE DEF i
  <2>4. \A k \in DOMAIN sent' : \E j \in DOMAIN psnap : sent'[k] = psnap[j]
    BY <2>1, <2>2, DeleteFacts
  <2> QED
    BY <2>1, <2>2, <2>3, <2>4, CmdFacts DEF sender
<1>13. CASE UNCHANGED vars
  BY <1>13 DEF vars, sender, proc, bounds
<1> QED
  BY <1>1, <1>2, <1>3, <1>4, <1>5, <1>6, <1>7, <1>8, <1>9, <1>10, <1>11, <1>12,
      <1>13 DEF Next, SendStep, ProcStep

(* Events are told apart by their commands. *)
LEMMA EventStep ==
  ASSUME Types, PacketInv, EventInv, [Next]_vars
  PROVE  EventInv'
<1> USE DEF EventInv, Pending
<1>1. ASSUME NEW s \in Senders, AppendLoad(s) PROVE EventInv'
  <2>1. nsent[s] \in Nat /\ nsent' = [nsent EXCEPT ![s] = nsent[s] + 1] /\ pc' = [pc EXCEPT ![s] = "append"]
    BY <1>1 DEF AppendLoad, Types, TypeOK
  <2>2. UNCHANGED <<ctrl, events, ppc, pev, ptarget, closed>>
    BY <1>1 DEF AppendLoad, proc
  <2>3. \A c \in Cmds : c[1] = s => (c[2] <= nsent[c[1]] => c[2] <= nsent'[c[1]] /\ c # Cur(c[1])')
    BY <2>1, CmdFacts DEF Types, TypeOK, Cur
  <2>4. \A c \in Cmds : c[1] # s => nsent'[c[1]] = nsent[c[1]] /\ Cur(c[1])' = Cur(c[1]) /\ pc'[c[1]] = pc[c[1]]
    BY <2>1, CmdFacts DEF Types, TypeOK, Cur
  <2>5. \A c \in Cmds : Pending(c)' => Pending(c)
    BY <2>2 DEF In
  <2>6. \A c \in Cmds : Pending(c)' \/ (pev' # None /\ c = pev'.cmd) =>
          c[2] <= nsent'[c[1]] /\ (c = Cur(c[1])' => pc'[c[1]] \notin {"append", "write"})
    BY <2>2, <2>3, <2>4, <2>5
  <2> QED
    BY <2>2, <2>6 DEF In
<1>2. ASSUME NEW s \in Senders, AppendStore(s) PROVE EventInv'
  BY <1>2, CmdFacts DEF In, Cur, AppendStore, proc, bounds
<1>3. ASSUME NEW s \in Senders, WriteCmd(s) PROVE EventInv'
  <2>1. pc[s] = "write" /\ pc' = [pc EXCEPT ![s] = "wait"] /\ nsent' = nsent /\ ctrl' = Append(ctrl, Cur(s))
    BY <1>3 DEF WriteCmd
  <2>2. UNCHANGED <<events, ppc, pev, ptarget, closed>>
    BY <1>3 DEF WriteCmd, proc
  <2>3. Cur(s) \in Cmds /\ Cur(s)[1] = s /\ Cur(s)[2] = nsent[s] /\ nsent[s] \in Nat
    BY <2>1, CurFacts
  <2>4. ~ Pending(Cur(s)) /\ (pev # None => Cur(s) # pev.cmd)
    BY <2>1, <2>3
  <2>5. /\ DOMAIN ctrl' = DOMAIN ctrl \cup {Len(ctrl) + 1} /\ ctrl'[Len(ctrl) + 1] = Cur(s)
        /\ \A i \in DOMAIN ctrl : ctrl'[i] = ctrl[i]
        /\ \A c : In(c, ctrl') <=> In(c, ctrl) \/ c = Cur(s)
    BY <2>1, <2>3, AppendFacts DEF Types, TypeOK
  <2>6. ~ In(Cur(s), ctrl) /\ \A e \in events : e.cmd # Cur(s)
    BY <2>4
  <2>7. \A i, j \in DOMAIN ctrl' : ctrl'[i] = ctrl'[j] => i = j
    BY <2>5, <2>6 DEF In
  <2>8. \A i \in DOMAIN ctrl' : \A e \in events : ctrl'[i] # e.cmd
    BY <2>5, <2>6
  <2>9. \A c \in Cmds : Pending(c)' => Pending(c) \/ c = Cur(s)
    BY <2>2, <2>5
  <2>10. \A c \in Cmds : Pending(c)' \/ (pev' # None /\ c = pev'.cmd) =>
           c[2] <= nsent'[c[1]] /\ (c = Cur(c[1])' => pc'[c[1]] \notin {"append", "write"})
    <3> TAKE c \in Cmds
    <3>1. CASE c = Cur(s)
      BY <2>1, <2>3, <3>1 DEF Types, TypeOK
    <3>2. CASE c # Cur(s) /\ (Pending(c)' \/ (pev' # None /\ c = pev'.cmd))
      <4>1. c[2] <= nsent[c[1]] /\ (c = Cur(c[1]) => pc[c[1]] \notin {"append", "write"})
        BY <2>2, <2>9, <3>2
      <4> QED
        BY <2>1, <4>1, CmdFacts DEF Types, TypeOK, Cur
    <3> QED
      BY <3>1, <3>2
  <2> QED
    BY <2>2, <2>4, <2>5, <2>7, <2>8, <2>10
<1>4. ASSUME NEW s \in Senders, WriteError(s) PROVE EventInv'
  BY <1>4, CmdFacts DEF In, Cur, WriteError, proc
<1>5. ASSUME NEW s \in Senders, Cancel(s) PROVE EventInv'
  BY <1>5, CmdFacts DEF In, Cur, Cancel, proc
<1>6. ASSUME NEW s \in Senders, ReceiveClosed(s) PROVE EventInv'
  BY <1>6, CmdFacts DEF In, Cur, ReceiveClosed, proc, bounds
<1>7. ASSUME NEW s \in Senders, Deliver(s) PROVE EventInv'
  BY <1>7, CmdFacts DEF In, Cur, Deliver, bounds
<1>8. CASE CtrlAnswer
  <2> DEFINE p == Head(ctrl)
             e == [t |-> IF OpOf(p) \in StatusOps THEN "status" ELSE "complete", cmd |-> p]
  <2>1. ctrl' = Tail(ctrl) /\ events' = events \cup {e} /\ ctrl # <<>>
    BY <1>8 DEF CtrlAnswer
  <2>2. UNCHANGED <<pc, nsent, ppc, pev, ptarget, closed>>
    BY <1>8 DEF CtrlAnswer, sender, proc
  <2>3. /\ p \in Cmds /\ 1 \in DOMAIN ctrl /\ p = ctrl[1]
        /\ \A i \in DOMAIN ctrl' : i \in Nat /\ i + 1 \in DOMAIN ctrl /\ ctrl'[i] = ctrl[i + 1] /\ i + 1 # 1
    BY <2>1, TailFacts DEF Types, TypeOK
  <2>4. e.cmd = p /\ (e.t = "status" <=> OpOf(p) \in StatusOps)
    OBVIOUS
  <2> HIDE DEF e, p
  <2>5. \A i \in DOMAIN ctrl' : In(ctrl'[i], ctrl) /\ ctrl'[i] # p
    BY <2>3 DEF In
  <2>6. \A i, j \in DOMAIN ctrl' : ctrl'[i] = ctrl'[j] => i = j
    BY <2>3
  <2>7. \A f \in events : f.cmd # p
    BY <2>3
  <2>8. In(p, ctrl) /\ \A c \in Cmds : In(c, ctrl') => In(c, ctrl)
    BY <2>3, <2>5 DEF In
  <2>9. \A c \in Cmds : Pending(c)' => Pending(c)
    BY <2>1, <2>2, <2>4, <2>8
  <2>10. \A i \in DOMAIN ctrl' : \A f \in events' : ctrl'[i] # f.cmd
    BY <2>1, <2>4, <2>5 DEF In
  <2>11. pev # None => ~ In(pev.cmd, ctrl') /\ \A f \in events' : f.cmd # pev.cmd
    BY <2>1, <2>4, <2>5, <2>8 DEF In
  <2>12. \A f, g \in events' : f.cmd = g.cmd => f = g
    BY <2>1, <2>4, <2>7
  <2>13. \A c \in Cmds : Pending(c)' \/ (pev' # None /\ c = pev'.cmd) =>
           c[2] <= nsent'[c[1]] /\ (c = Cur(c[1])' => pc'[c[1]] \notin {"append", "write"})
    BY <2>2, <2>9 DEF Cur
  <2> QED
    BY <2>1, <2>2, <2>4, <2>6, <2>10, <2>11, <2>12, <2>13
<1>9. ASSUME NEW e \in events, ProcTake(e) PROVE EventInv'
  BY <1>9, CmdFacts DEF In, Cur, ProcTake, sender, bounds
<1>10. CASE ProcUnknown
  BY <1>10, CmdFacts DEF In, Cur, ProcUnknown, sender, bounds
<1>11. CASE ProcNil
  BY <1>11, CmdFacts DEF In, Cur, ProcNil, sender, bounds
<1>12. CASE ProcMatch
  <2> DEFINE i == First(Stops(psnap))
  <2>1. i \in DOMAIN psnap /\ psnap[i] \in Cmds /\ OpOf(psnap[i]) = OpOf(pev.cmd)
    BY <1>12, MatchFacts DEF ProcMatch
  <2>2. UNCHANGED <<pc, nsent, ctrl, events>> /\ pev \in Events /\ ppc = "match"
    BY <1>12 DEF ProcMatch, sender, Types, TypeOK
  <2>3. \/ /\ pev.t = "status" /\ pev' = None /\ ppc' = "select" /\ closed' = closed \cup {psnap[i]}
        \/ /\ pev' = pev /\ ppc' = "deliver" /\ closed' = closed /\ ptarget' = psnap[i]
    BY <1>12 DEF ProcMatch
  <2> HIDE DEF i
  <2> QED
    BY <2>1, <2>2, <2>3, CmdFacts DEF Cur, In
<1>13. CASE UNCHANGED vars
  BY <1>13, CmdFacts DEF In, Cur, vars, sender, proc, bounds
<1> QED
  BY <1>1, <1>2, <1>3, <1>4, <1>5, <1>6, <1>7, <1>8, <1>9, <1>10, <1>11, <1>12,
      <1>13 DEF Next, SendStep, ProcStep

(* Without a race no packet is lost, doubled or overtaken by one of its sender. *)
LEMMA UnracedStep ==
  ASSUME Types, PacketInv, UnracedInv, ~ raced', [Next]_vars
  PROVE  UnracedInv'
<1> USE DEF UnracedInv
<1>1. ASSUME NEW s \in Senders, AppendLoad(s) PROVE UnracedInv'
  <2>1. ~ raced /\ ppc # "match" /\ \A t \in Senders : pc[t] # "append"
    BY <1>1 DEF AppendLoad, SentInUse
  <2>2. pc' = [pc EXCEPT ![s] = "append"] /\ snap' = [snap EXCEPT ![s] = sent] /\ UNCHANGED <<sent, closed, ppc, ptarget>>
    BY <1>1 DEF AppendLoad, proc
  <2>3. \A t \in Senders : t # s => Cur(t)' = Cur(t) /\ pc'[t] = pc[t]
    BY <1>1 DEF AppendLoad, Cur, Types, TypeOK
  <2>4. pc'[s] = "append" /\ snap'[s] = sent
    BY <2>2 DEF Types, TypeOK
  <2> QED
    BY <2>1, <2>2, <2>3, <2>4 DEF In
<1>2. ASSUME NEW s \in Senders, AppendStore(s) PROVE UnracedInv'
  <2>1. pc[s] = "append" /\ snap[s] = sent /\ ppc # "match" /\ \A t \in Senders : t # s => pc[t] # "append"
    BY <1>2 DEF AppendStore
  <2>2. sent' = Append(sent, Cur(s)) /\ pc' = [pc EXCEPT ![s] = "write"] /\ UNCHANGED <<nsent, closed, ppc, ptarget>>
    BY <1>2, <2>1 DEF AppendStore, proc
  <2>3. Cur(s) \in Cmds /\ Cur(s) # Nil /\ Cur(s)[1] = s /\ Cur(s)[2] = nsent[s] /\ nsent[s] \in Nat
    BY <2>1, CurFacts
  <2>4. \A c \in Cmds : Born(c) => c # Cur(s) /\ (c[1] = s => c[2] < nsent[s])
    BY <2>1, <2>3, CmdFacts DEF Born
  <2>5. /\ DOMAIN sent' = DOMAIN sent \cup {Len(sent) + 1} /\ sent'[Len(sent) + 1] = Cur(s)
        /\ \A i \in DOMAIN sent : sent'[i] = sent[i] /\ i < Len(sent) + 1 /\ i \in Nat
        /\ \A c : In(c, sent') <=> In(c, sent) \/ c = Cur(s)
        /\ \A i \in DOMAIN sent : sent[i] \in Cmds
    <3>1. sent \in Seq(Cmds \cup {Nil})
      BY DEF Types, TypeOK, Slices
    <3> QED
      BY <2>2, <2>3, <3>1, AppendFacts
  <2>6. \A i \in DOMAIN sent : Born(sent[i]) /\ sent[i] # Cur(s)
    BY <2>4, <2>5 DEF PacketInv, AllBorn
  <2>7. Cur(s) \notin closed /\ (ppc = "deliver" => ptarget # Cur(s))
    BY <2>3, <2>4 DEF PacketInv, Types, TypeOK
  <2>8. \A i \in DOMAIN sent' : sent'[i] # Nil /\ sent'[i] \notin closed
    BY <2>3, <2>5, <2>7
  <2>9. \A i, j \in DOMAIN sent' : i < j =>
          sent'[i] # sent'[j] /\ (sent'[i][1] = sent'[j][1] => sent'[i][2] < sent'[j][2])
    <3> SUFFICES ASSUME NEW i \in DOMAIN sent', NEW j \in DOMAIN sent', i < j
                 PROVE  sent'[i] # sent'[j] /\ (sent'[i][1] = sent'[j][1] => sent'[i][2] < sent'[j][2])
      OBVIOUS
    <3>1. Len(sent) \in Nat
      BY DEF Types, TypeOK, Slices
    <3>2. i \in DOMAIN sent
      BY <2>5, <3>1
    <3>3. CASE j \in DOMAIN sent
      BY <2>5, <3>2, <3>3
    <3>4. CASE j = Len(sent) + 1
      BY <2>3, <2>4, <2>5, <2>6, <3>2, <3>4
    <3> QED
      BY <2>5, <3>3, <3>4
  <2>10. \A t \in Senders : Cur(t)' = Cur(t) /\ (t # s => pc'[t] = pc[t]) /\ pc'[s] = "write"
    BY <2>2 DEF Cur, Types, TypeOK
  <2>11. \A t \in Senders : pc'[t] # "append"
    BY <2>1, <2>10
  <2>12. \A t \in Senders : pc'[t] \in {"write", "wait"} =>
           In(Cur(t)', sent') \/ (ppc' = "deliver" /\ ptarget' = Cur(t)') \/ Cur(t)' \in closed'
    BY <2>2, <2>5, <2>10
  <2> QED
    BY <2>1, <2>2, <2>5, <2>7, <2>8, <2>9, <2>11, <2>12
<1>3. ASSUME NEW s \in Senders, WriteCmd(s) PROVE UnracedInv'
  BY <1>3, CmdFacts DEF In, Cur, WriteCmd, proc, bounds
<1>4. ASSUME NEW s \in Senders, WriteError(s) PROVE UnracedInv'
  BY <1>4, CmdFacts DEF In, Cur, WriteError, proc
<1>5. ASSUME NEW s \in Senders, Cancel(s) PROVE UnracedInv'
  BY <1>5, CmdFacts DEF In, Cur, Cancel, proc
<1>6. ASSUME NEW s \in Senders, ReceiveClosed(s) PROVE UnracedInv'
  BY <1>6, CmdFacts DEF In, Cur, ReceiveClosed, proc, bounds
<1>7. ASSUME NEW s \in Senders, Deliver(s) PROVE UnracedInv'
  <2>1. ppc' = "select" /\ pc' = [pc EXCEPT ![s] = "idle"] /\ UNCHANGED <<nsent, snap, sent, closed>> /\ ppc = "deliver"
    BY <1>7 DEF Deliver
  <2>2. ptarget = Cur(s) /\ pc[s] = "wait"
    BY <1>7 DEF Deliver
  <2>3. \A t \in Senders : pc'[t] \in {"write", "wait"} => t # s /\ pc'[t] = pc[t] /\ Cur(t)' = Cur(t) /\ Cur(t) # Cur(s)
    BY <2>1 DEF Cur, Types, TypeOK
  <2>4. \A t \in Senders : pc'[t] \in {"write", "wait"} =>
          In(Cur(t)', sent') \/ (ppc' = "deliver" /\ ptarget' = Cur(t)') \/ Cur(t)' \in closed'
    BY <2>1, <2>2, <2>3
  <2> QED
    BY <2>1, <2>2, <2>4 DEF Types, TypeOK
<1>8. CASE CtrlAnswer
  BY <1>8, CmdFacts DEF In, Cur, CtrlAnswer, sender, proc, bounds
<1>9. ASSUME NEW e \in events, ProcTake(e) PROVE UnracedInv'
  <2>1. ~ raced /\ \A t \in Senders : pc[t] # "append"
    BY <1>9 DEF ProcTake, SentInUse
  <2> QED
    BY <1>9, <2>1 DEF ProcTake, sender, Cur, In
<1>10. CASE ProcUnknown
  BY <1>10, CmdFacts DEF In, Cur, ProcUnknown, sender, bounds
<1>11. CASE ProcNil
  BY <1>11, CmdFacts DEF In, Cur, ProcNil, sender, bounds
<1>12. CASE ProcMatch
  <2> DEFINE i == First(Stops(psnap))
  <2>1. i \in DOMAIN sent /\ sent \in Slices /\ psnap = sent /\ sent[i] \in Cmds /\ ppc = "match"
    BY <1>12, MatchFacts DEF ProcMatch
  <2>2. sent' = Delete(sent, i) /\ UNCHANGED <<pc, nsent, snap>>
    BY <1>12, <2>1 DEF ProcMatch, sender
  <2>3. \/ ppc' = "select" /\ closed' = closed \cup {sent[i]} /\ ptarget' = ptarget
        \/ ppc' = "deliver" /\ closed' = closed /\ ptarget' = sent[i]
    BY <1>12, <2>1 DEF ProcMatch
  <2> HIDE DEF i
  <2>4. /\ \A k \in DOMAIN sent' : \/ k < i /\ k \in DOMAIN sent /\ sent'[k] = sent[k]
                                   \/ k >= i /\ k + 1 \in DOMAIN sent /\ sent'[k] = sent[k + 1]
        /\ \A j \in DOMAIN sent : j # i => In(sent[j], sent')
        /\ \A k \in DOMAIN sent' : k \in Nat
    BY <2>1, <2>2, DeleteFacts
  <2>5. i \in Nat
    BY <2>1 DEF Slices
  <2>6. \A k \in DOMAIN sent' : sent'[k] # Nil /\ sent'[k] \notin closed /\ sent'[k] # sent[i]
    <3> TAKE k \in DOMAIN sent'
    <3>1. CASE k < i
      BY <2>1, <2>4, <2>5, <3>1
    <3>2. CASE k >= i
      <4>1. k + 1 \in DOMAIN sent /\ sent'[k] = sent[k + 1] /\ i < k + 1
        BY <2>4, <2>5, <3>2
      <4> QED
        BY <2>1, <4>1
    <3> QED
      BY <2>4, <2>5, <3>1, <3>2
  <2>7. \A k, j \in DOMAIN sent' : k < j =>
          sent'[k] # sent'[j] /\ (sent'[k][1] = sent'[j][1] => sent'[k][2] < sent'[j][2])
    <3> SUFFICES ASSUME NEW k \in DOMAIN sent', NEW j \in DOMAIN sent', k < j
                 PROVE  sent'[k] # sent'[j] /\ (sent'[k][1] = sent'[j][1] => sent'[k][2] < sent'[j][2])
      OBVIOUS
    <3>1. \A m \in DOMAIN sent' :
            \E x \in DOMAIN sent : sent'[m] = sent[x] /\ ((x = m /\ m < i) \/ (x = m + 1 /\ m >= i))
      BY <2>4
    <3>2. PICK x \in DOMAIN sent : sent'[k] = sent[x] /\ ((x = k /\ k < i) \/ (x = k + 1 /\ k >= i))
      BY <3>1
    <3>3. PICK y \in DOMAIN sent : sent'[j] = sent[y] /\ ((y = j /\ j < i) \/ (y = j + 1 /\ j >= i))
      BY <3>1
    <3>4. x < y
      BY <2>4, <2>5, <3>2, <3>3
    <3> QED
      BY <3>2, <3>3, <3>4
  <2>8. \A c \in Cmds : In(c, sent) => In(c, sent') \/ c = sent[i]
    BY <2>1, <2>4 DEF In
  <2>9. \A s \in Senders : Cur(s)' = Cur(s) /\ (pc[s] # "idle" => Cur(s) \in Cmds)
    BY <2>2, CurFacts DEF Cur
  <2>10. \A s \in Senders : pc[s] \in {"write", "wait"} => In(Cur(s), sent') \/ Cur(s) = sent[i] \/ Cur(s) \in closed
    BY <2>1, <2>8, <2>9 DEF In
  <2>11. \A s \in Senders : pc[s] \in {"write", "wait"} =>
           In(Cur(s)', sent') \/ (ppc' = "deliver" /\ ptarget' = Cur(s)') \/ Cur(s)' \in closed'
    BY <2>3, <2>9, <2>10
  <2>12. \A k \in DOMAIN sent' : sent'[k] # Nil /\ sent'[k] \notin closed'
    BY <2>3, <2>6
  <2>13. ppc' = "deliver" => ~ In(ptarget', sent')
    BY <2>3, <2>6 DEF In
  <2> QED
    BY <2>1, <2>2, <2>3, <2>7, <2>11, <2>12, <2>13
<1>13. CASE UNCHANGED vars
  BY <1>13, CmdFacts DEF In, Cur, vars, sender, proc, bounds
<1> QED
  BY <1>1, <1>2, <1>3, <1>4, <1>5, <1>6, <1>7, <1>8, <1>9, <1>10, <1>11, <1>12,
      <1>13 DEF Next, SendStep, ProcStep

(* Without a race nothing panics. *)
LEMMA PanicStep ==
  ASSUME CheckedComplete, Types, EventInv, UnracedInv, ~ raced', ~ panic, [Next]_vars
  PROVE  ~ panic'
<1>1. ASSUME NEW s \in Senders, AppendLoad(s) PROVE ~ panic'
  BY <1>1 DEF AppendLoad, proc, bounds
<1>2. ASSUME NEW s \in Senders, AppendStore(s) PROVE ~ panic'
  BY <1>2 DEF AppendStore, proc, bounds
<1>3. ASSUME NEW s \in Senders, WriteCmd(s) PROVE ~ panic'
  BY <1>3 DEF WriteCmd, proc, bounds
<1>4. ASSUME NEW s \in Senders, WriteError(s) PROVE ~ panic'
  BY <1>4 DEF WriteError, proc
<1>5. ASSUME NEW s \in Senders, Cancel(s) PROVE ~ panic'
  BY <1>5 DEF Cancel, proc
<1>6. ASSUME NEW s \in Senders, ReceiveClosed(s) PROVE ~ panic'
  <2>1. Cur(s) \in closed /\ panic' = (s \in Checked)
    BY <1>6 DEF ReceiveClosed
  <2>2. Op[s] \in StatusOps
    BY <2>1, CurFacts DEF EventInv, OpOf
  <2> QED
    BY <2>1, <2>2 DEF CheckedComplete
<1>7. ASSUME NEW s \in Senders, Deliver(s) PROVE ~ panic'
  BY <1>7 DEF Deliver, bounds
<1>8. CASE CtrlAnswer
  BY <1>8 DEF CtrlAnswer, sender, proc, bounds
<1>9. ASSUME NEW e \in events, ProcTake(e) PROVE ~ panic'
  BY <1>9 DEF ProcTake, sender, bounds
<1>10. CASE ProcUnknown
  BY <1>10 DEF ProcUnknown, sender, bounds
<1>11. CASE ProcNil
  <2>1. First(Stops(psnap)) \in DOMAIN psnap /\ psnap = sent
    BY <1>11, MatchFacts DEF ProcNil, UnracedInv
  <2> QED
    BY <1>11, <2>1 DEF ProcNil, UnracedInv
<1>12. CASE ProcMatch
  <2>1. First(Stops(psnap)) \in DOMAIN psnap /\ psnap = sent
    BY <1>12, MatchFacts DEF ProcMatch, UnracedInv
  <2> QED
    BY <1>12, <2>1 DEF ProcMatch, UnracedInv
<1>13. CASE UNCHANGED vars
  BY <1>13 DEF vars, sender, proc, bounds
<1> QED
  BY <1>1, <1>2, <1>3, <1>4, <1>5, <1>6, <1>7, <1>8, <1>9, <1>10, <1>11, <1>12,
      <1>13 DEF Next, SendStep, ProcStep

(* Without a race the packet of a command is there for its answer. *)
LEMMA OrderStep ==
  ASSUME OneOpcode, Types, PacketInv, EventInv, UnracedInv, OrderInv, ~ raced', [Next]_vars
  PROVE  OrderInv'
<1>1. ASSUME NEW s \in Senders, AppendLoad(s) PROVE OrderInv'
  <2>1. UNCHANGED <<ppc, pev, ptarget>> /\ sent' = sent
    BY <1>1 DEF AppendLoad, proc
  <2>2. \A t \in Senders : pc'[t] = "write" => pc[t] = "write" /\ Cur(t)' = Cur(t)
    BY <1>1 DEF AppendLoad, proc, Cur, Types, TypeOK
  <2>3. \A c \in Cmds : Pending(c)' => Pending(c)
    BY <1>1 DEF AppendLoad, proc, Pending, In
  <2> QED
    BY <2>1, <2>2, <2>3 DEF OrderInv, In
<1>2. ASSUME NEW s \in Senders, AppendStore(s) PROVE OrderInv'
  <2>1. pc[s] = "append" /\ sent' = Append(sent, Cur(s)) /\ pc' = [pc EXCEPT ![s] = "write"]
    BY <1>2 DEF AppendStore, UnracedInv
  <2>2. UNCHANGED <<nsent, ppc, pev, ptarget, ctrl, events>>
    BY <1>2 DEF AppendStore, proc
  <2>3. \A c : In(c, sent') <=> In(c, sent) \/ c = Cur(s)
    BY <2>1, CurFacts, AppendFacts DEF Types, TypeOK, Slices
  <2>4. \A t \in Senders : Cur(t)' = Cur(t) /\ (t # s => pc'[t] = pc[t])
    BY <2>1, <2>2 DEF Cur, Types, TypeOK
  <2>5. \A c \in Cmds : Pending(c)' => Pending(c)
    BY <2>2 DEF Pending, In
  <2> QED
    BY <2>2, <2>3, <2>4, <2>5 DEF OrderInv
<1>3. ASSUME NEW s \in Senders, WriteCmd(s) PROVE OrderInv'
  <2>1. pc[s] = "write" /\ ctrl' = Append(ctrl, Cur(s)) /\ pc' = [pc EXCEPT ![s] = "wait"]
    BY <1>3 DEF WriteCmd
  <2>2. UNCHANGED <<nsent, ppc, pev, ptarget, sent, events>>
    BY <1>3 DEF WriteCmd, proc
  <2>3. \A c : In(c, ctrl') <=> In(c, ctrl) \/ c = Cur(s)
    BY <2>1, CurFacts, AppendFacts DEF Types, TypeOK
  <2>4. \A t \in Senders : Cur(t)' = Cur(t) /\ (pc'[t] = "write" => pc[t] = "write")
    BY <2>1, <2>2 DEF Cur, Types, TypeOK
  <2>5. \A c \in Cmds : Pending(c)' => Pending(c) \/ c = Cur(s)
    BY <2>2, <2>3 DEF Pending
  <2>6. OpOf(Cur(s)) = Op[s]
    BY CurFacts DEF OpOf
  <2> QED
    BY <2>1, <2>2, <2>4, <2>5, <2>6 DEF OrderInv, In
<1>4. ASSUME NEW s \in Senders, WriteError(s) PROVE OrderInv'
  <2>1. UNCHANGED <<ppc, pev, ptarget>> /\ sent' = sent
    BY <1>4 DEF WriteError, proc
  <2>2. \A t \in Senders : pc'[t] = "write" => pc[t] = "write" /\ Cur(t)' = Cur(t)
    BY <1>4 DEF WriteError, proc, Cur, Types, TypeOK
  <2>3. \A c \in Cmds : Pending(c)' => Pending(c)
    BY <1>4 DEF WriteError, proc, Pending, In
  <2> QED
    BY <2>1, <2>2, <2>3 DEF OrderInv, In
<1>5. ASSUME NEW s \in Senders, Cancel(s) PROVE OrderInv'
  <2>1. UNCHANGED <<ppc, pev, ptarget>> /\ sent' = sent
    BY <1>5 DEF Cancel, proc
  <2>2. \A t \in Senders : pc'[t] = "write" => pc[t] = "write" /\ Cur(t)' = Cur(t)
    BY <1>5 DEF Cancel, proc, Cur, Types, TypeOK
  <2>3. \A c \in Cmds : Pending(c)' => Pending(c)
    BY <1>5 DEF Cancel, proc, Pending, In
  <2> QED
    BY <2>1, <2>2, <2>3 DEF OrderInv, In
<1>6. ASSUME NEW s \in Senders, ReceiveClosed(s) PROVE OrderInv'
  <2>1. UNCHANGED <<ppc, pev, ptarget>> /\ sent' = sent
    BY <1>6 DEF ReceiveClosed, proc
  <2>2. \A t \in Senders : pc'[t] = "write" => pc[t] = "write" /\ Cur(t)' = Cur(t)
    BY <1>6 DEF ReceiveClosed, proc, Cur, Types, TypeOK
  <2>3. \A c \in Cmds : Pending(c)' => Pending(c)
    BY <1>6 DEF ReceiveClosed, proc, Pending, In
  <2> QED
    BY <2>1, <2>2, <2>3 DEF OrderInv, In
<1>7. ASSUME NEW s \in Senders, Deliver(s) PROVE OrderInv'
  <2>1. ppc = "deliver" /\ ptarget = Cur(s) /\ ppc' = "select" /\ pc' = [pc EXCEPT ![s] = "idle"]
    BY <1>7 DEF Deliver
  <2>2. UNCHANGED <<nsent, sent, ctrl, events>>
    BY <1>7 DEF Deliver
  <2>3. ptarget = pev.cmd
    BY <2>1, AnswerFacts
  <2>4. \A t \in Senders : Cur(t)' = Cur(t) /\ (pc'[t] = "write" => pc[t] = "write")
    BY <2>1, <2>2 DEF Cur, Types, TypeOK
  <2>5. \A c \in Cmds : Pending(c)' => Pending(c)
    BY <2>1, <2>2 DEF Pending, In
  <2> QED
    BY <2>1, <2>2, <2>3, <2>4, <2>5 DEF OrderInv, In
<1>8. CASE CtrlAnswer
  <2>1. UNCHANGED <<pc, nsent, sent, ppc, pev, ptarget>>
    BY <1>8 DEF CtrlAnswer, sender, proc
  <2>2. \A c \in Cmds : Pending(c)' => Pending(c)
    BY <1>8, CtrlFacts
  <2> QED
    BY <2>1, <2>2 DEF OrderInv, In, Cur
<1>9. ASSUME NEW e \in events, ProcTake(e) PROVE OrderInv'
  <2>1. ppc = "select" /\ ppc' = "match" /\ pev' = e /\ events' = events \ {e} /\ UNCHANGED <<pc, nsent, sent, ctrl>>
    BY <1>9 DEF ProcTake, sender
  <2>2. \A c \in Cmds : Pending(c)' => Pending(c)
    BY <2>1 DEF Pending, In
  <2> QED
    BY <2>1, <2>2 DEF OrderInv, In, Cur
<1>10. CASE ProcUnknown
  <2>1. ppc = "match" /\ ppc' = "select" /\ UNCHANGED <<pc, nsent, sent, ctrl, events>>
    BY <1>10 DEF ProcUnknown, sender
  <2>2. \A c \in Cmds : Pending(c)' => Pending(c)
    BY <2>1 DEF Pending, In
  <2> QED
    BY <2>1, <2>2 DEF OrderInv, In, Cur
<1>11. CASE ProcNil
  <2>1. ppc = "match" /\ ppc' = "select" /\ UNCHANGED <<pc, nsent, sent, ctrl, events>>
    BY <1>11 DEF ProcNil, sender
  <2>2. \A c \in Cmds : Pending(c)' => Pending(c)
    BY <2>1 DEF Pending, In
  <2> QED
    BY <2>1, <2>2 DEF OrderInv, In, Cur
<1>12. CASE ProcMatch
  <2> DEFINE i == First(Stops(psnap))
  <2>1. /\ i \in DOMAIN sent /\ sent \in Slices /\ sent[i] \in Cmds /\ ppc = "match"
        /\ OpOf(sent[i]) = OpOf(pev.cmd)
        /\ \A j \in DOMAIN sent : OpOf(sent[j]) = OpOf(pev.cmd) => i <= j
    BY <1>12, MatchFacts DEF ProcMatch, UnracedInv
  <2>2. sent' = Delete(sent, i) /\ UNCHANGED <<pc, nsent, ctrl, events>>
    BY <1>12 DEF ProcMatch, sender, UnracedInv
  <2>3. \/ pev.t = "status" /\ ppc' = "select"
        \/ pev.t # "status" /\ ppc' = "deliver" /\ ptarget' = sent[i] /\ pev' = pev
    BY <1>12 DEF ProcMatch, UnracedInv
  <2> HIDE DEF i
  <2>4. \A c : In(c, sent) /\ c # sent[i] => In(c, sent')
    BY <2>1, <2>2, DeleteFacts DEF In
  <2>5. pev # None /\ pev.cmd \in Cmds
    BY <2>1, CmdFacts DEF Types, TypeOK
  <2>6. \A c \in Cmds : Pending(c)' => Pending(c) /\ c # pev.cmd
    BY <2>2, <2>3, <2>5 DEF Pending, In, EventInv
  <2>7. \A s \in Senders : Cur(s)' = Cur(s) /\ (pc[s] = "write" => Cur(s) \in Cmds /\ OpOf(Cur(s)) = Op[s] /\ Cur(s) # pev.cmd)
    <3> TAKE s \in Senders
    <3>1. Cur(s)' = Cur(s)
      BY <2>2 DEF Cur
    <3>2. pc[s] = "write" => Cur(s) \in Cmds /\ Cur(s)[1] = s
      BY CurFacts
    <3>3. pc[s] = "write" => Cur(s) # pev.cmd
      BY <2>5, <3>2 DEF EventInv
    <3> QED
      BY <3>1, <3>2, <3>3 DEF OpOf
  <2>8. CASE pev.t = "status"
    <3>1. OpOf(sent[i]) \in StatusOps
      BY <2>1, <2>5, <2>8 DEF EventInv
    <3> QED
      BY <2>1, <2>2, <2>3, <2>4, <2>6, <2>7, <2>8, <3>1 DEF OrderInv
  <2>9. CASE pev.t # "status"
    <3>1. OpOf(pev.cmd) \notin StatusOps /\ Pending(pev.cmd)
      BY <2>1, <2>5, <2>9 DEF EventInv, Pending
    <3>2. PICK x \in DOMAIN sent : sent[x] = pev.cmd
      BY <2>1, <2>5, <3>1 DEF OrderInv, In
    <3>3. sent[i][1] = pev.cmd[1]
      BY <2>1, <2>5, CmdFacts DEF OneOpcode, OpOf
    <3>4. i <= x /\ i \in Nat /\ x \in Nat
      BY <2>1, <3>2 DEF Slices
    <3>5. sent[i][2] <= pev.cmd[2]
      <4>1. CASE i = x
        BY <2>5, <3>2, <4>1, CmdFacts
      <4>2. CASE i < x
        BY <2>1, <2>5, <3>2, <3>3, <4>2, CmdFacts DEF UnracedInv
      <4> QED
        BY <3>4, <4>1, <4>2
    <3>6. CASE sent[i] # pev.cmd
      BY <2>3, <2>9, <3>5, <3>6 DEF OrderInv
    <3>7. CASE sent[i] = pev.cmd
      BY <2>1, <2>2, <2>3, <2>4, <2>6, <2>7, <2>9, <3>5, <3>7 DEF OrderInv
    <3> QED
      BY <3>6, <3>7
  <2> QED
    BY <2>8, <2>9
<1>13. CASE UNCHANGED vars
  <2>1. UNCHANGED <<ppc, pev, ptarget>> /\ sent' = sent
    BY <1>13 DEF vars, sender, proc
  <2>2. \A t \in Senders : pc'[t] = "write" => pc[t] = "write" /\ Cur(t)' = Cur(t)
    BY <1>13 DEF vars, sender, proc, Cur, Types, TypeOK
  <2>3. \A c \in Cmds : Pending(c)' => Pending(c)
    BY <1>13 DEF vars, sender, proc, Pending, In
  <2> QED
    BY <2>1, <2>2, <2>3 DEF OrderInv, In
<1> QED
  BY <1>1, <1>2, <1>3, <1>4, <1>5, <1>6, <1>7, <1>8, <1>9, <1>10, <1>11, <1>12,
      <1>13 DEF Next, SendStep, ProcStep

(* As long as no Send gives up waiting, only what is waited for is answered. *)
LEMMA WaitStep ==
  ASSUME OneOpcode, Types, PacketInv, EventInv, WaitInv, cancels' = 0, [Next]_vars
  PROVE  WaitInv'
<1>1. ASSUME NEW s \in Senders, AppendLoad(s) PROVE WaitInv'
  <2>1. pc[s] = "idle" /\ pc' = [pc EXCEPT ![s] = "append"] /\ nsent' = [nsent EXCEPT ![s] = nsent[s] + 1] /\ nsent[s] \in Nat
    BY <1>1 DEF AppendLoad, Types, TypeOK
  <2>2. \A c \in Cmds : Unanswered(c)' => Unanswered(c)
    BY <1>1 DEF AppendLoad, proc, Unanswered, Pending, In
  <2>3. closed' = closed /\ \A t \in Senders : t # s => pc'[t] = pc[t] /\ Cur(t)' = Cur(t)
    BY <1>1, <2>1 DEF AppendLoad, Cur, Types, TypeOK
  <2>4. Cur(s)' = <<s, nsent[s] + 1>> /\ Cur(s)' \notin closed
    BY <2>1 DEF Cur, PacketInv, Born, Types, TypeOK
  <2> QED
    BY <2>1, <2>2, <2>3, <2>4, CmdFacts DEF WaitInv
<1>2. ASSUME NEW s \in Senders, AppendStore(s) PROVE WaitInv'
  <2>1. pc[s] = "append" /\ pc' = [pc EXCEPT ![s] = "write"] /\ UNCHANGED <<nsent, closed>>
    BY <1>2 DEF AppendStore
  <2>2. \A c \in Cmds : Unanswered(c)' => Unanswered(c)
    BY <1>2 DEF AppendStore, proc, Unanswered, Pending, In
  <2> QED
    BY <2>1, <2>2, CmdFacts DEF WaitInv, Cur, Types, TypeOK
<1>3. ASSUME NEW s \in Senders, WriteCmd(s) PROVE WaitInv'
  <2>1. pc[s] = "write" /\ pc' = [pc EXCEPT ![s] = "wait"] /\ UNCHANGED <<nsent, closed, events, ppc, pev>> /\ ctrl' = Append(ctrl, Cur(s))
    BY <1>3 DEF WriteCmd, proc
  <2>2. \A c : In(c, ctrl') <=> In(c, ctrl) \/ c = Cur(s)
    BY <2>1, CurFacts, AppendFacts DEF Types, TypeOK
  <2>3. \A c \in Cmds : Unanswered(c)' => Unanswered(c) \/ c = Cur(s)
    BY <2>1, <2>2 DEF Unanswered, Pending
  <2>4. Cur(s)[1] = s /\ pc'[s] = "wait" /\ Cur(s) \notin closed
    BY <2>1, CurFacts DEF WaitInv, Types, TypeOK
  <2>5. \A t \in Senders : Cur(t)' = Cur(t) /\ (t # s => pc'[t] = pc[t])
    BY <2>1 DEF Cur, Types, TypeOK
  <2> QED
    BY <2>1, <2>3, <2>4, <2>5, CmdFacts DEF WaitInv
<1>4. ASSUME NEW s \in Senders, WriteError(s) PROVE WaitInv'
  <2>1. pc[s] = "write" /\ pc' = [pc EXCEPT ![s] = "idle"] /\ UNCHANGED <<nsent, closed>>
    BY <1>4 DEF WriteError
  <2>2. \A c \in Cmds : Unanswered(c)' => Unanswered(c)
    BY <1>4 DEF WriteError, proc, Unanswered, Pending, In
  <2> QED
    BY <2>1, <2>2, CmdFacts DEF WaitInv, Cur, Types, TypeOK
<1>5. ASSUME NEW s \in Senders, Cancel(s) PROVE WaitInv'
  BY <1>5 DEF Cancel, Types, TypeOK
<1>6. ASSUME NEW s \in Senders, ReceiveClosed(s) PROVE WaitInv'
  <2>1. Cur(s) \in closed /\ pc' = [pc EXCEPT ![s] = "idle"] /\ UNCHANGED <<nsent, closed>>
    BY <1>6 DEF ReceiveClosed
  <2>2. \A c \in Cmds : Unanswered(c)' => Unanswered(c)
    BY <1>6 DEF ReceiveClosed, proc, Unanswered, Pending, In
  <2>3. \A c \in Cmds : Unanswered(c) => c[1] # s
    BY <2>1 DEF WaitInv
  <2> QED
    BY <2>1, <2>2, <2>3, CmdFacts DEF WaitInv, Cur, Types, TypeOK
<1>7. ASSUME NEW s \in Senders, Deliver(s) PROVE WaitInv'
  <2>1. /\ ppc = "deliver" /\ ptarget = Cur(s) /\ pc' = [pc EXCEPT ![s] = "idle"] /\ ppc' = "select" /\ pev' = None
        /\ UNCHANGED <<nsent, closed, ctrl, events>>
    BY <1>7 DEF Deliver
  <2>2. pev # None /\ pev.cmd \in Cmds /\ ptarget \in Cmds
    BY <2>1, CmdFacts DEF Types, TypeOK
  <2>3. \A c \in Cmds : Unanswered(c)' => Unanswered(c) /\ c # pev.cmd
    BY <2>1, <2>2 DEF Unanswered, Pending, In, EventInv
  <2>4. pev.cmd[1] = s
    BY <2>1, <2>2, CmdFacts, CurFacts DEF EventInv, OneOpcode, OpOf
  <2>5. pev.cmd = Cur(s)
    BY <2>2, <2>4 DEF WaitInv, Unanswered
  <2>6. \A c \in Cmds : Unanswered(c)' => c[1] # s
    BY <2>3, <2>5 DEF WaitInv
  <2> QED
    BY <2>1, <2>3, <2>6, CmdFacts DEF WaitInv, Cur, Types, TypeOK
<1>8. CASE CtrlAnswer
  <2>1. UNCHANGED <<pc, nsent, closed, ppc, pev>>
    BY <1>8 DEF CtrlAnswer, sender, proc
  <2>2. \A c \in Cmds : Unanswered(c)' => Unanswered(c)
    BY <1>8, <2>1, CtrlFacts DEF Unanswered
  <2> QED
    BY <2>1, <2>2 DEF WaitInv, Cur
<1>9. ASSUME NEW e \in events, ProcTake(e) PROVE WaitInv'
  <2>1. ppc = "select" /\ pev' = e /\ events' = events \ {e} /\ UNCHANGED <<pc, nsent, closed, ctrl>>
    BY <1>9 DEF ProcTake, sender
  <2>2. \A c \in Cmds : Unanswered(c)' => Unanswered(c)
    BY <2>1 DEF Unanswered, Pending, In
  <2> QED
    BY <2>1, <2>2 DEF WaitInv, Cur
<1>10. CASE ProcUnknown
  <2>1. ppc' = "select" /\ pev' = None /\ UNCHANGED <<pc, nsent, closed, ctrl, events>>
    BY <1>10 DEF ProcUnknown, sender
  <2>2. \A c \in Cmds : Unanswered(c)' => Unanswered(c)
    BY <2>1 DEF Unanswered, Pending, In
  <2> QED
    BY <2>1, <2>2 DEF WaitInv, Cur
<1>11. CASE ProcNil
  <2>1. ppc' = "select" /\ pev' = None /\ UNCHANGED <<pc, nsent, closed, ctrl, events>>
    BY <1>11 DEF ProcNil, sender
  <2>2. \A c \in Cmds : Unanswered(c)' => Unanswered(c)
    BY <2>1 DEF Unanswered, Pending, In
  <2> QED
    BY <2>1, <2>2 DEF WaitInv, Cur
<1>12. CASE ProcMatch
  <2> DEFINE p == psnap[First(Stops(psnap))]
  <2>1. p \in Cmds /\ OpOf(p) = OpOf(pev.cmd) /\ ppc = "match"
    BY <1>12, MatchFacts DEF ProcMatch
  <2>2. UNCHANGED <<pc, nsent, ctrl, events>>
    BY <1>12 DEF ProcMatch, sender
  <2>3. \/ closed' = closed /\ pev' = pev
        \/ closed' = closed \cup {p} /\ pev' = None /\ ppc' = "select"
    BY <1>12 DEF ProcMatch
  <2>4. ppc' # "match"
    BY <1>12 DEF ProcMatch
  <2> HIDE DEF p
  <2>5. pev # None /\ pev.cmd \in Cmds /\ p[1] = pev.cmd[1]
    BY <2>1, CmdFacts DEF Types, TypeOK, OneOpcode, OpOf
  <2>6. pev.cmd = Cur(p[1]) /\ pc[p[1]] = "wait"
    BY <2>5 DEF WaitInv, Unanswered
  <2>7. \A c \in Cmds : Unanswered(c)' => Unanswered(c) /\ (pev' = None => c # pev.cmd)
    BY <2>2, <2>3, <2>4, <2>5 DEF Unanswered, Pending, In, EventInv
  <2>8. CASE closed' = closed
    BY <2>2, <2>7, <2>8 DEF WaitInv, Cur
  <2>9. CASE closed' = closed \cup {p} /\ pev' = None
    <3>1. \A c \in Cmds : Unanswered(c)' => c # p
      BY <2>6, <2>7, <2>9 DEF WaitInv
    <3>2. \A s \in Senders : pc[s] \in {"append", "write"} => Cur(s) # p
      BY <2>6, CurFacts
    <3> QED
      BY <2>2, <2>7, <2>9, <3>1, <3>2 DEF WaitInv, Cur
  <2> QED
    BY <2>3, <2>8, <2>9
<1>13. CASE UNCHANGED vars
  <2>1. UNCHANGED <<pc, nsent, closed>>
    BY <1>13 DEF vars, sender
  <2>2. \A c \in Cmds : Unanswered(c)' => Unanswered(c)
    BY <1>13 DEF vars, proc, Unanswered, Pending, In
  <2> QED
    BY <2>1, <2>2 DEF WaitInv, Cur
<1> QED
  BY <1>1, <1>2, <1>3, <1>4, <1>5, <1>6, <1>7, <1>8, <1>9, <1>10, <1>11, <1>12,
      <1>13 DEF Next, SendStep, ProcStep

(* What Send returned stays its own answer, or that of a command with its opcode. *)
LEMMA OwnAnswerStep ==
  ASSUME OneOpcode, CmdInv, OwnInv, [Next]_vars
  PROVE  OwnAnswer'
<1> USE DEF CmdInv, OwnInv
<1>1. (raced => raced') /\ (cancels > 0 => cancels' > 0)
  BY DEF Next, SendStep, ProcStep, AppendLoad, AppendStore, WriteCmd, WriteError, Cancel, ReceiveClosed, Deliver,
     CtrlAnswer, ProcTake, ProcUnknown, ProcNil, ProcMatch, vars, bounds, Types, TypeOK
<1>2. ASSUME UNCHANGED <<ans, nsent>> PROVE OwnAnswer'
  BY <1>1, <1>2 DEF OwnAnswer, Cur
<1>3. ASSUME NEW s \in Senders, AppendLoad(s) PROVE OwnAnswer'
  <2>1. ans' = [ans EXCEPT ![s] = None] /\ \A t \in Senders : t # s => Cur(t)' = Cur(t)
    BY <1>3 DEF AppendLoad, Cur, Types, TypeOK
  <2>2. \A t \in Senders : t # s => ans'[t] = ans[t]
    BY <2>1 DEF Types, TypeOK
  <2>3. ans'[s] = None
    BY <2>1 DEF Types, TypeOK
  <2> QED
    BY <1>1, <2>1, <2>2, <2>3 DEF OwnAnswer
<1>4. ASSUME NEW s \in Senders, ReceiveClosed(s) PROVE OwnAnswer'
  <2>1. ans' = [ans EXCEPT ![s] = Cur(s)] /\ nsent' = nsent
    BY <1>4 DEF ReceiveClosed
  <2> QED
    BY <1>1, <2>1 DEF OwnAnswer, Cur, Types, TypeOK
<1>5. ASSUME NEW s \in Senders, Deliver(s) PROVE OwnAnswer'
  <2>1. ans' = [ans EXCEPT ![s] = pev.cmd] /\ nsent' = nsent /\ ppc = "deliver" /\ ptarget = Cur(s)
    BY <1>5 DEF Deliver
  <2>2. pev # None /\ pev.cmd \in Cmds /\ OpOf(pev.cmd) = Op[s]
    BY <2>1, CmdFacts, CurFacts DEF Types, TypeOK, EventInv, OpOf
  <2>3. ~ raced => pev.cmd = Cur(s)
    BY <2>1, AnswerFacts
  <2>4. cancels = 0 => pev.cmd = Cur(s)
    <3>1. pev.cmd[1] = s
      BY <2>2, CmdFacts DEF OneOpcode, OpOf
    <3> QED
      BY <2>2, <3>1 DEF WaitInv, Unanswered
  <2>5. pev.cmd = Cur(s) \/ (raced /\ cancels > 0 /\ OpOf(pev.cmd) = Op[s])
    BY <2>2, <2>3, <2>4 DEF Types, TypeOK
  <2> QED
    BY <1>1, <2>1, <2>5 DEF OwnAnswer, Cur, Types, TypeOK
<1> QED
  BY <1>2, <1>3, <1>4, <1>5 DEF Next, SendStep, ProcStep, AppendStore, WriteCmd, WriteError, Cancel,
     CtrlAnswer, ProcTake, ProcUnknown, ProcNil, ProcMatch, vars, sender

(* A race is not forgotten, nor is a cancellation. *)
LEMMA RacedStep ==
  ASSUME Types, [Next]_vars
  PROVE  (raced => raced') /\ (cancels' = 0 => cancels = 0)
BY DEF Next, SendStep, ProcStep, AppendLoad, AppendStore, WriteCmd, WriteError, Cancel, ReceiveClosed, Deliver,
     CtrlAnswer, ProcTake, ProcUnknown, ProcNil, ProcMatch, vars, bounds, Types, TypeOK

(* The inductive invariant holds at first. *)
LEMMA InitInv == Init => CmdInv /\ OwnInv /\ ~ panic
<1> SUFFICES ASSUME Init PROVE CmdInv /\ OwnInv /\ ~ panic
  OBVIOUS
<1> USE DEF Init
<1>1. MaxCancels \in Nat /\ MaxWriteErrs \in Nat
  BY CmdAssumption
<1>2. <<>> \in Seq(Cmds) /\ <<>> \in Slices
  BY CmdFacts
<1>3. cancels \in 0 .. MaxCancels /\ werrs \in 0 .. MaxWriteErrs
  BY <1>1
<1>4. TypeOK
  <2>1. pc \in [Senders -> {"idle", "append", "write", "wait"}]
    OBVIOUS
  <2>2. nsent \in [Senders -> Nat] /\ ans \in [Senders -> Cmds \cup {None}]
    OBVIOUS
  <2>3. snap \in [Senders -> Slices]
    BY <1>2
  <2>4. sent \in Slices /\ psnap \in Slices /\ ctrl \in Seq(Cmds)
    BY <1>2
  <2>5. events \subseteq Events /\ closed \subseteq Cmds
    OBVIOUS
  <2>6. ppc = "select" /\ pev = None /\ ptarget = None /\ panic \in BOOLEAN /\ raced \in BOOLEAN
    OBVIOUS
  <2> HIDE DEF Init
  <2> QED
    BY <1>3, <2>1, <2>2, <2>3, <2>4, <2>5, <2>6 DEF TypeOK
<1>5. CountInv
  BY CmdFacts DEF CountInv
<1>6. Types
  BY <1>4, <1>5 DEF Types
<1>7. PacketInv
  BY CmdFacts DEF PacketInv, AllBorn
<1>8. \A c : ~ In(c, <<>>)
  BY DEF In
<1>9. \A c : ~ Pending(c) /\ ~ Unanswered(c)
  BY <1>8 DEF Pending, Unanswered
<1>10. EventInv /\ UnracedInv
  BY <1>9 DEF EventInv, UnracedInv
<1>11. OwnInv
  BY <1>9 DEF OwnInv, OrderInv, WaitInv, OwnAnswer
<1> QED
  BY <1>6, <1>7, <1>10, <1>11 DEF CmdInv

(* Every step keeps it. *)
LEMMA StepInv == CmdInv /\ [Next]_vars => CmdInv'
BY TypesStep, PacketStep, EventStep, UnracedStep, RacedStep DEF CmdInv

LEMMA StepOwn ==
  ASSUME OneOpcode, CmdInv, OwnInv, [Next]_vars
  PROVE  OwnInv'
<1>1. ~ raced' => OrderInv'
  BY OrderStep, RacedStep DEF CmdInv, OwnInv
<1>2. cancels' = 0 => WaitInv'
  BY WaitStep, RacedStep DEF CmdInv, OwnInv
<1> QED
  BY <1>1, <1>2, OwnAnswerStep DEF OwnInv

-------------------------------------------------------------------------------

(* Packets, events and commands belong together as CmdInv says. *)
THEOREM CmdInvariant == Spec => []CmdInv
BY InitInv, StepInv, PTL DEF Spec

(* Every variable keeps its type. *)
THEOREM TypeCorrect == Spec => []TypeOK
<1>1. CmdInv => TypeOK
  BY DEF CmdInv, Types
<1> QED
  BY <1>1, CmdInvariant, PTL

(* As long as no accesses to Cmd.sent have raced, the packet of a command that
   is waited for can be found by its answer (PacketFindableUnraced). *)
THEOREM PacketsAreFound == Spec => []PacketFindableUnraced
<1>1. CmdInv => PacketFindableUnraced
  BY DEF CmdInv, UnracedInv, In, PacketFindableUnraced, PacketFindable
<1> QED
  BY <1>1, CmdInvariant, PTL

(* As long as no accesses to Cmd.sent have raced nothing panics (NoPanic), if
   the commands whose answer is checked are answered with CommandComplete. *)
THEOREM NothingPanics ==
  ASSUME CheckedComplete
  PROVE  Spec => []NoPanic
<1>1. Init => NoPanic
  BY DEF Init, NoPanic
<1>2. CmdInv /\ NoPanic /\ [Next]_vars => NoPanic'
  BY PanicStep, RacedStep DEF CmdInv, NoPanic
<1> QED
  BY <1>1, <1>2, CmdInvariant, PTL DEF Spec

(* Send returns the answer to its own command, whatever races, as long as no
   Send gives up waiting, and whoever gives up, as long as nothing races
   (OwnAnswer), if no two senders use the same opcode. *)
THEOREM SendGetsItsOwnAnswer ==
  ASSUME OneOpcode
  PROVE  Spec => []OwnAnswer
<1>1. Init => OwnInv
  BY InitInv
<1>2. CmdInv /\ OwnInv /\ [Next]_vars => OwnInv'
  BY StepOwn
<1>3. OwnInv => OwnAnswer
  BY DEF OwnInv
<1> QED
  BY <1>1, <1>2, <1>3, CmdInvariant, PTL DEF Spec
=============================================================================
