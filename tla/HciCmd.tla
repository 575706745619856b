------------------------------- MODULE HciCmd -------------------------------
(***************************************************************************)
(* Matching HCI commands with the controller's answers (linux/cmd/cmd.go). *)
(*                                                                         *)
(* Send appends a packet to Cmd.sent, writes the command to the device and *)
(* waits on the packet's own channel.  The controller answers a command    *)
(* with one event, CommandComplete or CommandStatus; handlePacket starts a *)
(* goroutine per event, so events reach processCmdEvents in any order.     *)
(* That goroutine looks up the first packet with the opcode of the event,  *)
(* deletes it, and either closes its channel (status) or sends the return  *)
(* parameters on it (complete).                                            *)
(*                                                                         *)
(* Cmd.sent is not protected by a lock.  A sender's append and the         *)
(* processor's slices.Delete are each a load and a store of the slice, and *)
(* the windows of two goroutines may overlap: that is the data race, and   *)
(* the auxiliary variable raced records it.  The store then works from     *)
(* what was loaded, and the backing array may have been shifted meanwhile, *)
(* its tail set to nil.                                                    *)
(***************************************************************************)
EXTENDS Naturals, Sequences, FiniteSets

CONSTANTS
  Senders,      \* goroutines that send commands
  Op,           \* Op[s]: the opcode sender s uses
  Checked,      \* the senders that use SendAndCheckResp with expected values
  StatusOps,    \* the opcodes the controller answers with CommandStatus
  MaxSends,     \* bound: MaxSends[s] commands are sent by s
  MaxCancels,   \* bound: context cancellations
  MaxWriteErrs, \* bound: failed writes to the HCI socket
  None,         \* no command
  Nil           \* a nil *cmdPkt

Cmds == UNION {{s} \X (1 .. MaxSends[s]) : s \in Senders}
OpOf(p) == Op[p[1]]
Events == [t : {"complete", "status"}, cmd : Cmds]

ASSUME CmdAssumption ==
  /\ None \notin Cmds \cup Events /\ Nil \notin Cmds /\ None # Nil
  /\ Checked \subseteq Senders
  /\ MaxSends \in [Senders -> Nat] /\ MaxCancels \in Nat /\ MaxWriteErrs \in Nat

VARIABLES
  pc,       \* program counter of each sender
  nsent,    \* number of its current command
  snap,     \* snap[s]: Cmd.sent as loaded by the append of s
  ans,      \* the command whose answer its last Send returned
  sent,     \* Cmd.sent
  ctrl,     \* commands written and not yet answered by the controller
  events,   \* events whose goroutines have not met the processor yet
  ppc,      \* program counter of processCmdEvents
  pev,      \* the event it is handling
  psnap,    \* Cmd.sent as ranged over
  ptarget,  \* the packet it is answering
  raced,    \* two goroutines have been at Cmd.sent at the same time
  closed,   \* packets whose channel is closed
  panic,    \* the program has panicked
  cancels,  \* cancellations so far
  werrs     \* failed writes so far

sender == <<pc, nsent, snap, ans>>
proc == <<ppc, pev, psnap, ptarget>>
bounds == <<cancels, werrs>>
vars == <<sender, proc, bounds, sent, raced, ctrl, events, closed, panic>>

Cur(s) == <<s, nsent[s]>>
Slices == Seq(Cmds \cup {Nil})

TypeOK ==
  /\ pc \in [Senders -> {"idle", "append", "write", "wait"}]
  /\ nsent \in [Senders -> Nat]
  /\ snap \in [Senders -> Slices]
  /\ ans \in [Senders -> Cmds \cup {None}]
  /\ sent \in Slices
  /\ ctrl \in Seq(Cmds)
  /\ events \subseteq Events
  /\ ppc \in {"select", "match", "deliver"}
  /\ pev \in Events \cup {None}
  /\ ppc # "select" => pev # None
  /\ psnap \in Slices
  /\ ptarget \in Cmds \cup {None}
  /\ ppc = "deliver" => ptarget # None
  /\ closed \subseteq Cmds
  /\ panic \in BOOLEAN /\ raced \in BOOLEAN
  /\ cancels \in 0 .. MaxCancels /\ werrs \in 0 .. MaxWriteErrs

Init ==
  /\ pc = [s \in Senders |-> "idle"]
  /\ nsent = [s \in Senders |-> 0]
  /\ snap = [s \in Senders |-> <<>>]
  /\ ans = [s \in Senders |-> None]
  /\ sent = <<>> /\ ctrl = <<>> /\ events = {}
  /\ ppc = "select" /\ pev = None /\ psnap = <<>> /\ ptarget = None
  /\ closed = {} /\ panic = FALSE /\ raced = FALSE /\ cancels = 0 /\ werrs = 0

\* Some goroutine is between its load and its store of Cmd.sent.
SentInUse == ppc = "match" \/ \E s \in Senders : pc[s] = "append"
-----------------------------------------------------------------------------
(* Send.                                                                   *)

\* c.sent = append(c.sent, p): the load ...
AppendLoad(s) ==
  /\ pc[s] = "idle" /\ nsent[s] < MaxSends[s]
  /\ raced' = (raced \/ SentInUse)
  /\ pc' = [pc EXCEPT ![s] = "append"]
  /\ nsent' = [nsent EXCEPT ![s] = @ + 1]
  /\ snap' = [snap EXCEPT ![s] = sent]
  /\ ans' = [ans EXCEPT ![s] = None]
  /\ UNCHANGED <<proc, bounds, sent, ctrl, events, closed, panic>>

\* What a stale slice shows once slices.Delete has moved the elements that
\* are still there to the front of the array and cleared the rest.
Shifted(q) ==
  LET kept == {k \in DOMAIN q : \E i \in DOMAIN sent : sent[i] = q[k]}
      place(i) == {k \in kept : Cardinality({j \in kept : j <= k}) = i}
  IN [i \in 1 .. Len(q) |-> IF place(i) = {} THEN Nil ELSE q[CHOOSE k \in place(i) : TRUE]]

\* ... and the store, onto a copy made in time or onto the shared array.
AppendStore(s) ==
  /\ pc[s] = "append"
  /\ \/ sent' = Append(snap[s], Cur(s))
     \/ raced /\ sent' = Append(Shifted(snap[s]), Cur(s))
  /\ pc' = [pc EXCEPT ![s] = "write"]
  /\ snap' = [snap EXCEPT ![s] = <<>>]
  /\ UNCHANGED <<raced, nsent, ans, proc, bounds, ctrl, events, closed, panic>>

\* c.dev.Write(raw)
WriteCmd(s) ==
  /\ pc[s] = "write"
  /\ ctrl' = Append(ctrl, Cur(s))
  /\ pc' = [pc EXCEPT ![s] = "wait"]
  /\ UNCHANGED <<raced, nsent, snap, ans, proc, bounds, sent, events, closed, panic>>

\* The write fails and Send returns; the packet stays in Cmd.sent.
WriteError(s) ==
  /\ pc[s] = "write" /\ werrs < MaxWriteErrs
  /\ werrs' = werrs + 1
  /\ pc' = [pc EXCEPT ![s] = "idle"]
  /\ UNCHANGED <<raced, nsent, snap, ans, proc, cancels, sent, ctrl, events, closed, panic>>

\* <-ctx.Done(): Send returns; the packet stays in Cmd.sent.
Cancel(s) ==
  /\ pc[s] = "wait" /\ cancels < MaxCancels
  /\ cancels' = cancels + 1
  /\ pc' = [pc EXCEPT ![s] = "idle"]
  /\ UNCHANGED <<raced, nsent, snap, ans, proc, werrs, sent, ctrl, events, closed, panic>>

\* <-p.done on a closed channel: a nil response, which SendAndCheckResp
\* slices as resp[0:1].  The status code itself has been dropped.
ReceiveClosed(s) ==
  /\ pc[s] = "wait" /\ Cur(s) \in closed
  /\ ans' = [ans EXCEPT ![s] = Cur(s)]
  /\ panic' = (s \in Checked)
  /\ pc' = [pc EXCEPT ![s] = "idle"]
  /\ UNCHANGED <<raced, nsent, snap, proc, bounds, sent, ctrl, events, closed>>
-----------------------------------------------------------------------------
(* The controller and the goroutine of each event (external, hci.go).      *)

CtrlAnswer ==
  /\ ctrl # <<>>
  /\ ctrl' = Tail(ctrl)
  /\ LET p == Head(ctrl) IN
     events' = events \cup {[t |-> IF OpOf(p) \in StatusOps THEN "status" ELSE "complete",
                             cmd |-> p]}
  /\ UNCHANGED <<raced, sender, proc, bounds, sent, closed, panic>>
-----------------------------------------------------------------------------
(* processCmdEvents.                                                       *)

\* The select meets the goroutine of an event; range c.sent loads the slice.
ProcTake(e) ==
  /\ ppc = "select" /\ e \in events
  /\ raced' = (raced \/ SentInUse)
  /\ events' = events \ {e}
  /\ ppc' = "match" /\ pev' = e /\ psnap' = sent
  /\ UNCHANGED <<sender, bounds, ptarget, sent, ctrl, closed, panic>>

\* Mutant: the opcode of the event is not looked at.
Stops_Any(q) == DOMAIN q

\* The packets of q that the loop stops at: those with the opcode of the
\* event, and a nil one, whose op cannot be read.
Stops(q) == {i \in DOMAIN q : q[i] = Nil \/ OpOf(q[i]) = OpOf(pev.cmd)}
First(I) == CHOOSE i \in I : \A j \in I : i <= j

\* Mutant: the packets behind the deleted one go with it.
Delete_Tail(q, i) == [k \in 1 .. i - 1 |-> q[k]]

\* slices.Delete(q, i, i+1)
Delete(q, i) == [k \in 1 .. Len(q) - 1 |-> IF k < i THEN q[k] ELSE q[k + 1]]

\* No packet has the opcode: the event is logged and dropped.
ProcUnknown ==
  /\ ppc = "match" /\ Stops(psnap) = {}
  /\ ppc' = "select"
  /\ pev' = None /\ psnap' = <<>>
  /\ UNCHANGED <<raced, sender, bounds, ptarget, sent, ctrl, events, closed, panic>>

\* p.op of a nil packet.
ProcNil ==
  /\ ppc = "match" /\ Stops(psnap) # {} /\ psnap[First(Stops(psnap))] = Nil
  /\ panic' = TRUE
  /\ ppc' = "select" /\ pev' = None /\ psnap' = <<>>
  /\ UNCHANGED <<raced, sender, bounds, ptarget, sent, ctrl, events, closed>>

\* Mutant: a completion leaves its packet in Cmd.sent.
ProcMatch_KeepOnComplete ==
  /\ ppc = "match" /\ Stops(psnap) # {}
  /\ LET i == First(Stops(psnap))
         p == psnap[i]
     IN /\ p # Nil
        /\ sent' = IF pev.t = "complete" THEN psnap ELSE Delete(psnap, i)
        /\ IF pev.t = "status"
           THEN /\ panic' = (p \in closed) \* close of a closed channel
                /\ closed' = closed \cup {p}
                /\ ppc' = "select" /\ pev' = None
                /\ UNCHANGED ptarget
           ELSE /\ ptarget' = p
                /\ ppc' = "deliver"
                /\ UNCHANGED <<pev, closed, panic>>
  /\ psnap' = <<>>
  /\ UNCHANGED <<raced, sender, bounds, ctrl, events>>

\* The packet is deleted; a status closes its channel, a completion is sent.
ProcMatch ==
  /\ ppc = "match" /\ Stops(psnap) # {}
  /\ LET i == First(Stops(psnap))
         p == psnap[i]
     IN /\ p # Nil
        /\ sent' = Delete(psnap, i)
        /\ IF pev.t = "status"
           THEN /\ panic' = (p \in closed) \* close of a closed channel
                /\ closed' = closed \cup {p}
                /\ ppc' = "select" /\ pev' = None
                /\ UNCHANGED ptarget
           ELSE /\ ptarget' = p
                /\ ppc' = "deliver"
                /\ UNCHANGED <<pev, closed, panic>>
  /\ psnap' = <<>>
  /\ UNCHANGED <<raced, sender, bounds, ctrl, events>>

\* p.done <- comp.ReturnParameters meets the Send that waits on p.done; if it
\* has been abandoned, no Send ever will.
Deliver(s) ==
  /\ ppc = "deliver" /\ pc[s] = "wait" /\ ptarget = Cur(s)
  /\ ans' = [ans EXCEPT ![s] = pev.cmd]
  /\ pc' = [pc EXCEPT ![s] = "idle"]
  /\ ppc' = "select" /\ pev' = None /\ ptarget' = None
  /\ UNCHANGED <<raced, nsent, snap, psnap, bounds, sent, ctrl, events, closed, panic>>
-----------------------------------------------------------------------------
SendStep(s) == AppendLoad(s) \/ AppendStore(s) \/ WriteCmd(s) \/ ReceiveClosed(s) \/ Deliver(s)
ProcStep == (\E e \in events : ProcTake(e)) \/ ProcUnknown \/ ProcNil \/ ProcMatch

Next ==
  /\ ~ panic
  /\ \/ \E s \in Senders : SendStep(s) \/ WriteError(s) \/ Cancel(s)
     \/ CtrlAnswer
     \/ ProcStep

Spec == Init /\ [][Next]_vars

\* Goroutines that can run do run, and the controller answers every command.
\* Nothing obliges a sender to send.
Fairness ==
  /\ \A s \in Senders : /\ WF_vars(~ panic /\ (AppendStore(s) \/ WriteCmd(s)))
                        /\ WF_vars(~ panic /\ (ReceiveClosed(s) \/ Deliver(s)))
  /\ WF_vars(~ panic /\ CtrlAnswer)
  /\ WF_vars(~ panic /\ ProcStep)

FairSpec == Spec /\ Fairness
-----------------------------------------------------------------------------
(* Properties.                                                             *)

\* Send returns the answer to its own command.  When accesses to Cmd.sent have
\* raced and a Send has given up waiting, it may be the answer to an earlier
\* command of the same sender, but never to one of another opcode.
OwnAnswer ==
  \A s \in Senders : ans[s] # None =>
    \/ ans[s] = Cur(s)
    \/ raced /\ cancels > 0 /\ OpOf(ans[s]) = Op[s]

\* The packet of every command that has been written, and is still waited for,
\* can be found by its answer: it is in Cmd.sent, in the processor's hands, or has
\* had its channel closed.
PacketFindable ==
  \A s \in Senders : pc[s] = "wait" =>
    \/ \E i \in DOMAIN sent : sent[i] = Cur(s)
    \/ ppc = "deliver" /\ ptarget = Cur(s)
    \/ Cur(s) \in closed

\* ... which holds as long as no two accesses to Cmd.sent have raced.
PacketFindableUnraced == raced \/ PacketFindable

\* Neither Send nor processCmdEvents panics as long as no two accesses to
\* Cmd.sent have raced, when the commands whose answer is checked are answered
\* with CommandComplete: no channel is closed twice, no nil response is sliced.
NoPanic == raced \/ ~ panic

\* Every command that is written is answered to its sender, unless accesses to
\* Cmd.sent race, or some Send has given up: on a write that failed, or because
\* its context ended.
CommandsReturn ==
  \A s \in Senders : pc[s] = "wait" ~> (pc[s] # "wait" \/ raced \/ cancels + werrs > 0)
=============================================================================
