------------------------------ MODULE AttServer ------------------------------
(***************************************************************************)
(* The ATT server of a connection (central_linux.go, central.go): loop,    *)
(* the handling of writes, and the notifiers.                              *)
(*                                                                         *)
(* loop reads a request, handles it and writes the response, one request   *)
(* after the other.  Every subscription has a notifier, to which the       *)
(* ServeNotify of the application writes from a goroutine of its own.  A   *)
(* notifier is stopped by the loop (stopNotify), or with all the others by *)
(* Close, which the loop calls when Read fails and the application when it *)
(* likes.  notifiersMutex guards the map of notifiers and is kept while    *)
(* they are stopped; doneMutex, of each notifier, is a read lock for a     *)
(* Write and a write lock for stop, and a waiting write lock keeps new     *)
(* read locks out.  Both responses and notifications wait for a slot of    *)
(* bufCnt (module L2cap).                                                  *)
(*                                                                         *)
(* External: the central, the application's handlers, the controller.      *)
(***************************************************************************)
EXTENDS Naturals, Sequences, FiniteSets, SequencesExt

CONSTANTS
  Chars,      \* the characteristics, each with a notify handler and so with a CCC
  Writable,   \* those with a write handler
  WithDesc,   \* those with one more descriptor that has a write handler
  Slots,      \* the capacity of bufCnt
  MaxReqs,    \* bound: requests and commands of the central
  MaxNotes,   \* bound: notifications the application sends
  CanClose    \* whether the application may call Central.Close

Notifiers == 1 .. MaxReqs   \* a notifier has the number of the request that made it
Closers == {"loop", "app"}
NoChar == "nochar"

ASSUME ServerAssumption ==
  /\ IsFiniteSet(Chars) /\ NoChar \notin Chars
  /\ Writable \subseteq Chars /\ WithDesc \subseteq Chars
  /\ Slots \in Nat \ {0} /\ MaxReqs \in Nat /\ MaxNotes \in Nat /\ CanClose \in BOOLEAN

\* What the central may ask for: a write, with or without a response, of an
\* attribute of a characteristic or of a handle that is not there, or any of
\* the requests that only read (module Discovery).
Kinds == {"decl", "value", "desc", "ccc"}
Values == {"on", "off", "short"}
Writes == [cmd : BOOLEAN, at : Kinds, c : Chars, v : Values]
            \cup [cmd : BOOLEAN, at : {"none"}, c : {NoChar}, v : {"short"}]
Read == [cmd |-> FALSE, at |-> "read", c |-> NoChar, v |-> "short"]
Requests == {w \in Writes : w.at = "ccc" \/ w.v = "short"} \cup {Read}

VARIABLES
  pc,         \* pc[p]: where the loop and a Close of the application are
  req, resp,  \* the request in hand; whether it will be answered
  nreq,       \* requests read so far
  notifiers,  \* c.notifiers: 0, or the notifier under the handle of each CCC
  made,       \* the notifiers there have been, with their characteristics
  done,       \* those that were stopped
  writing,    \* those a Write of which is under way
  mutex,      \* who holds notifiersMutex
  todo, cur,  \* todo[p], cur[p]: what p has yet to stop, and what it waits to stop
  nnotes,     \* notifications begun so far
  bufCnt,     \* slots in use
  wire,       \* the notifications and the answers to unsubscriptions, as sent
  link,       \* the link is up
  wanted,     \* auxiliary: what the central has subscribed to
  closed      \* auxiliary: the application has called Close

loop == <<req, resp, nreq>>
stops == <<mutex, todo, cur>>
sending == <<bufCnt, wire, link>>
vars == <<pc, loop, notifiers, made, done, writing, stops, nnotes, sending, wanted, closed>>

TypeOK ==
  /\ pc["loop"] \in {"read", "ccc", "stopNotify", "stopped", "respond", "lock", "stopAll", "closeConn", "over"}
  /\ pc["app"] \in {"idle", "lock", "stopAll", "closeConn", "over"}
  /\ req \in Requests /\ resp \in BOOLEAN /\ nreq \in 0 .. MaxReqs
  /\ notifiers \in [Chars -> {0} \cup Notifiers]
  /\ made \in [Notifiers -> Chars \cup {NoChar}]
  /\ done \subseteq Notifiers /\ writing \subseteq Notifiers \ done
  /\ mutex \in Closers \cup {"free"}
  /\ todo \in [Closers -> SUBSET Notifiers] /\ cur \in [Closers -> {0} \cup Notifiers]
  /\ nnotes \in 0 .. MaxNotes /\ bufCnt \in 0 .. Slots
  /\ wanted \subseteq Chars /\ link \in BOOLEAN /\ closed \in BOOLEAN

Init ==
  /\ pc = [loop |-> "read", app |-> "idle"]
  /\ req = Read /\ resp = FALSE /\ nreq = 0
  /\ notifiers = [c \in Chars |-> 0] /\ made = [n \in Notifiers |-> NoChar]
  /\ done = {} /\ writing = {}
  /\ mutex = "free" /\ todo = [p \in Closers |-> {}] /\ cur = [p \in Closers |-> 0]
  /\ nnotes = 0 /\ bufCnt = 0 /\ wire = <<>> /\ link = TRUE
  /\ wanted = {} /\ closed = FALSE

Goto(p, l) == pc' = [pc EXCEPT ![p] = l]

\* conn.Write: a slot is taken; of a link that is gone it never comes back.
SendPDU(items) ==
  /\ bufCnt < Slots /\ bufCnt' = bufCnt + 1
  /\ wire' = IF link THEN wire \o items ELSE wire
  /\ UNCHANGED link

-------------------------------------------------------------------------------
(* loop, handleReq and handleWrite.                                        *)

\* The property that handleWrite looks at.  A declaration has those of its
\* characteristic; HandleWrite, and HandleNotify for the configuration, allow a
\* write with and without a response.  The security level is always the lowest.
MayWrite(r) ==
  CASE r.at \in {"decl", "value"} -> r.c \in Writable
    [] r.at = "desc" -> r.c \in WithDesc
    [] r.at = "ccc" -> TRUE
    [] OTHER -> FALSE

\* A write of the configuration with a value of the right length.
IsConfig(r) == r.at = "ccc" /\ r.v # "short"

\* Requests that only read and writes that are refused are answered, commands
\* too.  The write handlers are the application's: they change nothing here, and
\* whatever they return makes one response to a request and none to a command.
ReadRequest(r) ==
  /\ pc["loop"] = "read" /\ nreq < MaxReqs
  /\ nreq' = nreq + 1 /\ req' = IF IsConfig(r) THEN r ELSE Read
  /\ resp' = (~ r.cmd \/ ~ MayWrite(r) \/ (r.at = "ccc" /\ r.v = "short"))
  /\ Goto("loop", IF IsConfig(r) THEN "ccc" ELSE IF resp' THEN "respond" ELSE "read")
  /\ UNCHANGED <<notifiers, made, done, writing, stops, nnotes, sending, wanted, closed>>

\* A request that changes the configuration is answered, a command is not.
Answer ==
  /\ Goto("loop", IF resp THEN "respond" ELSE "read")
  /\ req' = IF resp THEN req ELSE Read
  /\ UNCHANGED <<resp, nreq>>

\* Mutant: a notifier that is there is not looked for.
StartNotify_Again ==
  /\ pc["loop"] = "ccc" /\ req.v = "on" /\ mutex = "free"
  /\ notifiers' = [notifiers EXCEPT ![req.c] = nreq]
  /\ made' = [made EXCEPT ![nreq] = req.c]
  /\ wanted' = wanted \cup {req.c}
  /\ Answer
  /\ UNCHANGED <<done, writing, stops, nnotes, sending, closed>>

\* startNotify, under notifiersMutex.
StartNotify ==
  /\ pc["loop"] = "ccc" /\ req.v = "on" /\ mutex = "free"
  /\ IF notifiers[req.c] # 0 THEN UNCHANGED <<notifiers, made>>
     ELSE /\ notifiers' = [notifiers EXCEPT ![req.c] = nreq]
          /\ made' = [made EXCEPT ![nreq] = req.c]
  /\ wanted' = wanted \cup {req.c}
  /\ Answer
  /\ UNCHANGED <<done, writing, stops, nnotes, sending, closed>>

\* stopNotify takes notifiersMutex and, if it finds a notifier, stops it ...
StopNotify ==
  /\ pc["loop"] = "ccc" /\ req.v = "off" /\ mutex = "free"
  /\ wanted' = wanted \ {req.c}
  /\ IF notifiers[req.c] = 0
     THEN Answer /\ UNCHANGED <<mutex, cur>>
     ELSE /\ mutex' = "loop" /\ cur' = [cur EXCEPT !["loop"] = notifiers[req.c]]
          /\ Goto("loop", "stopNotify") /\ UNCHANGED loop
  /\ UNCHANGED <<notifiers, made, done, writing, todo, nnotes, sending, closed>>

\* Mutant: stop does not wait for a Write that is under way.
Stoppable_Now(n) == TRUE

\* notifier.stop waits for a Write that is under way.
Stoppable(n) == n \notin writing

Stop(p) ==
  /\ cur[p] # 0 /\ Stoppable(cur[p])
  /\ done' = done \cup {cur[p]}
  /\ cur' = [cur EXCEPT ![p] = 0]
  /\ IF pc[p] = "stopNotify" THEN Goto(p, "stopped") ELSE UNCHANGED pc
  /\ UNCHANGED <<loop, notifiers, made, writing, mutex, todo, nnotes, sending, wanted, closed>>

\* Mutant: an early return that leaves notifiersMutex locked.
DeleteNotifier_KeepMutex ==
  /\ pc["loop"] = "stopped"
  /\ notifiers' = [notifiers EXCEPT ![req.c] = 0]
  /\ Answer
  /\ UNCHANGED <<made, done, writing, stops, nnotes, sending, wanted, closed>>

\* ... and deletes it.
DeleteNotifier ==
  /\ pc["loop"] = "stopped"
  /\ notifiers' = [notifiers EXCEPT ![req.c] = 0]
  /\ mutex' = "free"
  /\ Answer
  /\ UNCHANGED <<made, done, writing, todo, cur, nnotes, sending, wanted, closed>>

\* c.l2Conn.Write(resp)
Respond ==
  /\ pc["loop"] = "respond"
  /\ SendPDU(IF IsConfig(req) /\ req.v = "off"
             THEN <<[t |-> "off", c |-> req.c, n |-> nreq]>> ELSE <<>>)
  /\ Goto("loop", "read") /\ req' = Read /\ resp' = FALSE
  /\ UNCHANGED <<nreq, notifiers, made, done, writing, stops, nnotes, wanted, closed>>

\* Read fails once what was received before the end has been read.
ReadFails ==
  /\ pc["loop"] = "read" /\ ~ link
  /\ Goto("loop", "lock")
  /\ UNCHANGED <<loop, notifiers, made, done, writing, stops, nnotes, sending, wanted, closed>>

-------------------------------------------------------------------------------
(* Central.Close, called by the loop or by the application.                *)

Close ==
  /\ CanClose /\ pc["app"] = "idle"
  /\ Goto("app", "lock") /\ closed' = TRUE
  /\ UNCHANGED <<loop, notifiers, made, done, writing, stops, nnotes, sending, wanted>>

CloseLock(p) ==
  /\ pc[p] = "lock" /\ mutex = "free"
  /\ mutex' = p
  /\ todo' = [todo EXCEPT ![p] = Range(notifiers) \ {0}]
  /\ Goto(p, "stopAll")
  /\ UNCHANGED <<loop, notifiers, made, done, writing, cur, nnotes, sending, wanted, closed>>

\* The next notifier of the map; they are stopped in any order and stay in it.
CloseNext(p) ==
  /\ pc[p] = "stopAll" /\ cur[p] = 0
  /\ IF todo[p] = {} THEN Goto(p, "closeConn") /\ UNCHANGED <<todo, cur>>
     ELSE /\ \E n \in todo[p] : cur' = [cur EXCEPT ![p] = n] /\ todo' = [todo EXCEPT ![p] = @ \ {n}]
          /\ UNCHANGED pc
  /\ UNCHANGED <<loop, notifiers, made, done, writing, mutex, nnotes, sending, wanted, closed>>

\* c.l2Conn.Close(): a link that is up is disconnected.
CloseConn(p) ==
  /\ pc[p] = "closeConn"
  /\ link' = FALSE /\ mutex' = "free"
  /\ Goto(p, "over")
  /\ UNCHANGED <<loop, notifiers, made, done, writing, todo, cur, nnotes, bufCnt, wire, wanted, closed>>

-------------------------------------------------------------------------------
(* notifier.Write.                                                         *)

\* A read lock of doneMutex, which is free of writers and of those that wait;
\* a Write of a notifier that is done returns an error.  ServeNotify has one
\* goroutine, so a notifier has one Write under way at a time.
WriteBegins(n) ==
  /\ made[n] # NoChar /\ n \notin done \cup writing /\ \A p \in Closers : cur[p] # n
  /\ nnotes < MaxNotes /\ nnotes' = nnotes + 1
  /\ writing' = writing \cup {n}
  /\ UNCHANGED <<pc, loop, notifiers, made, done, stops, sending, wanted, closed>>

\* sendNotification
SendNotification(n) ==
  /\ n \in writing
  /\ SendPDU(<<[t |-> "notify", c |-> made[n], n |-> n]>>)
  /\ writing' = writing \ {n}
  /\ UNCHANGED <<pc, loop, notifiers, made, done, stops, nnotes, wanted, closed>>

-------------------------------------------------------------------------------
(* The controller (external).                                              *)

NumberOfCompletedPkts ==
  /\ link /\ bufCnt > 0 /\ bufCnt' = bufCnt - 1
  /\ UNCHANGED <<pc, loop, notifiers, made, done, writing, stops, nnotes, wire, link, wanted, closed>>

LinkLost ==
  /\ link /\ link' = FALSE
  /\ UNCHANGED <<pc, loop, notifiers, made, done, writing, stops, nnotes, bufCnt, wire, wanted, closed>>

-------------------------------------------------------------------------------
Loop == StartNotify \/ StopNotify \/ DeleteNotifier \/ ReadFails
Closing(p) == CloseLock(p) \/ CloseNext(p) \/ CloseConn(p) \/ Stop(p)

Next ==
  \/ \E r \in Requests : ReadRequest(r)
  \/ Loop \/ Respond \/ Close
  \/ \E p \in Closers : Closing(p)
  \/ \E n \in Notifiers : WriteBegins(n) \/ SendNotification(n)
  \/ NumberOfCompletedPkts \/ LinkLost

Spec == Init /\ [][Next]_vars

\* Goroutines run, and the controller reports what it has sent.  Nothing obliges
\* the central to ask, the application to write or to close, or the link to end.
FairSpec ==
  /\ Spec
  /\ WF_vars(Loop) /\ WF_vars(Respond)
  /\ \A p \in Closers : WF_vars(Closing(p))
  /\ \A n \in Notifiers : WF_vars(SendNotification(n))
  /\ WF_vars(NumberOfCompletedPkts)

-------------------------------------------------------------------------------
(* Properties                                                              *)

\* Once a central has been told that its notifications are off, none arrives
\* that an earlier subscription made: stopNotify waits for the Write under way
\* before the response is written ("Done reports whether the central has
\* requested not to receive any more notifications with this notifier").
NoLateNotification ==
  \A i, j \in DOMAIN wire :
    i < j /\ wire[i].t = "off" /\ wire[j].t = "notify" /\ wire[i].c = wire[j].c
      => wire[j].n > wire[i].n

\* Between two requests what the central has subscribed to is what the server
\* can send: a subscription has one notifier that is not done, in the map, and
\* no other notifier is left that is not done, unless the application has closed
\* the connection; and after the end of the loop none is left at all.
SubscriptionHeld ==
  /\ pc["loop"] = "read" /\ ~ closed =>
       /\ \A c \in Chars : c \in wanted <=> notifiers[c] # 0
       /\ \A n \in Notifiers : made[n] # NoChar /\ n \notin done <=> n \in Range(notifiers)
  /\ pc["loop"] = "over" => \A n \in Notifiers : made[n] # NoChar => n \in done

\* The loop comes back to Read after every request while the link is up, however
\* many notifiers write, and ends once it is lost, unless the slots of the
\* controller went with the link.
LoopGoesOn ==
  /\ pc["loop"] # "read" ~> (pc["loop"] = "read" \/ ~ link)
  /\ ~ link ~> (pc["loop"] = "over" \/ bufCnt = Slots)
===============================================================================
