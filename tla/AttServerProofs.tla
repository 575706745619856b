--------------------------- MODULE AttServerProofs ---------------------------
(***************************************************************************)
(* Proofs about AttServer, for any characteristics, any number of slots    *)
(* and any bounds: a notifier belongs to one subscription, and what is     *)
(* sent and what is stopped agree.                                         *)
(***************************************************************************)
EXTENDS AttServer, TLAPS

Serving == {"read", "ccc", "respond", "stopNotify", "stopped"}
Places == Serving \cup {"idle", "lock", "stopAll", "closeConn", "over"}
Item == [t : {"off", "notify"}, c : Chars \cup {NoChar}, n : Nat]

\* TypeOK, with what it leaves open: the shape of pc and of the sequence sent.
Types ==
  /\ TypeOK
  /\ pc \in [Closers -> Places]
  /\ wire \in Seq(Item)

\* The request in hand, and the notifier that the loop is about to delete.
LoopInv ==
  /\ IsConfig(req) => nreq > 0
  /\ pc["loop"] \in {"ccc", "stopNotify", "stopped"} => IsConfig(req)
  /\ pc["loop"] \in {"stopNotify", "stopped"} => req.v = "off"
  /\ pc["loop"] = "stopNotify" => cur["loop"] # 0 /\ cur["loop"] = notifiers[req.c]
  /\ pc["loop"] = "stopped" => notifiers[req.c] \in done
  /\ cur["loop"] # 0 => pc["loop"] \in {"stopNotify", "stopAll"}

\* Notifiers are numbered by requests, and one that is not done is in the map
\* under its own characteristic.
NotifierInv ==
  /\ \A n \in Notifiers : made[n] # NoChar => n <= nreq /\ (pc["loop"] = "ccc" => n < nreq)
  /\ \A n \in Notifiers : made[n] # NoChar /\ n \notin done => notifiers[made[n]] = n
  /\ \A c \in Chars : notifiers[c] # 0 => made[notifiers[c]] = c
  /\ \A n \in done \cup writing : made[n] # NoChar
  /\ \A p \in Closers : /\ cur[p] # 0 => made[cur[p]] # NoChar
                        /\ \A n \in todo[p] : made[n] # NoChar

\* What a notifier that is not done may still send comes from a request after
\* every answer to an unsubscription that was sent.
WireInv ==
  /\ \A i \in DOMAIN wire : wire[i].t = "off" =>
       /\ wire[i].c \in Chars
       /\ wire[i].n <= nreq /\ (pc["loop"] = "ccc" => wire[i].n < nreq)
       /\ \A n \in Notifiers : made[n] = wire[i].c /\ n \notin done => n > wire[i].n
  /\ pc["loop"] = "respond" /\ IsConfig(req) /\ req.v = "off" =>
       \A n \in Notifiers : made[n] = req.c => n \in done

\* While the application has not closed the connection only the loop stops
\* notifiers; when the loop itself closes, those that are not done are ahead of it.
HeldInv ==
  /\ ~ closed => pc["app"] = "idle"
  /\ pc["app"] = "idle" => cur["app"] = 0
  /\ ~ closed /\ pc["loop"] \in Serving => \A c \in Chars :
       /\ c \in wanted <=> notifiers[c] # 0 /\ ~ (pc["loop"] \in {"stopNotify", "stopped"} /\ c = req.c)
       /\ notifiers[c] \in done => pc["loop"] = "stopped" /\ c = req.c
  /\ pc["loop"] = "stopAll" => \A n \in Notifiers :
       made[n] # NoChar /\ n \notin done => n \in todo["loop"] \cup {cur["loop"]}
  /\ pc["loop"] \in {"closeConn", "over"} => \A n \in Notifiers : made[n] # NoChar => n \in done

ServerInv == Types /\ LoopInv /\ NotifierInv /\ WireInv /\ HeldInv

(* What the requests are, as far as the proofs need it. *)
LEMMA RequestFacts ==
  /\ Read \in Requests /\ ~ IsConfig(Read)
  /\ \A r \in Requests : IsConfig(r) => r.c \in Chars /\ r.v \in {"on", "off"}
<1>1. Read \in Requests /\ ~ IsConfig(Read)
  BY DEF Read, Requests, IsConfig
<1>2. \A r \in Requests : IsConfig(r) => r.c \in Chars /\ r.v \in {"on", "off"}
  BY DEF Read, Requests, Writes, IsConfig, Values, Kinds
<1> QED
  BY <1>1, <1>2

(* Notifiers are positive numbers, and so none of them is 0. *)
LEMMA NotifierFacts ==
  /\ Notifiers \subseteq Nat \ {0}
  /\ \A k \in 0 .. MaxReqs : k > 0 => k \in Notifiers
  /\ \A k \in 0 .. MaxReqs : k < MaxReqs => k + 1 \in 0 .. MaxReqs
BY ServerAssumption DEF Notifiers

(* A PDU that is sent takes a slot and keeps what was sent before. *)
LEMMA SendFacts ==
  ASSUME Types, NEW items \in Seq(Item), SendPDU(items)
  PROVE  bufCnt' \in 0 .. Slots /\ wire' \in Seq(Item) /\ link' = link
<1>1. bufCnt' \in 0 .. Slots
  BY ServerAssumption DEF SendPDU, Types, TypeOK
<1>2. wire' \in Seq(Item)
  BY DEF SendPDU, Types
<1> QED
  BY <1>1, <1>2 DEF SendPDU

(* What was sent grows by one item, or, once the link is gone, by none. *)
LEMMA SentFacts ==
  ASSUME wire \in Seq(Item), NEW x \in Item
  PROVE  /\ SendPDU(<<x>>) => wire' = wire \/ wire' = Append(wire, x)
         /\ SendPDU(<<>>) => wire' = wire
<1>1. wire \o <<x>> = Append(wire, x) /\ wire \o <<>> = wire
  OBVIOUS
<1> QED
  BY <1>1 DEF SendPDU

(* The notifiers of the map. *)
LEMMA MapFacts ==
  ASSUME Types
  PROVE  Range(notifiers) \ {0} \subseteq Notifiers
BY DEF Types, TypeOK, Range

(* Every step keeps the types. *)
LEMMA TypesStep ==
  ASSUME Types, LoopInv, NotifierInv, [Next]_vars
  PROVE  Types'
<1> USE DEF Goto, loop, stops, sending, Closers
<1>1. ASSUME NEW r \in Requests, ReadRequest(r) PROVE Types'
  BY <1>1, RequestFacts, NotifierFacts, ServerAssumption DEF Types, TypeOK, Places, Serving, ReadRequest
<1>2. CASE StartNotify
  <2>1. IsConfig(req) /\ req.c \in Chars /\ nreq \in Notifiers
    BY <1>2, RequestFacts, NotifierFacts DEF LoopInv, Types, TypeOK, StartNotify
  <2>2. notifiers' \in [Chars -> {0} \cup Notifiers] /\ made' \in [Notifiers -> Chars \cup {NoChar}]
    BY <1>2, <2>1 DEF Types, TypeOK, StartNotify
  <2>3. wanted' \subseteq Chars /\ req' \in Requests
    BY <1>2, <2>1, RequestFacts DEF Types, TypeOK, StartNotify, Answer
  <2> QED
    BY <1>2, <2>2, <2>3 DEF Types, TypeOK, Places, Serving, StartNotify, Answer
<1>3. CASE StopNotify
  <2>1. IsConfig(req) /\ req.c \in Chars /\ nreq \in Notifiers
    BY <1>3, RequestFacts, NotifierFacts DEF LoopInv, Types, TypeOK, StopNotify
  <2>2. cur' \in [Closers -> {0} \cup Notifiers] /\ req' \in Requests
    BY <1>3, <2>1, RequestFacts DEF Types, TypeOK, StopNotify, Answer
  <2> QED
    BY <1>3, <2>2 DEF Types, TypeOK, Places, Serving, StopNotify, Answer
<1>4. CASE DeleteNotifier
  BY <1>4, RequestFacts, NotifierFacts, ServerAssumption DEF Types, TypeOK, Places, Serving, DeleteNotifier, Answer
<1>5. CASE ReadFails
  BY <1>5, RequestFacts, NotifierFacts, ServerAssumption DEF Types, TypeOK, Places, Serving, ReadFails
<1>6. CASE Respond
  <2> DEFINE items == IF IsConfig(req) /\ req.v = "off"
                      THEN <<[t |-> "off", c |-> req.c, n |-> nreq]>> ELSE <<>>
  <2>1. items \in Seq(Item)
    <3>1. CASE IsConfig(req) /\ req.v = "off"
      <4>1. nreq \in Nat /\ req.c \in Chars
        BY <3>1, RequestFacts, ServerAssumption DEF Types, TypeOK
      <4>2. [t |-> "off", c |-> req.c, n |-> nreq] \in Item
        BY <4>1 DEF Item
      <4> QED
        BY <3>1, <4>2
    <3>2. CASE ~ (IsConfig(req) /\ req.v = "off")
      BY <3>2
    <3> QED
      BY <3>1, <3>2
  <2>2. SendPDU(items)
    BY <1>6 DEF Respond
  <2> HIDE DEF items
  <2>3. bufCnt' \in 0 .. Slots /\ wire' \in Seq(Item) /\ link' = link
    BY <2>1, <2>2, SendFacts
  <2> QED
    BY <1>6, <2>3, RequestFacts DEF Types, TypeOK, Places, Serving, Respond
<1>7. CASE Close
  BY <1>7, RequestFacts, NotifierFacts, ServerAssumption DEF Types, TypeOK, Places, Serving, Close
<1>8. ASSUME NEW p \in Closers, CloseLock(p) PROVE Types'
  <2>1. todo' \in [Closers -> SUBSET Notifiers]
    BY <1>8, MapFacts DEF Types, TypeOK, CloseLock
  <2> QED
    BY <1>8, <2>1 DEF Types, TypeOK, Places, Serving, CloseLock
<1>9. ASSUME NEW p \in Closers, CloseNext(p) PROVE Types'
  BY <1>9, RequestFacts, NotifierFacts, ServerAssumption DEF Types, TypeOK, Places, Serving, CloseNext
<1>10. ASSUME NEW p \in Closers, CloseConn(p) PROVE Types'
  BY <1>10, RequestFacts, NotifierFacts, ServerAssumption DEF Types, TypeOK, Places, Serving, CloseConn
<1>11. ASSUME NEW p \in Closers, Stop(p) PROVE Types'
  BY <1>11, RequestFacts, NotifierFacts, ServerAssumption, ZenonT(60) DEF Types, TypeOK, Places, Serving, Stop, Stoppable
<1>12. ASSUME NEW n \in Notifiers, WriteBegins(n) PROVE Types'
  BY <1>12, RequestFacts, NotifierFacts, ServerAssumption DEF Types, TypeOK, Places, Serving, WriteBegins
<1>13. ASSUME NEW n \in Notifiers, SendNotification(n) PROVE Types'
  <2>1. <<[t |-> "notify", c |-> made[n], n |-> n]>> \in Seq(Item)
    BY NotifierFacts DEF Types, TypeOK, Item
  <2>2. bufCnt' \in 0 .. Slots /\ wire' \in Seq(Item) /\ link' = link
    BY <1>13, <2>1, SendFacts DEF SendNotification
  <2> QED
    BY <1>13, <2>2 DEF Types, TypeOK, SendNotification
<1>14. CASE NumberOfCompletedPkts
  BY <1>14, RequestFacts, NotifierFacts, ServerAssumption DEF Types, TypeOK, Places, Serving, NumberOfCompletedPkts
<1>15. CASE LinkLost
  BY <1>15, RequestFacts, NotifierFacts, ServerAssumption DEF Types, TypeOK, Places, Serving, LinkLost
<1>16. CASE UNCHANGED vars
  BY <1>16, RequestFacts, NotifierFacts, ServerAssumption DEF Types, TypeOK, Places, Serving, vars
<1> QED
  BY <1>1, <1>2, <1>3, <1>4, <1>5, <1>6, <1>7, <1>8, <1>9, <1>10, <1>11, <1>12, <1>13,
      <1>14, <1>15, <1>16 DEF Next, Loop, Closing

(* The loop knows what it is about to delete. *)
LEMMA LoopStep ==
  ASSUME Types, LoopInv, NotifierInv, [Next]_vars
  PROVE  LoopInv'
<1> USE DEF Goto, loop, stops, sending, Closers
<1>1. ASSUME NEW r \in Requests, ReadRequest(r) PROVE LoopInv'
  BY <1>1, RequestFacts DEF Types, TypeOK, LoopInv, ReadRequest
<1>2. CASE StartNotify
  BY <1>2, RequestFacts DEF Types, TypeOK, LoopInv, StartNotify, Answer
<1>3. CASE StopNotify
  BY <1>3, RequestFacts DEF Types, TypeOK, LoopInv, StopNotify, Answer
<1>4. CASE DeleteNotifier
  BY <1>4, RequestFacts DEF Types, TypeOK, LoopInv, DeleteNotifier, Answer
<1>5. CASE ReadFails
  BY <1>5, RequestFacts DEF Types, TypeOK, LoopInv, ReadFails
<1>6. CASE Respond
  BY <1>6, RequestFacts DEF Types, TypeOK, LoopInv, Respond, SendPDU
<1>7. CASE Close
  BY <1>7, RequestFacts DEF Types, TypeOK, LoopInv, Close
<1>8. ASSUME NEW p \in Closers, CloseLock(p) PROVE LoopInv'
  BY <1>8, RequestFacts DEF Types, TypeOK, LoopInv, CloseLock
<1>9. ASSUME NEW p \in Closers, CloseNext(p) PROVE LoopInv'
  BY <1>9, RequestFacts DEF Types, TypeOK, LoopInv, CloseNext
<1>10. ASSUME NEW p \in Closers, CloseConn(p) PROVE LoopInv'
  BY <1>10, RequestFacts DEF Types, TypeOK, LoopInv, CloseConn
<1>11. ASSUME NEW p \in Closers, Stop(p) PROVE LoopInv'
  BY <1>11, RequestFacts DEF Types, TypeOK, LoopInv, Stop, Stoppable
<1>12. ASSUME NEW n \in Notifiers, WriteBegins(n) PROVE LoopInv'
  BY <1>12, RequestFacts DEF Types, TypeOK, LoopInv, WriteBegins
<1>13. ASSUME NEW n \in Notifiers, SendNotification(n) PROVE LoopInv'
  BY <1>13, RequestFacts DEF Types, TypeOK, LoopInv, SendNotification, SendPDU
<1>14. CASE NumberOfCompletedPkts
  BY <1>14, RequestFacts DEF Types, TypeOK, LoopInv, NumberOfCompletedPkts
<1>15. CASE LinkLost
  BY <1>15, RequestFacts DEF Types, TypeOK, LoopInv, LinkLost
<1>16. CASE UNCHANGED vars
  BY <1>16, RequestFacts DEF Types, TypeOK, LoopInv, vars
<1> QED
  BY <1>1, <1>2, <1>3, <1>4, <1>5, <1>6, <1>7, <1>8, <1>9, <1>10, <1>11, <1>12, <1>13,
      <1>14, <1>15, <1>16 DEF Next, Loop, Closing

(* A notifier that is not done stays in the map under its characteristic. *)
LEMMA NotifierStep ==
  ASSUME Types, LoopInv, NotifierInv, [Next]_vars
  PROVE  NotifierInv'
<1> USE DEF Goto, loop, stops, sending, Closers
<1>1. ASSUME NEW r \in Requests, ReadRequest(r) PROVE NotifierInv'
  BY <1>1, NotifierFacts, ServerAssumption DEF Types, TypeOK, LoopInv, NotifierInv, ReadRequest
<1>2. CASE StartNotify
  <2>1. IsConfig(req) /\ req.c \in Chars /\ nreq \in Notifiers
    BY <1>2, RequestFacts, NotifierFacts DEF LoopInv, Types, TypeOK, StartNotify
  <2>2. CASE notifiers[req.c] # 0
    BY <1>2, <2>1, <2>2, NotifierFacts DEF Types, TypeOK, LoopInv, NotifierInv, StartNotify, Answer
  <2>3. CASE notifiers[req.c] = 0
    <3>1. \A n \in Notifiers : made'[n] = IF n = nreq THEN req.c ELSE made[n]
      BY <1>2, <2>1, <2>3 DEF Types, TypeOK, LoopInv, NotifierInv, StartNotify, Answer
    <3>2. \A c \in Chars : notifiers'[c] = IF c = req.c THEN nreq ELSE notifiers[c]
      BY <1>2, <2>1, <2>3 DEF Types, TypeOK, LoopInv, NotifierInv, StartNotify, Answer
    <3>3. /\ made[nreq] = NoChar /\ pc'["loop"] # "ccc" /\ nreq' = nreq
          /\ UNCHANGED <<done, writing, cur, todo>>
      BY <1>2, <2>1, NotifierFacts DEF Types, TypeOK, LoopInv, NotifierInv, StartNotify, Answer
    <3>4. \A n \in Notifiers : made'[n] # NoChar => n <= nreq' /\ (pc'["loop"] = "ccc" => n < nreq')
      BY <2>1, <3>1, <3>3, NotifierFacts DEF NotifierInv
    <3>5. \A n \in Notifiers : made'[n] # NoChar /\ n \notin done' => notifiers'[made'[n]] = n
      BY <2>1, <2>3, <3>3, <3>1, <3>2, NotifierFacts DEF Types, TypeOK, NotifierInv
    <3>6. \A c \in Chars : notifiers'[c] # 0 => made'[notifiers'[c]] = c
      <4>1. SUFFICES ASSUME NEW c \in Chars, notifiers'[c] # 0 PROVE made'[notifiers'[c]] = c
        OBVIOUS
      <4>2. CASE c = req.c
        BY <2>1, <3>1, <3>2, <4>2
      <4>3. CASE c # req.c
        <5>1. notifiers'[c] = notifiers[c] /\ notifiers[c] \in Notifiers /\ made[notifiers[c]] = c
          BY <3>2, <4>1, <4>3 DEF Types, TypeOK, NotifierInv
        <5>2. notifiers[c] # nreq
          BY <3>3, <5>1, ServerAssumption
        <5> QED
          BY <3>1, <5>1, <5>2
      <4> QED
        BY <4>2, <4>3
    <3>7. \A n \in Notifiers : made[n] # NoChar => made'[n] # NoChar
      BY <2>1, <3>1, ServerAssumption
    <3>8. \A n \in done' \cup writing' : made'[n] # NoChar
      BY <3>3, <3>7 DEF Types, TypeOK, NotifierInv
    <3>9. \A p \in Closers : /\ cur'[p] # 0 => made'[cur'[p]] # NoChar
                             /\ \A n \in todo'[p] : made'[n] # NoChar
      BY <3>3, <3>7 DEF Types, TypeOK, NotifierInv
    <3> QED
      BY <3>4, <3>5, <3>6, <3>8, <3>9 DEF NotifierInv
  <2> QED
    BY <2>2, <2>3
<1>3. CASE StopNotify
  <2>1. IsConfig(req) /\ req.c \in Chars /\ nreq \in Notifiers
    BY <1>3, RequestFacts, NotifierFacts DEF LoopInv, Types, TypeOK, StopNotify
  <2>2. \A p \in Closers : cur'[p] # 0 => made[cur'[p]] # NoChar
    BY <1>3, <2>1, ServerAssumption DEF Types, TypeOK, NotifierInv, StopNotify, Answer
  <2>3. pc'["loop"] # "ccc" /\ nreq' = nreq
    BY <1>3 DEF Types, TypeOK, LoopInv, NotifierInv, StopNotify, Answer
  <2> QED
    BY <1>3, <2>2, <2>3 DEF NotifierInv, StopNotify
<1>4. CASE DeleteNotifier
  BY <1>4, NotifierFacts, ServerAssumption DEF Types, TypeOK, LoopInv, NotifierInv, DeleteNotifier, Answer
<1>5. CASE ReadFails
  BY <1>5, NotifierFacts, ServerAssumption DEF Types, TypeOK, LoopInv, NotifierInv, ReadFails
<1>6. CASE Respond
  BY <1>6, NotifierFacts, ServerAssumption DEF Types, TypeOK, LoopInv, NotifierInv, Respond, SendPDU
<1>7. CASE Close
  BY <1>7, NotifierFacts, ServerAssumption DEF Types, TypeOK, LoopInv, NotifierInv, Close
<1>8. ASSUME NEW p \in Closers, CloseLock(p) PROVE NotifierInv'
  <2>1. \A n \in Range(notifiers) \ {0} : made[n] # NoChar
    BY ServerAssumption DEF Types, TypeOK, NotifierInv, Range
  <2> QED
    BY <1>8, <2>1 DEF Types, TypeOK, LoopInv, NotifierInv, CloseLock
<1>9. ASSUME NEW p \in Closers, CloseNext(p) PROVE NotifierInv'
  <2>1. \A q \in Closers : /\ cur'[q] # 0 => made[cur'[q]] # NoChar
                           /\ \A n \in todo'[q] : made[n] # NoChar
    BY <1>9 DEF Types, TypeOK, NotifierInv, CloseNext
  <2>2. pc'["loop"] = "ccc" => pc["loop"] = "ccc"
    BY <1>9 DEF Types, TypeOK, CloseNext
  <2>3. UNCHANGED <<nreq, notifiers, made, done, writing>>
    BY <1>9 DEF CloseNext
  <2> HIDE DEF Closers
  <2> QED
    BY <2>1, <2>2, <2>3 DEF NotifierInv
<1>10. ASSUME NEW p \in Closers, CloseConn(p) PROVE NotifierInv'
  BY <1>10, NotifierFacts, ServerAssumption DEF Types, TypeOK, LoopInv, NotifierInv, CloseConn
<1>11. ASSUME NEW p \in Closers, Stop(p) PROVE NotifierInv'
  BY <1>11, NotifierFacts, ServerAssumption DEF Types, TypeOK, LoopInv, NotifierInv, Stop, Stoppable
<1>12. ASSUME NEW n \in Notifiers, WriteBegins(n) PROVE NotifierInv'
  BY <1>12, NotifierFacts, ServerAssumption DEF Types, TypeOK, LoopInv, NotifierInv, WriteBegins
<1>13. ASSUME NEW n \in Notifiers, SendNotification(n) PROVE NotifierInv'
  BY <1>13, NotifierFacts, ServerAssumption DEF Types, TypeOK, LoopInv, NotifierInv, SendNotification, SendPDU
<1>14. CASE NumberOfCompletedPkts
  BY <1>14, NotifierFacts, ServerAssumption DEF Types, TypeOK, LoopInv, NotifierInv, NumberOfCompletedPkts
<1>15. CASE LinkLost
  BY <1>15, NotifierFacts, ServerAssumption DEF Types, TypeOK, LoopInv, NotifierInv, LinkLost
<1>16. CASE UNCHANGED vars
  BY <1>16, NotifierFacts, ServerAssumption DEF Types, TypeOK, LoopInv, NotifierInv, vars
<1> QED
  BY <1>1, <1>2, <1>3, <1>4, <1>5, <1>6, <1>7, <1>8, <1>9, <1>10, <1>11, <1>12, <1>13,
      <1>14, <1>15, <1>16 DEF Next, Loop, Closing

(* An answer to an unsubscription is behind all that its notifier sent. *)
LEMMA WireStep ==
  ASSUME Types, LoopInv, NotifierInv, WireInv, [Next]_vars
  PROVE  WireInv'
<1> USE DEF Goto, loop, stops, sending, Closers
<1>1. ASSUME NEW r \in Requests, ReadRequest(r) PROVE WireInv'
  <2>1. nreq' = nreq + 1 /\ UNCHANGED <<made, done, wire>>
    BY <1>1 DEF ReadRequest
  <2>2. pc'["loop"] = "respond" => ~ IsConfig(req')
    BY <1>1, RequestFacts DEF Types, TypeOK, ReadRequest
  <2>3. \A i \in DOMAIN wire : wire[i] \in Item
    BY DEF Types
  <2>4. \A i \in DOMAIN wire : wire[i].t = "off" => wire[i].n < nreq'
    BY <2>1, <2>3, ServerAssumption DEF Types, TypeOK, WireInv, Item
  <2> QED
    BY <2>1, <2>2, <2>3, <2>4, ServerAssumption DEF Types, TypeOK, WireInv, Item
<1>2. CASE StartNotify
  BY <1>2, RequestFacts, NotifierFacts DEF Types, TypeOK, LoopInv, NotifierInv, WireInv, StartNotify, Answer
<1>3. CASE StopNotify
  <2>1. IsConfig(req) /\ req.c \in Chars /\ nreq \in Notifiers
    BY <1>3, RequestFacts, NotifierFacts DEF LoopInv, Types, TypeOK, StopNotify
  <2>2. notifiers[req.c] = 0 => \A n \in Notifiers : made[n] = req.c => n \in done
    BY <2>1, NotifierFacts, ServerAssumption DEF Types, TypeOK, NotifierInv
  <2> QED
    BY <1>3, <2>1, <2>2, RequestFacts DEF Types, TypeOK, LoopInv, NotifierInv, WireInv, StopNotify, Answer
<1>4. CASE DeleteNotifier
  <2>1. IsConfig(req) /\ req.c \in Chars /\ nreq \in Notifiers
    BY <1>4, RequestFacts, NotifierFacts DEF LoopInv, Types, TypeOK, DeleteNotifier
  <2>2. \A n \in Notifiers : made[n] = req.c => n \in done
    BY <1>4, <2>1, NotifierFacts, ServerAssumption DEF Types, TypeOK, LoopInv, NotifierInv, DeleteNotifier
  <2> QED
    BY <1>4, <2>1, <2>2, RequestFacts DEF Types, TypeOK, LoopInv, NotifierInv, WireInv, DeleteNotifier, Answer
<1>5. CASE ReadFails
  BY <1>5, RequestFacts, NotifierFacts DEF Types, TypeOK, LoopInv, NotifierInv, WireInv, ReadFails
<1>6. CASE Respond
  <2> DEFINE off == [t |-> "off", c |-> req.c, n |-> nreq]
  <2>1. CASE link /\ IsConfig(req) /\ req.v = "off"
    <3>1. wire' = Append(wire, off)
      BY <1>6, <2>1 DEF Respond, SendPDU, Types
    <3>2. /\ DOMAIN wire' = 1 .. Len(wire) + 1 /\ DOMAIN wire = 1 .. Len(wire)
          /\ \A i \in DOMAIN wire : wire'[i] = wire[i]
          /\ wire'[Len(wire) + 1] = off
      BY <3>1 DEF Types
    <3>3. off.t = "off" /\ off.c = req.c /\ off.n = nreq /\ req.c \in Chars
      BY <2>1, RequestFacts DEF Types, TypeOK
    <3> QED
      BY <1>6, <2>1, <3>2, <3>3, RequestFacts, NotifierFacts DEF Types, TypeOK, LoopInv, NotifierInv, WireInv, Respond
  <2>2. CASE ~ (link /\ IsConfig(req) /\ req.v = "off")
    <3>1. wire' = wire
      BY <1>6, <2>2 DEF Respond, SendPDU, Types
    <3> QED
      BY <1>6, <3>1, RequestFacts DEF Types, TypeOK, LoopInv, NotifierInv, WireInv, Respond
  <2> QED
    BY <2>1, <2>2
<1>7. CASE Close
  BY <1>7, RequestFacts, NotifierFacts DEF Types, TypeOK, LoopInv, NotifierInv, WireInv, Close
<1>8. ASSUME NEW p \in Closers, CloseLock(p) PROVE WireInv'
  BY <1>8, RequestFacts, NotifierFacts DEF Types, TypeOK, LoopInv, NotifierInv, WireInv, CloseLock
<1>9. ASSUME NEW p \in Closers, CloseNext(p) PROVE WireInv'
  BY <1>9, RequestFacts, NotifierFacts DEF Types, TypeOK, LoopInv, NotifierInv, WireInv, CloseNext
<1>10. ASSUME NEW p \in Closers, CloseConn(p) PROVE WireInv'
  BY <1>10, RequestFacts, NotifierFacts DEF Types, TypeOK, LoopInv, NotifierInv, WireInv, CloseConn
<1>11. ASSUME NEW p \in Closers, Stop(p) PROVE WireInv'
  BY <1>11, RequestFacts, NotifierFacts DEF Types, TypeOK, LoopInv, NotifierInv, WireInv, Stop, Stoppable
<1>12. ASSUME NEW n \in Notifiers, WriteBegins(n) PROVE WireInv'
  BY <1>12, RequestFacts, NotifierFacts DEF Types, TypeOK, LoopInv, NotifierInv, WireInv, WriteBegins
<1>13. ASSUME NEW n \in Notifiers, SendNotification(n) PROVE WireInv'
  BY <1>13, RequestFacts, NotifierFacts DEF Types, TypeOK, LoopInv, NotifierInv, WireInv, SendNotification, SendPDU
<1>14. CASE NumberOfCompletedPkts
  BY <1>14, RequestFacts, NotifierFacts DEF Types, TypeOK, LoopInv, NotifierInv, WireInv, NumberOfCompletedPkts
<1>15. CASE LinkLost
  BY <1>15, RequestFacts, NotifierFacts DEF Types, TypeOK, LoopInv, NotifierInv, WireInv, LinkLost
<1>16. CASE UNCHANGED vars
  BY <1>16, RequestFacts, NotifierFacts DEF Types, TypeOK, LoopInv, NotifierInv, WireInv, vars
<1> QED
  BY <1>1, <1>2, <1>3, <1>4, <1>5, <1>6, <1>7, <1>8, <1>9, <1>10, <1>11, <1>12, <1>13,
      <1>14, <1>15, <1>16 DEF Next, Loop, Closing

(* The notifiers that are not done are those of the subscriptions. *)
LEMMA HeldStep ==
  ASSUME Types, LoopInv, NotifierInv, HeldInv, [Next]_vars
  PROVE  HeldInv'
<1> USE DEF Goto, loop, stops, sending, Closers
<1>1. ASSUME NEW r \in Requests, ReadRequest(r) PROVE HeldInv'
  BY <1>1, RequestFacts, NotifierFacts, ServerAssumption DEF Types, TypeOK, LoopInv, NotifierInv, HeldInv, Serving, ReadRequest
<1>2. CASE StartNotify
  BY <1>2, RequestFacts, NotifierFacts, ServerAssumption DEF Types, TypeOK, LoopInv, NotifierInv, HeldInv, Serving, StartNotify, Answer
<1>3. CASE StopNotify
  BY <1>3, RequestFacts, NotifierFacts, ServerAssumption DEF Types, TypeOK, LoopInv, NotifierInv, HeldInv, Serving, StopNotify, Answer
<1>4. CASE DeleteNotifier
  <2>1. IsConfig(req) /\ req.c \in Chars /\ nreq \in Notifiers
    BY <1>4, RequestFacts, NotifierFacts DEF LoopInv, Types, TypeOK, DeleteNotifier
  <2>2. \A c \in Chars : notifiers'[c] = IF c = req.c THEN 0 ELSE notifiers[c]
    BY <1>4, <2>1 DEF Types, TypeOK, DeleteNotifier
  <2>3. 0 \notin done
    BY NotifierFacts DEF Types, TypeOK
  <2> QED
    BY <1>4, <2>1, <2>2, <2>3 DEF Types, TypeOK, LoopInv, NotifierInv, HeldInv, Serving, DeleteNotifier, Answer
<1>5. CASE ReadFails
  BY <1>5, RequestFacts, NotifierFacts, ServerAssumption DEF Types, TypeOK, LoopInv, NotifierInv, HeldInv, Serving, ReadFails
<1>6. CASE Respond
  BY <1>6, RequestFacts, NotifierFacts, ServerAssumption DEF Types, TypeOK, LoopInv, NotifierInv, HeldInv, Serving, Respond, SendPDU
<1>7. CASE Close
  BY <1>7, RequestFacts, NotifierFacts, ServerAssumption DEF Types, TypeOK, LoopInv, NotifierInv, HeldInv, Serving, Close
<1>8. ASSUME NEW p \in Closers, CloseLock(p) PROVE HeldInv'
  <2>1. \A n \in Notifiers : made[n] # NoChar /\ n \notin done => n \in Range(notifiers) \ {0}
    BY NotifierFacts DEF Types, TypeOK, NotifierInv, Range
  <2>2. p = "loop" => pc'["app"] = pc["app"] /\ todo'["loop"] = Range(notifiers) \ {0}
    BY <1>8 DEF Types, TypeOK, CloseLock
  <2> QED
    BY <1>8, <2>1, <2>2 DEF Types, TypeOK, LoopInv, NotifierInv, HeldInv, Serving, CloseLock
<1>9. ASSUME NEW p \in Closers, CloseNext(p) PROVE HeldInv'
  <2>1. CASE todo[p] = {}
    BY <1>9, <2>1, NotifierFacts DEF Types, TypeOK, LoopInv, NotifierInv, HeldInv, Serving, CloseNext
  <2>2. CASE todo[p] # {}
    <3>1. PICK m \in todo[p] : cur' = [cur EXCEPT ![p] = m] /\ todo' = [todo EXCEPT ![p] = todo[p] \ {m}]
      BY <1>9, <2>2 DEF CloseNext
    <3>2. p = "loop" => todo'["loop"] \cup {cur'["loop"]} = todo["loop"] /\ cur'["app"] = cur["app"]
      BY <3>1 DEF Types, TypeOK
    <3>3. p = "app" => /\ todo'["loop"] = todo["loop"] /\ cur'["loop"] = cur["loop"]
                      /\ pc["app"] = "stopAll"
      BY <1>9, <3>1 DEF Types, TypeOK, CloseNext
    <3>4. pc' = pc /\ UNCHANGED <<req, notifiers, made, done, wanted, closed>>
      BY <1>9, <2>2 DEF CloseNext
    <3>5. cur[p] = 0 /\ pc[p] = "stopAll"
      BY <1>9 DEF CloseNext
    <3>6. CASE p = "loop"
      BY <3>2, <3>4, <3>5, <3>6, NotifierFacts DEF Types, TypeOK, HeldInv, Serving
    <3>7. CASE p = "app"
      BY <3>3, <3>4, <3>5, <3>7 DEF Types, TypeOK, HeldInv, Serving
    <3> QED
      BY <3>6, <3>7
  <2> QED
    BY <2>1, <2>2
<1>10. ASSUME NEW p \in Closers, CloseConn(p) PROVE HeldInv'
  BY <1>10, RequestFacts, NotifierFacts, ServerAssumption DEF Types, TypeOK, LoopInv, NotifierInv, HeldInv, Serving, CloseConn
<1>11. ASSUME NEW p \in Closers, Stop(p) PROVE HeldInv'
  <2>1. CASE p = "loop" /\ pc["loop"] = "stopNotify"
    <3>1. IsConfig(req) /\ req.c \in Chars
      BY <2>1, RequestFacts DEF Types, TypeOK, LoopInv
    <3>2. \A c \in Chars : notifiers[c] = cur["loop"] => c = req.c
      BY <2>1, <3>1, NotifierFacts DEF Types, TypeOK, LoopInv, NotifierInv
    <3> QED
      BY <1>11, <2>1, <3>1, <3>2, NotifierFacts DEF Types, TypeOK, LoopInv, NotifierInv, HeldInv, Serving, Stop, Stoppable
  <2>2. CASE p = "loop" /\ pc["loop"] # "stopNotify"
    BY <1>11, <2>2 DEF Types, TypeOK, LoopInv, NotifierInv, HeldInv, Serving, Stop, Stoppable
  <2>3. CASE p = "app"
    BY <1>11, <2>3 DEF Types, TypeOK, LoopInv, NotifierInv, HeldInv, Serving, Stop, Stoppable
  <2> QED
    BY <2>1, <2>2, <2>3
<1>12. ASSUME NEW n \in Notifiers, WriteBegins(n) PROVE HeldInv'
  BY <1>12, RequestFacts, NotifierFacts, ServerAssumption DEF Types, TypeOK, LoopInv, NotifierInv, HeldInv, Serving, WriteBegins
<1>13. ASSUME NEW n \in Notifiers, SendNotification(n) PROVE HeldInv'
  BY <1>13, RequestFacts, NotifierFacts, ServerAssumption DEF Types, TypeOK, LoopInv, NotifierInv, HeldInv, Serving, SendNotification, SendPDU
<1>14. CASE NumberOfCompletedPkts
  BY <1>14, RequestFacts, NotifierFacts, ServerAssumption DEF Types, TypeOK, LoopInv, NotifierInv, HeldInv, Serving, NumberOfCompletedPkts
<1>15. CASE LinkLost
  BY <1>15, RequestFacts, NotifierFacts, ServerAssumption DEF Types, TypeOK, LoopInv, NotifierInv, HeldInv, Serving, LinkLost
<1>16. CASE UNCHANGED vars
  BY <1>16, RequestFacts, NotifierFacts, ServerAssumption DEF Types, TypeOK, LoopInv, NotifierInv, HeldInv, Serving, vars
<1> QED
  BY <1>1, <1>2, <1>3, <1>4, <1>5, <1>6, <1>7, <1>8, <1>9, <1>10, <1>11, <1>12, <1>13,
      <1>14, <1>15, <1>16 DEF Next, Loop, Closing

LEMMA InitInv == Init => ServerInv
<1> SUFFICES ASSUME Init PROVE ServerInv
  OBVIOUS
<1> USE DEF Init, Closers
<1>1. Types
  <2>1. /\ pc \in [Closers -> Places] /\ pc["loop"] = "read" /\ pc["app"] = "idle"
        /\ todo \in [Closers -> SUBSET Notifiers] /\ cur \in [Closers -> {0} \cup Notifiers]
    BY DEF Places, Serving
  <2>2. /\ req \in Requests /\ nreq \in 0 .. MaxReqs /\ nnotes \in 0 .. MaxNotes
        /\ bufCnt \in 0 .. Slots /\ wire \in Seq(Item)
    BY RequestFacts, ServerAssumption
  <2>3. /\ notifiers \in [Chars -> {0} \cup Notifiers]
        /\ made \in [Notifiers -> Chars \cup {NoChar}]
    OBVIOUS
  <2> QED
    BY <2>1, <2>2, <2>3 DEF Types, TypeOK
<1>2. LoopInv
  BY RequestFacts DEF LoopInv
<1>3. NotifierInv
  BY DEF NotifierInv
<1>4. WireInv
  BY RequestFacts DEF WireInv
<1>5. HeldInv
  BY DEF HeldInv
<1> QED
  BY <1>1, <1>2, <1>3, <1>4, <1>5 DEF ServerInv

LEMMA StepInv == ServerInv /\ [Next]_vars => ServerInv'
BY TypesStep, LoopStep, NotifierStep, WireStep, HeldStep DEF ServerInv

(* The parts together are inductive. *)
THEOREM ServerInvariant == Spec => []ServerInv
BY InitInv, StepInv, PTL DEF Spec

(* The types of the loop, the notifiers and the slots. *)
THEOREM TypeCorrect == Spec => []TypeOK
<1>1. ServerInv => TypeOK
  BY DEF ServerInv, Types
<1> QED
  BY <1>1, ServerInvariant, PTL

(* However many notifiers write, subscriptions come and go, and whoever    *)
(* closes: no notification of an old subscription follows the answer that  *)
(* ended it.                                                               *)
THEOREM NoNotificationAfterAnswer == Spec => []NoLateNotification
<1>1. Init => NoLateNotification
  BY DEF Init, NoLateNotification
<1>2. ServerInv /\ NoLateNotification /\ [Next]_vars => NoLateNotification'
  <2> SUFFICES ASSUME ServerInv, NoLateNotification, [Next]_vars
               PROVE  NoLateNotification'
    OBVIOUS
  <2>1. wire \in Seq(Item) /\ DOMAIN wire = 1 .. Len(wire)
    BY DEF ServerInv, Types
  <2>2. CASE wire' = wire
    BY <2>2 DEF NoLateNotification
  <2>3. CASE Respond
    <3>1. \/ wire' = wire
          \/ wire' = Append(wire, [t |-> "off", c |-> req.c, n |-> nreq])
      <4>1. CASE IsConfig(req) /\ req.v = "off"
        <5>1. [t |-> "off", c |-> req.c, n |-> nreq] \in Item
          BY <4>1, RequestFacts, ServerAssumption DEF ServerInv, Types, TypeOK, Item
        <5> QED
          BY <2>1, <2>3, <4>1, <5>1, SentFacts DEF Respond
      <4>2. CASE ~ (IsConfig(req) /\ req.v = "off")
        <5>1. wire \o <<>> = wire
          BY <2>1
        <5> QED
          BY <2>3, <4>2, <5>1 DEF Respond, SendPDU
      <4> QED
        BY <4>1, <4>2
    <3> QED
      BY <2>1, <2>2, <3>1, SMTT(40) DEF NoLateNotification
  <2>4. ASSUME NEW n \in Notifiers, SendNotification(n) PROVE NoLateNotification'
    <3> DEFINE it == [t |-> "notify", c |-> made[n], n |-> n]
    <3>1. wire' = wire \/ wire' = Append(wire, it)
      <4>1. it \in Item
        BY NotifierFacts DEF ServerInv, Types, TypeOK, Item
      <4> QED
        BY <2>1, <2>4, <4>1, SentFacts DEF SendNotification
    <3>2. n \notin done /\ made[n] # NoChar
      BY <2>4 DEF ServerInv, Types, TypeOK, NotifierInv, SendNotification
    <3>3. \A i \in DOMAIN wire : wire[i].t = "off" /\ wire[i].c = made[n] => n > wire[i].n
      BY <3>2 DEF ServerInv, WireInv
    <3>4. it.t = "notify" /\ it.c = made[n] /\ it.n = n
      OBVIOUS
    <3> HIDE DEF it
    <3> QED
      BY <2>1, <2>2, <3>1, <3>3, <3>4 DEF NoLateNotification
  <2>5. wire' = wire \/ Respond \/ \E n \in Notifiers : SendNotification(n)
    BY DEF Next, Loop, Closing, ReadRequest, StartNotify, StopNotify, DeleteNotifier, ReadFails, Close,
           CloseLock, CloseNext, CloseConn, Stop, WriteBegins, NumberOfCompletedPkts, LinkLost,
           sending, vars
  <2> QED
    BY <2>2, <2>3, <2>4, <2>5
<1> QED
  BY <1>1, <1>2, ServerInvariant, PTL DEF Spec

(* What the central subscribed to is what has a notifier that may write,   *)
(* and the end of the connection leaves none.                              *)
THEOREM SubscriptionsAreHeld == Spec => []SubscriptionHeld
<1>1. ServerInv => SubscriptionHeld
  <2> SUFFICES ASSUME ServerInv PROVE SubscriptionHeld
    OBVIOUS
  <2> USE DEF ServerInv
  <2>1. pc["loop"] = "read" /\ ~ closed => \A c \in Chars : c \in wanted <=> notifiers[c] # 0
    BY DEF HeldInv, Serving
  <2>2. ASSUME pc["loop"] = "read", ~ closed, NEW n \in Notifiers
        PROVE  made[n] # NoChar /\ n \notin done <=> n \in Range(notifiers)
    <3>1. n \in Range(notifiers) <=> \E c \in Chars : notifiers[c] = n
      BY DEF Types, TypeOK, Range
    <3>2. made[n] # NoChar => made[n] \in Chars
      BY DEF Types, TypeOK
    <3>3. \A c \in Chars : notifiers[c] = n => made[n] = c /\ n \notin done
      BY <2>2, NotifierFacts DEF Types, TypeOK, NotifierInv, HeldInv, Serving
    <3> QED
      BY <3>1, <3>2, <3>3, ServerAssumption DEF NotifierInv
  <2>3. pc["loop"] = "over" => \A n \in Notifiers : made[n] # NoChar => n \in done
    BY DEF HeldInv
  <2> QED
    BY <2>1, <2>2, <2>3 DEF SubscriptionHeld
<1> QED
  BY <1>1, ServerInvariant, PTL
===============================================================================
