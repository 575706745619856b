---------------------------- MODULE HciHostProofs ----------------------------
(***************************************************************************)
(* Proofs about HciHost, for any links, handles and bounds, and in         *)
(* whatever order the goroutines of the events run.  HostInv is the        *)
(* inductive invariant of NoPanic; PromptInv, which holds with Prompt, is  *)
(* that of the data and of the ends of links; with AdvInv it gives         *)
(* AdvertisingResumes.                                                     *)
(***************************************************************************)
EXTENDS HciHost, FiniteSetTheorems, TLAPS

\* handleConnection of link l has yet to put its connection in the table.
ToInsert(l) == todo[<<"conn", l>>] # <<>> /\ Head(todo[<<"conn", l>>]) = "insert"

\* The connection of l is not made yet.
Unborn(l) == links[l] = "none" \/ InStream("conn", l) \/ ToInsert(l)

HostTypes ==
  /\ todo \in [Tasks -> Seq(Steps)]
  /\ waiting \subseteq {t \in Tasks : todo[t] # <<>>}
  /\ mlink \in Links \cup {NoLink} /\ mconn \in Links \cup {NoLink}
  /\ mpc \in {"lock", "send"} => mlink \in Links
  /\ conns \in [Handles -> Links \cup {NoLink}]
  /\ closed \subseteq Links
  /\ links \in [Links -> {"none", "up", "down"}]
  /\ cmds \in Seq([t : Tasks, op : Ops])
  /\ stream \in Seq(Packets)

\* Each link has one handleConnection: its event is in the stream once, before
\* the goroutine starts, and "insert" is the first of the goroutine's steps.
OneConnection ==
  /\ \A i, j \in DOMAIN stream :
       stream[i].k = "conn" /\ stream[j].k = "conn" /\ stream[i].l = stream[j].l => i = j
  /\ \A l \in Links : links[l] = "none" => ~ InStream("conn", l) /\ todo[<<"conn", l>>] = <<>>
  /\ \A l \in Links : InStream("conn", l) => todo[<<"conn", l>>] = <<>>
  /\ \A l \in Links : \A i \in DOMAIN todo[<<"conn", l>>] :
       todo[<<"conn", l>>][i] = "insert" => i = 1

\* The table holds the connections that are made and not closed, each under the
\* handle of its link; mainLoop sends to one of them, and holds the mutex.
TableInv ==
  /\ mpc = "send" => connsMutex = Main /\ \E h \in Handles : conns[h] = mconn /\ mconn # NoLink
  /\ \A h \in Handles : conns[h] \notin closed
  /\ \A h \in Handles : conns[h] # NoLink => Handle[conns[h]] = h
  /\ \A l \in Links : Unborn(l) => l \notin closed /\ \A h \in Handles : conns[h] # l

HostInv == HostTypes /\ OneConnection /\ TableInv
-----------------------------------------------------------------------------
LEMMA ConnTask == \A l \in Links : \A k \in Kinds : <<k, l>> \in Tasks
BY DEF Tasks

LEMMA NotMain == Main \notin Tasks /\ Free \notin Tasks /\ Main # Free /\ App \in Tasks
BY DEF Main, Free, App, Tasks, Kinds

\* A task that takes a step does not come back to "insert".
LEMMA AdvanceKeeps ==
  ASSUME HostTypes, OneConnection, NEW t \in Tasks, todo[t] # <<>>, Advance(t)
  PROVE  /\ todo' \in [Tasks -> Seq(Steps)]
         /\ \A s \in Tasks : s # t => todo'[s] = todo[s]
         /\ \A l \in Links : \A i \in DOMAIN todo'[<<"conn", l>>] :
              todo'[<<"conn", l>>][i] = "insert" => i = 1
         /\ \A l \in Links : ToInsert(l)' => ToInsert(l) /\ t # <<"conn", l>>
<1>1. todo[t] \in Seq(Steps)
  BY DEF HostTypes
<1>2. Tail(todo[t]) \in Seq(Steps) /\ Len(Tail(todo[t])) = Len(todo[t]) - 1
        /\ \A i \in DOMAIN Tail(todo[t]) : i + 1 \in DOMAIN todo[t] /\ Tail(todo[t])[i] = todo[t][i + 1]
                                             /\ i \in Nat \ {0}
  BY <1>1
<1>3. todo' = [todo EXCEPT ![t] = Tail(todo[t])]
  BY DEF Advance
<1>4. todo' \in [Tasks -> Seq(Steps)] /\ \A s \in Tasks : s # t => todo'[s] = todo[s]
  BY <1>2, <1>3 DEF HostTypes
<1>5. todo'[t] = Tail(todo[t])
  BY <1>3 DEF HostTypes
<1>6. ASSUME NEW l \in Links, t = <<"conn", l>>
      PROVE  \A i \in DOMAIN todo'[t] : todo'[t][i] # "insert"
  BY <1>2, <1>5, <1>6 DEF OneConnection
<1>7. \A l \in Links : \A i \in DOMAIN todo'[<<"conn", l>>] :
        todo'[<<"conn", l>>][i] = "insert" => i = 1
  BY <1>4, <1>6, ConnTask DEF OneConnection, Kinds
<1>8. ASSUME NEW l \in Links, ToInsert(l)' PROVE ToInsert(l) /\ t # <<"conn", l>>
  <2>1. t # <<"conn", l>>
    <3>1. SUFFICES ASSUME t = <<"conn", l>> PROVE FALSE
      OBVIOUS
    <3>2. todo'[t] # <<>> /\ Head(todo'[t]) = "insert" /\ todo'[t] \in Seq(Steps)
      BY <1>8, <3>1, <1>4 DEF ToInsert
    <3>3. 1 \in DOMAIN todo'[t] /\ todo'[t][1] = "insert"
      BY <3>2
    <3> QED
      BY <1>6, <3>1, <3>3
  <2> QED
    BY <1>4, <1>8, <2>1, ConnTask DEF ToInsert, Kinds
<1> QED
  BY <1>4, <1>7, <1>8

\* Packets that are not connections, added to the stream.
LEMMA StreamGrows ==
  ASSUME stream \in Seq(Packets), NEW q \in Seq(Packets), stream' = stream \o q,
         \A i \in DOMAIN q : q[i].k # "conn"
  PROVE  /\ \A i \in DOMAIN stream' : stream'[i].k = "conn" => i \in DOMAIN stream /\ stream'[i] = stream[i]
         /\ \A l \in Links : InStream("conn", l)' => InStream("conn", l)
<1>1. \A i \in DOMAIN stream' :
        \/ i \in DOMAIN stream /\ stream'[i] = stream[i]
        \/ i - Len(stream) \in DOMAIN q /\ stream'[i] = q[i - Len(stream)]
  OBVIOUS
<1>2. \A i \in DOMAIN stream' : stream'[i].k = "conn" => i \in DOMAIN stream /\ stream'[i] = stream[i]
  BY <1>1
<1> QED
  BY <1>2 DEF InStream

LEMMA AppendIs ==
  ASSUME NEW S, NEW s \in Seq(S), NEW e \in S
  PROVE  /\ Append(s, e) = s \o <<e>> /\ Append(s, e) \in Seq(S) /\ <<e>> \in Seq(S)
         /\ \A i \in DOMAIN <<e>> : <<e>>[i] = e
         /\ \A i \in DOMAIN Append(s, e) : \/ i \in DOMAIN s /\ Append(s, e)[i] = s[i]
                                           \/ i = Len(s) + 1 /\ Append(s, e)[i] = e
         /\ \A i \in DOMAIN s : i \in DOMAIN Append(s, e) /\ Append(s, e)[i] = s[i]
OBVIOUS

LEMMA HeadTail ==
  ASSUME NEW S, NEW s \in Seq(S), s # <<>>
  PROVE  Head(s) \in S /\ Tail(s) \in Seq(S)
OBVIOUS

\* The first packet of the stream, read by mainLoop.
LEMMA StreamShrinks ==
  ASSUME stream \in Seq(Packets), stream # <<>>, stream' = Tail(stream)
  PROVE  /\ stream' \in Seq(Packets) /\ Head(stream) \in Packets
         /\ Head(stream) = stream[1] /\ 1 \in DOMAIN stream
         /\ \A i \in DOMAIN stream' : i + 1 \in DOMAIN stream /\ stream'[i] = stream[i + 1]
                                        /\ i \in Nat /\ i + 1 # 1
         /\ \A l \in Links : InStream("conn", l)' => InStream("conn", l)
<1>1. /\ stream' \in Seq(Packets) /\ Head(stream) \in Packets
      /\ Head(stream) = stream[1] /\ 1 \in DOMAIN stream
      /\ \A i \in DOMAIN stream' : i + 1 \in DOMAIN stream /\ stream'[i] = stream[i + 1]
                                     /\ i \in Nat /\ i + 1 # 1
  OBVIOUS
<1>2. \A l \in Links : InStream("conn", l)' => InStream("conn", l)
  BY <1>1 DEF InStream
<1> QED
  BY <1>1, <1>2

\* A step that only moves tasks on, and neither closes nor makes a connection.
LEMMA SameTable ==
  ASSUME HostInv, HostTypes', OneConnection', UNCHANGED <<conns, closed>>,
         \A l \in Links : Unborn(l)' => Unborn(l),
         mpc' = "send" => mpc = "send" /\ mconn' = mconn /\ connsMutex' = connsMutex
  PROVE  HostInv'
BY DEF HostInv, TableInv

\* A task takes a step that touches neither the links nor the stream.
LEMMA TaskMoves ==
  ASSUME HostInv, NEW t \in Tasks, todo[t] # <<>>, Advance(t), UNCHANGED <<links, stream>>
  PROVE  OneConnection' /\ \A l \in Links : Unborn(l)' => Unborn(l)
<1>1. HostTypes /\ OneConnection
  BY DEF HostInv
<1>2. /\ todo' \in [Tasks -> Seq(Steps)]
      /\ \A s \in Tasks : s # t => todo'[s] = todo[s]
      /\ \A l \in Links : \A i \in DOMAIN todo'[<<"conn", l>>] :
           todo'[<<"conn", l>>][i] = "insert" => i = 1
      /\ \A l \in Links : ToInsert(l)' => ToInsert(l)
  BY <1>1, AdvanceKeeps
<1>3. \A l \in Links : InStream("conn", l)' <=> InStream("conn", l)
  BY DEF InStream
<1>4. \A l \in Links : todo[<<"conn", l>>] = <<>> => todo'[<<"conn", l>>] = <<>>
  BY <1>2, ConnTask DEF Kinds
<1> QED
  BY <1>1, <1>2, <1>3, <1>4 DEF OneConnection, Unborn

\* A task other than a handleConnection is given new steps.
LEMMA OthersMove ==
  ASSUME HostInv, NEW t \in Tasks, \A l \in Links : t # <<"conn", l>>, NEW q \in Seq(Steps),
         todo' = [todo EXCEPT ![t] = q], UNCHANGED <<links, stream>>
  PROVE  OneConnection' /\ (\A l \in Links : Unborn(l)' => Unborn(l))
           /\ todo' \in [Tasks -> Seq(Steps)] /\ \A s \in Tasks : s # t => todo'[s] = todo[s]
<1>1. HostTypes /\ OneConnection
  BY DEF HostInv
<1>2. \A l \in Links : todo'[<<"conn", l>>] = todo[<<"conn", l>>]
  BY <1>1, ConnTask DEF HostTypes, Kinds
<1>3. \A l \in Links : InStream("conn", l)' <=> InStream("conn", l)
  BY DEF InStream
<1>4. todo' \in [Tasks -> Seq(Steps)] /\ \A s \in Tasks : s # t => todo'[s] = todo[s]
  BY <1>1 DEF HostTypes
<1> QED
  BY <1>1, <1>2, <1>3, <1>4 DEF OneConnection, Unborn, ToInsert

\* Tasks stay where they are, and the stream grows by packets that are no
\* connections.
LEMMA StreamOnly ==
  ASSUME HostInv, NEW q \in Seq(Packets), stream' = stream \o q,
         \A i \in DOMAIN q : q[i].k # "conn",
         UNCHANGED todo, \A l \in Links : links'[l] = "none" => links[l] = "none"
  PROVE  OneConnection' /\ (\A l \in Links : Unborn(l)' => Unborn(l)) /\ stream' \in Seq(Packets)
<1>1. HostTypes /\ OneConnection
  BY DEF HostInv
<1>2. /\ \A i \in DOMAIN stream' :
           stream'[i].k = "conn" => i \in DOMAIN stream /\ stream'[i] = stream[i]
      /\ \A l \in Links : InStream("conn", l)' => InStream("conn", l)
  BY <1>1, StreamGrows DEF HostTypes
<1>3. stream' \in Seq(Packets)
  BY <1>1 DEF HostTypes
<1> QED
  BY <1>1, <1>2, <1>3 DEF OneConnection, Unborn, ToInsert

LEMMA HostInit == Init => HostInv
<1> SUFFICES ASSUME Init PROVE HostInv
  OBVIOUS
<1>1. HostTypes
  BY DEF Init, HostTypes
<1>2. \A l \in Links : todo[<<"conn", l>>] = <<>>
  BY ConnTask DEF Init, Kinds
<1>3. OneConnection
  BY <1>2 DEF Init, OneConnection, InStream
<1>4. TableInv
  BY HostAssumption DEF Init, TableInv
<1> QED
  BY <1>1, <1>3, <1>4 DEF HostInv

\* Of the goroutines of the events, handleConnection alone inserts, at once.
LEMMA ProgramSteps ==
  \A k \in {"conn", "disc", "ltk"} :
    /\ Program[k] \in Seq(Steps) /\ Program[k] # <<>>
    /\ \A i \in DOMAIN Program[k] : Program[k][i] = "insert" => i = 1
<1>1. /\ Program["conn"] = <<"insert", "setOn", "accept">>
      /\ Program["disc"] = <<"delete", "setOn">> /\ Program["ltk"] = <<"find">>
  BY DEF Program
<1>2. /\ <<"insert", "setOn", "accept">> \in Seq(Steps) /\ <<"delete", "setOn">> \in Seq(Steps)
      /\ <<"find">> \in Seq(Steps)
  BY DEF Steps
<1>3. \A i \in DOMAIN <<"insert", "setOn", "accept">> :
        <<"insert", "setOn", "accept">>[i] = "insert" => i = 1
  OBVIOUS
<1>4. \A i \in DOMAIN <<"delete", "setOn">> : <<"delete", "setOn">>[i] # "insert"
  OBVIOUS
<1>5. \A i \in DOMAIN <<"find">> : <<"find">>[i] # "insert"
  OBVIOUS
<1>6. /\ <<"insert", "setOn", "accept">> # <<>> /\ <<"delete", "setOn">> # <<>>
      /\ <<"find">> # <<>>
  OBVIOUS
<1> SUFFICES ASSUME NEW k \in {"conn", "disc", "ltk"}
             PROVE  /\ Program[k] \in Seq(Steps) /\ Program[k] # <<>>
                    /\ \A i \in DOMAIN Program[k] : Program[k][i] = "insert" => i = 1
  OBVIOUS
<1>7. CASE k = "conn"
  BY <1>1, <1>2, <1>3, <1>6, <1>7
<1>8. CASE k = "disc"
  BY <1>1, <1>2, <1>4, <1>6, <1>8
<1>9. CASE k = "ltk"
  BY <1>1, <1>2, <1>5, <1>6, <1>9
<1> QED
  BY <1>7, <1>8, <1>9
-----------------------------------------------------------------------------
\* mainLoop.
LEMMA MainKeeps == HostInv /\ MainStep => HostInv'
<1> SUFFICES ASSUME HostInv, MainStep PROVE HostInv'
  OBVIOUS
<1>1. HostTypes /\ OneConnection /\ TableInv
  BY DEF HostInv
<1>2. CASE MainReadEvent
  <2> DEFINE p == Head(stream)
  <2>1. p.k \in {"conn", "disc", "ltk"} /\ mpc' = mpc /\ mpc = "read"
    BY <1>2 DEF MainReadEvent, Program, main
  <2>2. p \in Packets /\ stream' \in Seq(Packets) /\ stream[1] = p /\ 1 \in DOMAIN stream
        /\ (\A i \in DOMAIN stream' : i + 1 \in DOMAIN stream /\ stream'[i] = stream[i + 1]
                                        /\ i \in Nat /\ i + 1 # 1)
        /\ \A l \in Links : InStream("conn", l)' => InStream("conn", l)
    BY <1>1, <1>2, StreamShrinks DEF MainReadEvent, HostTypes
  <2>3. p.l \in Links /\ <<p.k, p.l>> \in Tasks
    BY <2>1, <2>2, ConnTask DEF Packets, Kinds
  <2>4. Program[p.k] \in Seq(Steps) /\ Program[p.k] # <<>>
          /\ \A i \in DOMAIN Program[p.k] : Program[p.k][i] = "insert" => i = 1
    BY <2>1, ProgramSteps
  <2>5. /\ todo' \in [Tasks -> Seq(Steps)] /\ todo'[<<p.k, p.l>>] = Program[p.k]
        /\ \A s \in Tasks : s # <<p.k, p.l>> => todo'[s] = todo[s]
    BY <1>1, <1>2, <2>3, <2>4 DEF MainReadEvent, HostTypes
  <2>6. HostTypes'
    BY <1>1, <1>2, <2>2, <2>4, <2>5 DEF MainReadEvent, HostTypes, main, ctrl
  <2>7. links' = links
    BY <1>2 DEF MainReadEvent, ctrl
  <2>8. \A l \in Links : <<p.k, p.l>> = <<"conn", l>> => InStream("conn", l) /\ ~ InStream("conn", l)'
    <3>1. SUFFICES ASSUME NEW l \in Links, p.k = "conn", p.l = l
                   PROVE  InStream("conn", l) /\ ~ InStream("conn", l)'
      BY <2>1
    <3>2. InStream("conn", l)
      BY <2>2, <3>1 DEF InStream
    <3>3. \A i \in DOMAIN stream' : ~ (stream'[i].k = "conn" /\ stream'[i].l = l)
      BY <1>1, <2>2, <3>1 DEF OneConnection
    <3> QED
      BY <3>2, <3>3 DEF InStream
  <2>9. \A l \in Links : <<p.k, p.l>> # <<"conn", l>> => todo'[<<"conn", l>>] = todo[<<"conn", l>>]
    BY <2>5, ConnTask DEF Kinds
  <2>10. OneConnection'
    <3>1. \A i, j \in DOMAIN stream' :
            stream'[i].k = "conn" /\ stream'[j].k = "conn" /\ stream'[i].l = stream'[j].l => i = j
      <4>1. SUFFICES ASSUME NEW i \in DOMAIN stream', NEW j \in DOMAIN stream',
                            stream'[i].k = "conn", stream'[j].k = "conn", stream'[i].l = stream'[j].l
                     PROVE  i = j
        OBVIOUS
      <4>2. i + 1 = j + 1
        BY <1>1, <2>2, <4>1 DEF OneConnection
      <4> QED
        BY <2>2, <4>2
    <3>2. \A l \in Links : links'[l] = "none" \/ InStream("conn", l)' =>
            ~ (links'[l] = "none" /\ InStream("conn", l)') /\ todo'[<<"conn", l>>] = <<>>
      BY <1>1, <2>2, <2>7, <2>8, <2>9 DEF OneConnection
    <3>3. \A l \in Links : \A i \in DOMAIN todo'[<<"conn", l>>] :
            todo'[<<"conn", l>>][i] = "insert" => i = 1
      BY <1>1, <2>4, <2>5, <2>9 DEF OneConnection
    <3> QED
      BY <3>1, <3>2, <3>3 DEF OneConnection
  <2>11. \A l \in Links : Unborn(l)' => Unborn(l)
    BY <2>2, <2>7, <2>8, <2>9 DEF Unborn, ToInsert
  <2> QED
    BY <1>2, <2>1, <2>6, <2>10, <2>11, SameTable DEF MainReadEvent
<1>3. CASE MainReadReply \/ MainReadAcl
  <2>1. stream # <<>> /\ stream' = Tail(stream) /\ UNCHANGED <<todo, waiting, links, conns, closed, cmds>>
        /\ mpc = "read" /\ mpc' \in {"read", "lock"} /\ (mpc' = "read" => mlink' = mlink)
        /\ (mpc' = "lock" => Head(stream).k = "acl" /\ mlink' = Head(stream).l) /\ mconn' = mconn
    BY <1>3 DEF MainReadReply, MainReadAcl, host, main, ctrl
  <2>2. Head(stream) \in Packets /\ stream' \in Seq(Packets)
        /\ (\A i \in DOMAIN stream' : i + 1 \in DOMAIN stream /\ stream'[i] = stream[i + 1]
                                        /\ i \in Nat /\ i + 1 # 1)
        /\ \A l \in Links : InStream("conn", l)' => InStream("conn", l)
    BY <1>1, <2>1, StreamShrinks DEF HostTypes
  <2>3. mpc' = "lock" => mlink' \in Links
    BY <2>1, <2>2 DEF Packets
  <2>4. HostTypes'
    BY <1>1, <2>1, <2>2, <2>3 DEF HostTypes
  <2>5. \A i, j \in DOMAIN stream' :
          stream'[i].k = "conn" /\ stream'[j].k = "conn" /\ stream'[i].l = stream'[j].l => i = j
    <3>1. SUFFICES ASSUME NEW i \in DOMAIN stream', NEW j \in DOMAIN stream',
                          stream'[i].k = "conn", stream'[j].k = "conn", stream'[i].l = stream'[j].l
                   PROVE  i = j
      OBVIOUS
    <3>2. i + 1 = j + 1
      BY <1>1, <2>2, <3>1 DEF OneConnection
    <3> QED
      BY <2>2, <3>2
  <2>6. OneConnection'
    BY <1>1, <2>1, <2>2, <2>5 DEF OneConnection
  <2>7. \A l \in Links : Unborn(l)' => Unborn(l)
    BY <2>1, <2>2 DEF Unborn, ToInsert
  <2> QED
    BY <2>1, <2>4, <2>6, <2>7, SameTable
<1>4. CASE MainLock
  <2>1. UNCHANGED <<todo, waiting, links, conns, closed, cmds, stream>>
    BY <1>4 DEF MainLock, ctrl
  <2>2. mlink \in Links /\ Handle[mlink] \in Handles /\ Found(mlink) \in Links \cup {NoLink}
    BY <1>1, <1>4 DEF MainLock, HostTypes, Handles, Found
  <2>3. HostTypes'
    BY <1>1, <1>4, <2>1, <2>2 DEF MainLock, HostTypes
  <2>4. mpc' = "send" => connsMutex' = Main /\ mconn' = conns[Handle[mlink]] /\ mconn' # NoLink
    BY <1>4 DEF MainLock, Found
  <2>5. OneConnection' /\ \A l \in Links : Unborn(l)' => Unborn(l)
    BY <1>1, <2>1 DEF OneConnection, Unborn, InStream, ToInsert
  <2>6. TableInv'
    BY <1>1, <2>1, <2>2, <2>4, <2>5 DEF TableInv
  <2> QED
    BY <2>3, <2>5, <2>6 DEF HostInv
<1>5. CASE MainSend
  <2>1. UNCHANGED <<todo, waiting, links, conns, closed, cmds, stream>> /\ mpc' = "read"
    BY <1>5 DEF MainSend, ctrl
  <2>2. HostTypes'
    BY <1>1, <1>5, <2>1 DEF MainSend, HostTypes
  <2>3. OneConnection' /\ \A l \in Links : Unborn(l)' => Unborn(l)
    BY <1>1, <2>1 DEF OneConnection, Unborn, InStream, ToInsert
  <2> QED
    BY <2>1, <2>2, <2>3, SameTable
<1> QED
  BY <1>2, <1>3, <1>4, <1>5 DEF MainStep

LEMMA SendTypes ==
  ASSUME HostTypes, NEW t \in Tasks, NEW op \in Ops, Send(t, op)
  PROVE  cmds' \in Seq([t : Tasks, op : Ops]) /\ waiting' = waiting \cup {t}
<1>1. [t |-> t, op |-> op] \in [t : Tasks, op : Ops]
  OBVIOUS
<1> QED
  BY <1>1 DEF Send, HostTypes

\* setAdvertiseEnable and the return of a command.
LEMMA TaskKeeps == HostInv /\ (\E t \in Tasks : TaskStep(t)) => HostInv'
<1> SUFFICES ASSUME HostInv, NEW t \in Tasks, TaskStep(t) PROVE HostInv'
  OBVIOUS
<1>1. HostTypes /\ OneConnection /\ TableInv
  BY DEF HostInv
<1>2. UNCHANGED <<links, stream, conns, closed, mpc, mlink, mconn>>
  BY DEF TaskStep, setAdvertiseEnable, Return, main, ctrl
<1>3. t \in waiting \/ todo[t] # <<>>
  BY DEF TaskStep, setAdvertiseEnable, Return, At
<1>4. todo[t] # <<>>
  BY <1>1, <1>3 DEF HostTypes
<1>5. Head(todo[t]) \in {"setOn", "setOff"} => Head(todo[t]) \in Ops
  BY DEF Ops
<1>6. /\ cmds' \in Seq([t : Tasks, op : Ops])
      /\ \/ Advance(t) /\ t \notin waiting' /\ waiting' \subseteq waiting
         \/ UNCHANGED todo /\ waiting' = waiting \cup {t}
  <2>1. CASE Return(t)
    BY <1>1, <2>1 DEF Return, ctrl, HostTypes
  <2>2. CASE setAdvertiseEnable(t)
    <3>1. CASE Advance(t) /\ UNCHANGED <<waiting, cmds>>
      BY <1>1, <2>2, <3>1 DEF setAdvertiseEnable, At, HostTypes
    <3>2. CASE Send(t, Head(todo[t])) /\ UNCHANGED todo
      <4>1. Head(todo[t]) \in Ops
        BY <1>5, <2>2 DEF setAdvertiseEnable, At
      <4> QED
        BY <1>1, <3>2, <4>1, SendTypes
    <3> QED
      BY <2>2, <3>1, <3>2 DEF setAdvertiseEnable
  <2> QED
    BY <2>1, <2>2 DEF TaskStep
<1>7. mpc = "send" => connsMutex' = connsMutex
  <2>1. CASE Return(t)
    BY <1>1, <2>1, NotMain DEF Return, Unlocked, TableInv
  <2>2. CASE setAdvertiseEnable(t)
    BY <1>1, <2>2, NotMain DEF setAdvertiseEnable, Unlocked, TableInv
  <2> QED
    BY <2>1, <2>2 DEF TaskStep
<1>8. CASE Advance(t) /\ t \notin waiting' /\ waiting' \subseteq waiting
  <2>1. OneConnection' /\ \A l \in Links : Unborn(l)' => Unborn(l)
    BY <1>2, <1>4, <1>8, TaskMoves
  <2>2. todo' \in [Tasks -> Seq(Steps)] /\ \A s \in Tasks : s # t => todo'[s] = todo[s]
    BY <1>1, <1>4, <1>8, AdvanceKeeps
  <2>3. HostTypes'
    BY <1>1, <1>2, <1>6, <1>8, <2>2 DEF HostTypes
  <2> QED
    BY <1>2, <1>7, <2>1, <2>3, SameTable
<1>9. CASE UNCHANGED todo /\ waiting' = waiting \cup {t}
  <2>1. OneConnection' /\ \A l \in Links : Unborn(l)' => Unborn(l)
    BY <1>1, <1>2, <1>9 DEF OneConnection, Unborn, InStream, ToInsert
  <2>2. HostTypes'
    BY <1>1, <1>2, <1>4, <1>6, <1>9 DEF HostTypes
  <2> QED
    BY <1>2, <1>7, <2>1, <2>2, SameTable
<1> QED
  BY <1>6, <1>8, <1>9

\* The handlers of the events and conn.Close.
LEMMA LinkKeeps == HostInv /\ (\E l \in Links : LinkStep(l)) => HostInv'
<1> SUFFICES ASSUME HostInv, NEW l \in Links, LinkStep(l) PROVE HostInv'
  OBVIOUS
<1>1. HostTypes /\ OneConnection /\ TableInv
  BY DEF HostInv
<1>2. Handle[l] \in Handles /\ \A k \in Kinds : <<k, l>> \in Tasks
  BY ConnTask DEF Handles
<1>3. CASE Insert(l)
  <2> DEFINE t == <<"conn", l>>
  <2>1. t \in Tasks /\ todo[t] # <<>> /\ Head(todo[t]) = "insert" /\ t \notin waiting /\ Advance(t)
        /\ connsMutex = Free /\ UNCHANGED <<links, stream, closed, mpc, mlink, mconn, waiting, cmds>>
        /\ conns' = [conns EXCEPT ![Handle[l]] = l]
    BY <1>3, <1>2 DEF Insert, At, main, ctrl, Kinds
  <2>2. Unborn(l) /\ ToInsert(l)
    BY <2>1 DEF Unborn, ToInsert
  <2>3. OneConnection' /\ \A m \in Links : Unborn(m)' => Unborn(m)
    BY <2>1, TaskMoves
  <2>4. /\ todo' \in [Tasks -> Seq(Steps)] /\ (\A s \in Tasks : s # t => todo'[s] = todo[s])
        /\ ~ ToInsert(l)'
    BY <1>1, <2>1, AdvanceKeeps
  <2>5. HostTypes'
    BY <1>1, <1>2, <2>1, <2>4 DEF HostTypes
  <2>6. ~ Unborn(l)'
    <3>1. links[l] # "none" /\ ~ InStream("conn", l)
      BY <1>1, <2>1 DEF OneConnection
    <3>2. ~ InStream("conn", l)'
      BY <2>1, <3>1 DEF InStream
    <3> QED
      BY <2>1, <2>4, <3>1, <3>2 DEF Unborn
  <2>7. mpc # "send"
    BY <1>1, <2>1, NotMain DEF TableInv
  <2>8. TableInv'
    <3>1. \A h \in Handles : conns'[h] = IF h = Handle[l] THEN l ELSE conns[h]
      BY <1>1, <2>1 DEF HostTypes
    <3>2. l \notin closed
      BY <1>1, <2>2 DEF TableInv
    <3> QED
      BY <1>1, <2>1, <2>3, <2>6, <2>7, <3>1, <3>2 DEF TableInv
  <2> QED
    BY <2>3, <2>5, <2>8 DEF HostInv
<1>4. CASE Accept(l)
  <2> DEFINE t == <<"conn", l>>
  <2>1. t \in Tasks /\ todo[t] # <<>> /\ Head(todo[t]) = "accept" /\ t \notin waiting
        /\ UNCHANGED <<links, stream, conns, closed, mpc, mlink, mconn, waiting, cmds, connsMutex>>
    BY <1>4, <1>2 DEF Accept, At, main, ctrl, Kinds
  <2>2. PICK q \in {<<"serve", "close">>, <<"serve">>, <<>>} : todo' = [todo EXCEPT ![t] = q]
    BY <1>4 DEF Accept
  <2>3. q \in Seq(Steps) /\ \A i \in DOMAIN q : q[i] # "insert"
    <3>1. <<"serve", "close">> \in Seq(Steps) /\ <<"serve">> \in Seq(Steps) /\ <<>> \in Seq(Steps)
      BY DEF Steps
    <3>2. \A i \in DOMAIN <<"serve", "close">> : <<"serve", "close">>[i] # "insert"
      OBVIOUS
    <3>3. \A i \in DOMAIN <<"serve">> : <<"serve">>[i] # "insert"
      OBVIOUS
    <3>4. \A i \in DOMAIN <<>> : <<>>[i] # "insert"
      OBVIOUS
    <3>5. CASE q = <<"serve", "close">>
      BY <3>1, <3>2, <3>5
    <3>6. CASE q = <<"serve">>
      BY <3>1, <3>3, <3>6
    <3>7. CASE q = <<>>
      BY <3>1, <3>4, <3>7
    <3> QED
      BY <2>2, <3>5, <3>6, <3>7
  <2>4. todo' \in [Tasks -> Seq(Steps)] /\ todo'[t] = q /\ \A s \in Tasks : s # t => todo'[s] = todo[s]
    BY <1>1, <2>1, <2>2, <2>3 DEF HostTypes
  <2>5. \A m \in Links : m # l => todo'[<<"conn", m>>] = todo[<<"conn", m>>]
    BY <2>4, ConnTask DEF Kinds
  <2>6. HostTypes'
    BY <1>1, <2>1, <2>4 DEF HostTypes
  <2>7. links[l] # "none" /\ ~ InStream("conn", l)
    BY <1>1, <2>1 DEF OneConnection
  <2>8. OneConnection'
    BY <1>1, <2>1, <2>3, <2>4, <2>5, <2>7, ZenonT(60) DEF OneConnection, InStream
  <2>9. ~ ToInsert(l)'
    <3>1. q # <<>> => Head(q) = q[1] /\ 1 \in DOMAIN q
      BY <2>3
    <3> QED
      BY <2>3, <2>4, <3>1 DEF ToInsert
  <2>10. \A m \in Links : Unborn(m)' => Unborn(m)
    BY <2>1, <2>5, <2>9 DEF Unborn, InStream, ToInsert
  <2> QED
    BY <2>1, <2>6, <2>8, <2>10, SameTable
<1>5. CASE Serve(l) \/ LtkNegReply(l) \/ Close(l)
  <2>1. PICK t \in {<<k, l>> : k \in Kinds} :
          /\ todo[t] # <<>> /\ t \notin waiting /\ connsMutex' \in {connsMutex, t}
          /\ connsMutex' = connsMutex \/ connsMutex = Free
          /\ UNCHANGED <<links, stream, conns, closed, mpc, mlink, mconn>>
          /\ \/ Advance(t) /\ UNCHANGED <<waiting, cmds>>
             \/ UNCHANGED <<todo, waiting, cmds>>
             \/ UNCHANGED todo /\ \E op \in {"ltkneg", "disconnect"} : Send(t, op)
    <3>1. CASE Serve(l)
      BY <3>1 DEF Serve, At, Kinds, main, ctrl
    <3>2. CASE LtkNegReply(l)
      BY <3>2 DEF LtkNegReply, At, Kinds, main
    <3>3. CASE Close(l)
      BY <3>3 DEF Close, At, Kinds, main
    <3> QED
      BY <1>5, <3>1, <3>2, <3>3
  <2>2. t \in Tasks
    BY <1>2, <2>1
  <2>3. mpc' = "send" => connsMutex' = connsMutex
    BY <1>1, <2>1, NotMain DEF TableInv
  <2>4. CASE Advance(t) /\ UNCHANGED <<waiting, cmds>>
    <3>1. OneConnection' /\ \A m \in Links : Unborn(m)' => Unborn(m)
      BY <2>1, <2>2, <2>4, TaskMoves
    <3>2. todo' \in [Tasks -> Seq(Steps)] /\ \A s \in Tasks : s # t => todo'[s] = todo[s]
      BY <1>1, <2>1, <2>2, <2>4, AdvanceKeeps
    <3>3. HostTypes'
      BY <1>1, <2>1, <2>4, <3>2 DEF HostTypes
    <3> QED
      BY <2>1, <2>3, <3>1, <3>3, SameTable
  <2>5. CASE UNCHANGED todo /\ (UNCHANGED <<waiting, cmds>> \/ \E op \in {"ltkneg", "disconnect"} : Send(t, op))
    <3>1. OneConnection' /\ \A m \in Links : Unborn(m)' => Unborn(m)
      BY <1>1, <2>1, <2>5 DEF OneConnection, Unborn, InStream, ToInsert
    <3>2. cmds' \in Seq([t : Tasks, op : Ops])
      <4>1. "ltkneg" \in Ops /\ "disconnect" \in Ops
        BY DEF Ops
      <4> QED
        BY <1>1, <2>2, <2>5, <4>1, SendTypes DEF HostTypes
    <3>3. HostTypes'
      BY <1>1, <2>1, <2>2, <2>5, <3>2 DEF Send, HostTypes
    <3> QED
      BY <2>1, <2>3, <3>1, <3>3, SameTable
  <2> QED
    BY <2>1, <2>4, <2>5
<1>6. CASE Delete(l)
  <2> DEFINE t == <<"disc", l>>
  <2>1. t \in Tasks /\ todo[t] # <<>> /\ t \notin waiting /\ connsMutex = Free
        /\ UNCHANGED <<links, stream, mpc, mlink, mconn, waiting, cmds>>
        /\ (\A m \in Links : t # <<"conn", m>>)
    BY <1>6, <1>2 DEF Delete, At, main, ctrl, Kinds
  <2>2. mpc # "send"
    BY <1>1, <2>1, NotMain DEF TableInv
  <2>3. /\ OneConnection' /\ (\A m \in Links : Unborn(m)' => Unborn(m))
        /\ todo' \in [Tasks -> Seq(Steps)] /\ \A s \in Tasks : s # t => todo'[s] = todo[s]
    <3>1. Tail(todo[t]) \in Seq(Steps) /\ <<>> \in Seq(Steps)
      BY <1>1, <2>1 DEF HostTypes
    <3>2. todo' = [todo EXCEPT ![t] = Tail(todo[t])] \/ todo' = [todo EXCEPT ![t] = <<>>]
      BY <1>6 DEF Delete, Advance
    <3> QED
      BY <2>1, <3>1, <3>2, OthersMove
  <2>4. CASE Found(l) = NoLink
    <3>1. UNCHANGED <<conns, closed>>
      BY <1>6, <2>4 DEF Delete
    <3>2. HostTypes'
      BY <1>1, <2>1, <2>3, <3>1 DEF HostTypes
    <3> QED
      BY <2>1, <2>2, <2>3, <3>1, <3>2, SameTable
  <2>5. CASE Found(l) # NoLink
    <3>1. conns' = [conns EXCEPT ![Handle[l]] = NoLink] /\ closed' = closed \cup {Found(l)}
      BY <1>6, <2>5 DEF Delete
    <3>2. Found(l) \in Links /\ Handle[Found(l)] = Handle[l] /\ Found(l) = conns[Handle[l]]
      BY <1>1, <1>2, <2>5 DEF HostTypes, TableInv, Found
    <3>3. HostTypes'
      BY <1>1, <1>2, <2>1, <2>3, <3>1, <3>2 DEF HostTypes
    <3>4. \A h \in Handles : conns'[h] = IF h = Handle[l] THEN NoLink ELSE conns[h]
      BY <1>1, <3>1 DEF HostTypes
    <3>5. \A h \in Handles : conns'[h] \notin closed'
      <4>1. NoLink \notin closed'
        BY <1>1, <3>1, <3>2, HostAssumption DEF HostTypes
      <4>2. \A h \in Handles : h # Handle[l] => conns[h] # Found(l)
        BY <1>1, <2>5, <3>2 DEF TableInv
      <4> QED
        BY <1>1, <3>1, <3>4, <4>1, <4>2 DEF TableInv
    <3>6. \A m \in Links : Unborn(m)' => m \notin closed' /\ \A h \in Handles : conns'[h] # m
      <4>1. ~ Unborn(Found(l))
        BY <1>1, <1>2, <3>2 DEF TableInv
      <4> QED
        BY <1>1, <2>3, <3>1, <3>2, <3>4, <4>1, HostAssumption DEF TableInv
    <3>7. TableInv'
      BY <1>1, <2>1, <2>2, <3>4, <3>5, <3>6 DEF TableInv
    <3> QED
      BY <2>3, <3>3, <3>7 DEF HostInv
  <2> QED
    BY <2>4, <2>5
<1> QED
  BY <1>3, <1>4, <1>5, <1>6 DEF LinkStep

\* The application.
LEMMA AppKeeps ==
  HostInv /\ (AppStep \/ Advertise \/ StopAdvertising \/ Connect \/ \E l \in Links : CancelConnection(l))
    => HostInv'
<1> SUFFICES ASSUME HostInv, AppStep \/ Advertise \/ StopAdvertising \/ Connect
                               \/ \E l \in Links : CancelConnection(l)
             PROVE  HostInv'
  OBVIOUS
<1>1. HostTypes /\ OneConnection /\ TableInv
  BY DEF HostInv
<1>2. /\ App \in Tasks /\ \A l \in Links : App # <<"conn", l>>
      /\ \A l \in Links : <<"close", l>> \in Tasks /\ \A m \in Links : <<"close", l>> # <<"conn", m>>
  BY NotMain, ConnTask DEF App, Kinds
<1>3. UNCHANGED <<links, stream, conns, closed, mpc, mlink, mconn, connsMutex>>
  BY DEF AppStep, Advertise, StopAdvertising, Connect, StartApp, CancelConnection, SetFlag,
         SendCommand, Restore, main, ctrl
<1>4. ASSUME NEW t \in Tasks, \A l \in Links : t # <<"conn", l>>, NEW q \in Seq(Steps),
             todo' = [todo EXCEPT ![t] = q], UNCHANGED <<waiting, cmds>>, t \notin waiting
      PROVE  HostInv'
  <2>1. /\ OneConnection' /\ (\A m \in Links : Unborn(m)' => Unborn(m))
        /\ todo' \in [Tasks -> Seq(Steps)] /\ \A s \in Tasks : s # t => todo'[s] = todo[s]
    BY <1>3, <1>4, OthersMove
  <2>2. HostTypes'
    BY <1>1, <1>3, <1>4, <2>1 DEF HostTypes
  <2> QED
    BY <1>3, <2>1, <2>2, SameTable
<1>5. ASSUME NEW q \in Seq(Steps), StartApp(q) PROVE HostInv'
  <2>1. todo' = [todo EXCEPT ![App] = q] /\ UNCHANGED <<waiting, cmds>> /\ App \notin waiting
    BY <1>1, <1>5 DEF StartApp, ctrl, HostTypes
  <2> QED
    BY <1>2, <1>4, <2>1
<1>6. CASE Advertise
  <2>1. <<"setOff", "param", "restore", "flagOn", "setOn">> \in Seq(Steps)
    BY DEF Steps
  <2> QED
    BY <1>5, <1>6, <2>1 DEF Advertise
<1>7. CASE StopAdvertising
  <2>1. <<"flagOff", "setOff">> \in Seq(Steps)
    BY DEF Steps
  <2> QED
    BY <1>5, <1>7, <2>1 DEF StopAdvertising
<1>8. CASE Connect
  <2>1. <<"connect">> \in Seq(Steps)
    BY DEF Steps
  <2> QED
    BY <1>5, <1>8, <2>1 DEF Connect
<1>9. ASSUME NEW l \in Links, CancelConnection(l) PROVE HostInv'
  <2>1. <<"close">> \in Seq(Steps)
    BY DEF Steps
  <2>2. todo' = [todo EXCEPT ![<<"close", l>>] = <<"close">>] /\ UNCHANGED <<waiting, cmds>>
        /\ <<"close", l>> \notin waiting
    BY <1>1, <1>9 DEF CancelConnection, ctrl, HostTypes
  <2> QED
    BY <1>2, <1>4, <2>1, <2>2
<1>10. CASE SetFlag \/ Restore
  <2>1. todo[App] # <<>> /\ App \notin waiting /\ UNCHANGED <<waiting, cmds>> /\ todo[App] \in Seq(Steps)
    BY <1>1, <1>2, <1>10 DEF SetFlag, Restore, At, ctrl, HostTypes
  <2>2. Tail(todo[App]) \in Seq(Steps) /\ <<"setOn">> \o Tail(todo[App]) \in Seq(Steps)
    BY <2>1 DEF Steps
  <2>3. todo' = [todo EXCEPT ![App] = Tail(todo[App])]
          \/ todo' = [todo EXCEPT ![App] = <<"setOn">> \o Tail(todo[App])]
    BY <1>10 DEF SetFlag, Restore, Advance
  <2> QED
    BY <1>2, <1>4, <2>1, <2>2, <2>3
<1>11. CASE SendCommand
  <2>1. todo[App] # <<>> /\ Head(todo[App]) \in Ops /\ Send(App, Head(todo[App])) /\ UNCHANGED todo
    BY <1>11 DEF SendCommand, At, Ops
  <2>2. cmds' \in Seq([t : Tasks, op : Ops]) /\ waiting' = waiting \cup {App}
    BY <1>1, <1>2, <2>1, SendTypes
  <2>3. HostTypes'
    BY <1>1, <1>2, <1>3, <2>1, <2>2 DEF HostTypes
  <2>4. OneConnection' /\ \A m \in Links : Unborn(m)' => Unborn(m)
    BY <1>1, <1>3, <2>1 DEF OneConnection, Unborn, InStream, ToInsert
  <2> QED
    BY <1>3, <2>3, <2>4, SameTable
<1> QED
  BY <1>6, <1>7, <1>8, <1>9, <1>10, <1>11 DEF AppStep

\* The controller and the peers.
LEMMA ControllerKeeps ==
  HostInv /\ (Exec \/ \E l \in Links : LinkUp(l) \/ PeerData(l) \/ LtkRequest(l) \/ LinkDown(l)) => HostInv'
<1> SUFFICES ASSUME HostInv, Exec \/ \E l \in Links : LinkUp(l) \/ PeerData(l) \/ LtkRequest(l) \/ LinkDown(l)
             PROVE  HostInv'
  OBVIOUS
<1>1. HostTypes /\ OneConnection /\ TableInv
  BY DEF HostInv
<1>2. UNCHANGED <<todo, waiting, conns, closed, mpc, mlink, mconn, connsMutex>>
  BY DEF Exec, LinkUp, PeerData, LtkRequest, LinkDown, host, main
<1>3. ASSUME NEW q \in Seq(Packets), stream' = stream \o q, \A i \in DOMAIN q : q[i].k # "conn",
             links' \in [Links -> {"none", "up", "down"}], cmds' \in Seq([t : Tasks, op : Ops]),
             \A l \in Links : links'[l] = "none" => links[l] = "none"
      PROVE  HostInv'
  <2>1. OneConnection' /\ (\A l \in Links : Unborn(l)' => Unborn(l)) /\ stream' \in Seq(Packets)
    BY <1>2, <1>3, StreamOnly
  <2>2. HostTypes'
    BY <1>1, <1>2, <1>3, <2>1 DEF HostTypes
  <2> QED
    BY <1>2, <2>1, <2>2, SameTable
<1>4. ASSUME NEW l \in Links, PeerData(l) \/ LtkRequest(l) \/ LinkDown(l) PROVE HostInv'
  <2>1. PICK k \in {"acl", "ltk", "disc"} : stream' = Append(stream, [k |-> k, l |-> l])
    BY <1>4 DEF PeerData, LtkRequest, LinkDown
  <2> DEFINE q == <<[k |-> k, l |-> l]>>
  <2>2. [k |-> k, l |-> l] \in Packets
    BY DEF Packets
  <2>3. q \in Seq(Packets) /\ (\A i \in DOMAIN q : q[i].k # "conn") /\ stream' = stream \o q
    BY <1>1, <2>1, <2>2, AppendIs DEF HostTypes
  <2>4. /\ links' \in [Links -> {"none", "up", "down"}] /\ cmds' \in Seq([t : Tasks, op : Ops])
        /\ \A m \in Links : links'[m] = "none" => links[m] = "none"
    BY <1>1, <1>4 DEF PeerData, LtkRequest, LinkDown, HostTypes
  <2> HIDE DEF q
  <2> QED
    BY <1>3, <2>3, <2>4
<1>5. CASE Exec
  <2> DEFINE c == Head(cmds)
             reply == [k |-> "reply", t |-> c.t]
  <2>1. c \in [t : Tasks, op : Ops] /\ cmds' \in Seq([t : Tasks, op : Ops])
    <3>1. cmds # <<>> /\ cmds' = Tail(cmds)
      BY <1>5 DEF Exec
    <3> QED
      BY <1>1, <3>1, HeadTail DEF HostTypes
  <2>2. reply \in Packets
    BY <2>1 DEF Packets
  <2>3. /\ links' \in [Links -> {"none", "up", "down"}]
        /\ \A m \in Links : links'[m] = "none" => links[m] = "none"
    BY <1>1, <1>5 DEF Exec, HostTypes
  <2>4. \/ stream' = Append(stream, reply)
        \/ \E l \in Links : stream' = stream \o <<reply, [k |-> "disc", l |-> l]>>
    BY <1>5 DEF Exec
  <2>5. CASE stream' = Append(stream, reply)
    <3> DEFINE q == <<reply>>
    <3>1. q \in Seq(Packets) /\ (\A i \in DOMAIN q : q[i].k # "conn") /\ stream' = stream \o q
      BY <1>1, <2>2, <2>5, AppendIs DEF HostTypes
    <3> HIDE DEF q
    <3> QED
      BY <1>3, <2>1, <2>3, <3>1
  <2>6. ASSUME NEW l \in Links, stream' = stream \o <<reply, [k |-> "disc", l |-> l]>> PROVE HostInv'
    <3> DEFINE q == <<reply, [k |-> "disc", l |-> l]>>
    <3>1. [k |-> "disc", l |-> l] \in Packets
      BY DEF Packets
    <3>2. q \in Seq(Packets) /\ (\A i \in DOMAIN q : q[i].k # "conn") /\ stream' = stream \o q
      BY <1>1, <2>2, <2>6, <3>1 DEF HostTypes
    <3> HIDE DEF q
    <3> QED
      BY <1>3, <2>1, <2>3, <3>2
  <2> QED
    BY <2>4, <2>5, <2>6
<1>6. ASSUME NEW l \in Links, LinkUp(l) PROVE HostInv'
  <2> DEFINE p == [k |-> "conn", l |-> l]
  <2>1. links[l] = "none" /\ links' = [links EXCEPT ![l] = "up"] /\ stream' = Append(stream, p)
        /\ cmds' = cmds
    BY <1>6 DEF LinkUp
  <2>2. p \in Packets /\ stream' \in Seq(Packets)
    <3>1. p \in Packets
      BY DEF Packets
    <3> QED
      BY <1>1, <2>1, <3>1 DEF HostTypes
  <2>3. /\ \A i \in DOMAIN stream' : \/ i \in DOMAIN stream /\ stream'[i] = stream[i]
                                     \/ i = Len(stream) + 1 /\ stream'[i] = p
        /\ \A i \in DOMAIN stream : i \in DOMAIN stream' /\ stream'[i] = stream[i]
    BY <1>1, <2>1, <2>2, AppendIs DEF HostTypes
  <2>4. ~ InStream("conn", l) /\ todo[<<"conn", l>>] = <<>> /\ Unborn(l)
    BY <1>1, <2>1 DEF OneConnection, Unborn
  <2>5. \A m \in Links : InStream("conn", m)' => InStream("conn", m) \/ m = l
    BY <2>3 DEF InStream
  <2>6. links' \in [Links -> {"none", "up", "down"}] /\ links'[l] = "up"
        /\ \A m \in Links : m # l => links'[m] = links[m]
    BY <1>1, <2>1 DEF HostTypes
  <2>7. HostTypes'
    BY <1>1, <1>2, <2>1, <2>2, <2>6 DEF HostTypes
  <2>8. \A i, j \in DOMAIN stream' :
          stream'[i].k = "conn" /\ stream'[j].k = "conn" /\ stream'[i].l = stream'[j].l => i = j
    BY <1>1, <2>3, <2>4 DEF OneConnection, InStream
  <2>9. OneConnection'
    BY <1>1, <1>2, <2>4, <2>5, <2>6, <2>8 DEF OneConnection
  <2>10. \A m \in Links : Unborn(m)' => Unborn(m)
    BY <1>2, <2>4, <2>5, <2>6 DEF Unborn, ToInsert
  <2> QED
    BY <1>2, <2>7, <2>9, <2>10, SameTable
<1> QED
  BY <1>4, <1>5, <1>6

\* Every step keeps HostInv.
LEMMA HostStep == HostInv /\ [Next]_vars => HostInv'
<1> SUFFICES ASSUME HostInv, [Next]_vars PROVE HostInv'
  OBVIOUS
<1>1. CASE UNCHANGED vars
  BY <1>1 DEF HostInv, HostTypes, OneConnection, TableInv, Unborn, ToInsert, InStream,
              vars, host, main, ctrl
<1> QED
  BY <1>1, MainKeeps, TaskKeeps, LinkKeeps, AppKeeps, ControllerKeeps DEF Next
-----------------------------------------------------------------------------
\* The channel aclCh of a connection is closed at most once, and mainLoop never
\* sends on one that is closed, in whatever order connection, disconnection and
\* data are handled and however handles are reused: handleL2CAP,
\* handleConnection, handleDisconnectionComplete.
THEOREM NoPanic == Spec => []NoPanicOnAclCh
<1>1. HostInv => NoPanicOnAclCh
  BY DEF HostInv, TableInv, NoPanicOnAclCh
<1> QED
  BY <1>1, HostInit, HostStep, PTL DEF Spec
-----------------------------------------------------------------------------
\* handleDisconnectionComplete of link l has yet to delete its connection.
ToDelete(l) == todo[<<"disc", l>>] # <<>> /\ Head(todo[<<"disc", l>>]) = "delete"

\* Link l, or what the host knows of it, is not over.
Alive(l) == links[l] = "up" \/ InStream("disc", l) \/ ToDelete(l)

\* Each link has one handleDisconnectionComplete, as it has one handleConnection.
OneEnd ==
  /\ \A i, j \in DOMAIN stream :
       stream[i].k = "disc" /\ stream[j].k = "disc" /\ stream[i].l = stream[j].l => i = j
  /\ \A l \in Links : links[l] # "down" => ~ InStream("disc", l) /\ todo[<<"disc", l>>] = <<>>
  /\ \A l \in Links : InStream("disc", l) => todo[<<"disc", l>>] = <<>>
  /\ \A l \in Links : \A i \in DOMAIN todo[<<"disc", l>>] :
       todo[<<"disc", l>>][i] = "delete" => i = 1

\* A command is answered once, to the task that waits for it; no task waits
\* where it takes connsMutex to change the table.
ReplyInv ==
  /\ answered \subseteq waiting
  /\ \A t \in waiting : Head(todo[t]) \notin {"insert", "delete"}
  /\ \A i \in DOMAIN cmds : cmds[i].t \in waiting \ answered
  /\ \A i, j \in DOMAIN cmds : cmds[i].t = cmds[j].t => i = j
  /\ \A i \in DOMAIN stream : stream[i].k = "reply" => stream[i].t \in waiting \ answered
  /\ \A i, j \in DOMAIN stream :
       stream[i].k = "reply" /\ stream[j].k = "reply" /\ stream[i].t = stream[j].t => i = j
  /\ \A i \in DOMAIN cmds : \A j \in DOMAIN stream : stream[j].k = "reply" => stream[j].t # cmds[i].t

\* What mainLoop carries, or will, to the connection of l.
Carried(l) == InStream("acl", l) \/ (mpc # "read" /\ mlink = l)

\* Data comes after the connection is made and before the end of its link.
DataInv ==
  /\ \A i, j \in DOMAIN stream :
       stream[i].k = "acl" /\ stream[j].k = "disc" /\ stream[i].l = stream[j].l => i < j
  /\ \A l \in Links : Carried(l) => ~ Unborn(l) /\ (links[l] = "up" \/ InStream("disc", l))

\* The table has the connection of every link that is not over, and no other;
\* no two of them share a handle.
LiveInv ==
  /\ \A l \in Links : Alive(l) /\ ~ Unborn(l) => Found(l) = l
  /\ \A l \in Links : links[l] = "down" => ~ Unborn(l)
  /\ \A h \in Handles : \A l \in Links : conns[h] = l => Alive(l)
  /\ \A l, m \in Links : Alive(l) /\ Alive(m) /\ Handle[l] = Handle[m] => l = m

\* A Disconnect is executed while its sender keeps the table as it found it.
HoldInv ==
  \A i \in DOMAIN cmds : cmds[i].op = "disconnect" =>
    /\ cmds[i].t[2] \in Links
    /\ connsMutex = cmds[i].t /\ Found(cmds[i].t[2]) # NoLink

\* What is in a connection, or is about to be, came on its link.
ArrivalInv ==
  /\ data \in [Links -> Seq(Links)]
  /\ mpc = "send" => mconn = mlink
  /\ OwnData
  /\ NothingDropped

PromptInv == OneEnd /\ ReplyInv /\ DataInv /\ LiveInv /\ HoldInv /\ ArrivalInv
-----------------------------------------------------------------------------
\* No task begins to insert or to delete, and none is done with it.
CalmTasks ==
  /\ \A l \in Links : (ToInsert(l)' <=> ToInsert(l)) /\ (ToDelete(l)' <=> ToDelete(l))
  /\ \A l \in Links : todo[<<"disc", l>>] = <<>> => todo'[<<"disc", l>>] = <<>>
  /\ \A l \in Links : \A i \in DOMAIN todo'[<<"disc", l>>] :
       todo'[<<"disc", l>>][i] = "delete" => i = 1

\* The first packet of the stream, and the others.
LEMMA StreamRead ==
  ASSUME stream \in Seq(Packets), stream # <<>>, stream' = Tail(stream)
  PROVE  /\ \A k : \A l \in Links : InStream(k, l)' => InStream(k, l)
         /\ \A k : \A l \in Links :
              InStream(k, l) => InStream(k, l)' \/ (Head(stream).k = k /\ Head(stream).l = l)
         /\ \A i \in DOMAIN stream' : i \in Nat /\ i + 1 \in DOMAIN stream /\ i + 1 # 1 /\ stream'[i] = stream[i + 1]
         /\ stream[1] = Head(stream) /\ 1 \in DOMAIN stream
<1>1. /\ \A i \in DOMAIN stream' : i \in Nat /\ i + 1 \in DOMAIN stream /\ i + 1 # 1 /\ stream'[i] = stream[i + 1]
      /\ stream[1] = Head(stream) /\ 1 \in DOMAIN stream
  OBVIOUS
<1>2. \A i \in DOMAIN stream : i = 1 \/ (i - 1 \in DOMAIN stream' /\ stream'[i - 1] = stream[i])
  OBVIOUS
<1>3. \A k : \A l \in Links : InStream(k, l)' => InStream(k, l)
  BY <1>1 DEF InStream
<1>4. \A k : \A l \in Links :
        InStream(k, l) => InStream(k, l)' \/ (Head(stream).k = k /\ Head(stream).l = l)
  BY <1>1, <1>2 DEF InStream
<1> QED
  BY <1>1, <1>3, <1>4

\* Packets at the end of the stream.
LEMMA StreamAdd ==
  ASSUME stream \in Seq(Packets), NEW q \in Seq(Packets), stream' = stream \o q
  PROVE  /\ \A k : \A l \in Links : InStream(k, l) => InStream(k, l)'
         /\ \A k : \A l \in Links :
              InStream(k, l)' => InStream(k, l) \/ \E i \in DOMAIN q : q[i].k = k /\ q[i].l = l
         /\ \A k : \A l \in Links : \A i \in DOMAIN q : q[i].k = k /\ q[i].l = l => InStream(k, l)'
         /\ \A i \in DOMAIN stream' :
              \/ i \in DOMAIN stream /\ stream'[i] = stream[i]
              \/ /\ i - Len(stream) \in DOMAIN q /\ stream'[i] = q[i - Len(stream)]
                 /\ \A j \in DOMAIN stream : j < i
         /\ \A i \in DOMAIN stream : i \in DOMAIN stream' /\ stream'[i] = stream[i]
<1>1. \A i \in DOMAIN stream' :
        \/ i \in DOMAIN stream /\ stream'[i] = stream[i]
        \/ /\ i - Len(stream) \in DOMAIN q /\ stream'[i] = q[i - Len(stream)]
           /\ \A j \in DOMAIN stream : j < i
  OBVIOUS
<1>2. \A i \in DOMAIN stream : i \in DOMAIN stream' /\ stream'[i] = stream[i]
  OBVIOUS
<1>3. \A i \in DOMAIN q : i + Len(stream) \in DOMAIN stream' /\ stream'[i + Len(stream)] = q[i]
  OBVIOUS
<1>4. \A k : \A l \in Links : InStream(k, l) => InStream(k, l)'
  BY <1>2 DEF InStream
<1>5. \A k : \A l \in Links :
        InStream(k, l)' => InStream(k, l) \/ \E i \in DOMAIN q : q[i].k = k /\ q[i].l = l
  BY <1>1 DEF InStream
<1>6. \A k : \A l \in Links : \A i \in DOMAIN q : q[i].k = k /\ q[i].l = l => InStream(k, l)'
  BY <1>3 DEF InStream
<1> QED
  BY <1>1, <1>2, <1>4, <1>5, <1>6

\* The tasks are pairs.
LEMMA TaskPairs ==
  /\ \A l \in Links : \A k \in Kinds : <<k, l>> \in Tasks
  /\ \A k \in Kinds, j \in Kinds : \A l \in Links, m \in Links : <<k, l>> = <<j, m>> <=> k = j /\ l = m
  /\ App \in Tasks /\ \A k \in Kinds : \A l \in Links : App # <<k, l>>
  /\ {"conn", "disc", "ltk", "close"} \subseteq Kinds
BY HostAssumption DEF Tasks, Kinds, App

\* A task is given steps that neither insert nor delete, when it is not about to.
LEMMA GivenSteps ==
  ASSUME HostTypes, OneEnd, NEW t \in Tasks, NEW q \in Seq(Steps),
         todo' = [todo EXCEPT ![t] = q],
         todo[t] = <<>> \/ Head(todo[t]) \notin {"insert", "delete"},
         \A l \in Links : t = <<"disc", l>> => todo[t] # <<>>,
         \A l \in Links : \A i \in DOMAIN q : /\ t = <<"conn", l>> => q[i] # "insert"
                                              /\ t = <<"disc", l>> => q[i] # "delete"
  PROVE  CalmTasks
<1>1. todo'[t] = q /\ \A s \in Tasks : s # t => todo'[s] = todo[s]
  BY DEF HostTypes
<1>2. \A l \in Links : <<"conn", l>> \in Tasks /\ <<"disc", l>> \in Tasks
  BY TaskPairs
<1>3. q # <<>> => 1 \in DOMAIN q /\ Head(q) = q[1]
  OBVIOUS
<1>4. \A l \in Links : t = <<"conn", l>> => ~ ToInsert(l) /\ ~ ToInsert(l)'
  BY <1>1, <1>3 DEF ToInsert
<1>5. \A l \in Links : t = <<"disc", l>> => ~ ToDelete(l) /\ ~ ToDelete(l)'
  BY <1>1, <1>3 DEF ToDelete
<1>6. \A l \in Links : t # <<"conn", l>> => (ToInsert(l)' <=> ToInsert(l))
  BY <1>1, <1>2 DEF ToInsert
<1>7. \A l \in Links : t # <<"disc", l>> => (ToDelete(l)' <=> ToDelete(l))
  BY <1>1, <1>2 DEF ToDelete
<1>8. \A l \in Links : todo[<<"disc", l>>] = <<>> => todo'[<<"disc", l>>] = <<>>
  BY <1>1, <1>2
<1>9. \A l \in Links : \A i \in DOMAIN todo'[<<"disc", l>>] :
       todo'[<<"disc", l>>][i] = "delete" => i = 1
  BY <1>1, <1>2 DEF OneEnd
<1> QED
  BY <1>4, <1>5, <1>6, <1>7, <1>8, <1>9 DEF CalmTasks

\* A task takes a step other than to insert or to delete.
LEMMA StepTaken ==
  ASSUME HostTypes, OneConnection, OneEnd, NEW t \in Tasks, todo[t] # <<>>,
         Head(todo[t]) \notin {"insert", "delete"}, Advance(t)
  PROVE  CalmTasks
<1>1. todo[t] \in Seq(Steps)
  BY DEF HostTypes
<1>2. PICK q : q = Tail(todo[t])
  OBVIOUS
<1>3. q \in Seq(Steps) /\ \A i \in DOMAIN q : i + 1 \in DOMAIN todo[t] /\ q[i] = todo[t][i + 1] /\ i + 1 # 1
  BY <1>1, <1>2
<1>4. \A l \in Links : \A i \in DOMAIN q : /\ t = <<"conn", l>> => q[i] # "insert"
                                           /\ t = <<"disc", l>> => q[i] # "delete"
  BY <1>3 DEF OneConnection, OneEnd
<1>5. todo' = [todo EXCEPT ![t] = q]
  BY <1>2 DEF Advance
<1> QED
  BY <1>3, <1>4, <1>5, GivenSteps

\* But for the start of a goroutine, handleConnection and
\* handleDisconnectionComplete, no step changes who is about to change the table.
LEMMA CalmStep ==
  ASSUME HostInv, OneEnd, ReplyInv, [Next]_vars
  PROVE  CalmTasks \/ MainReadEvent \/ \E l \in Links : Insert(l) \/ Delete(l)
<1>1. HostTypes /\ OneConnection
  BY DEF HostInv
<1>2. ASSUME UNCHANGED todo PROVE CalmTasks
  BY <1>2 DEF CalmTasks, ToInsert, ToDelete, OneEnd
<1>3. CASE UNCHANGED vars
  BY <1>2, <1>3 DEF vars, host
<1>4. CASE MainStep
  BY <1>2, <1>4 DEF MainStep, MainReadReply, MainReadAcl, MainLock, MainSend, host
<1>5. ASSUME NEW t \in Tasks, TaskStep(t) PROVE CalmTasks
  <2>1. CASE Return(t)
    <3>1. t \in waiting /\ Advance(t)
      BY <2>1 DEF Return
    <3>2. todo[t] # <<>> /\ Head(todo[t]) \notin {"insert", "delete"}
      BY <1>1, <3>1 DEF HostTypes, ReplyInv
    <3> QED
      BY <1>1, <3>1, <3>2, StepTaken
  <2>2. CASE setAdvertiseEnable(t)
    <3>1. todo[t] # <<>> /\ Head(todo[t]) \notin {"insert", "delete"} /\ (Advance(t) \/ UNCHANGED todo)
      BY <2>2 DEF setAdvertiseEnable, At
    <3> QED
      BY <1>1, <1>2, <3>1, StepTaken
  <2> QED
    BY <1>5, <2>1, <2>2 DEF TaskStep
<1>6. ASSUME NEW l \in Links, Accept(l) PROVE CalmTasks
  <2>1. PICK t : t = <<"conn", l>>
    OBVIOUS
  <2>2. PICK q \in {<<"serve", "close">>, <<"serve">>, <<>>} : todo' = [todo EXCEPT ![t] = q]
    BY <1>6, <2>1 DEF Accept
  <2>3. q \in Seq(Steps) /\ \A i \in DOMAIN q : q[i] \in {"serve", "close"}
    <3>1. <<"serve", "close">> \in Seq(Steps) /\ <<"serve">> \in Seq(Steps) /\ <<>> \in Seq(Steps)
      BY DEF Steps
    <3>2. \A i \in DOMAIN <<"serve", "close">> : <<"serve", "close">>[i] \in {"serve", "close"}
      OBVIOUS
    <3>3. \A i \in DOMAIN <<"serve">> : <<"serve">>[i] \in {"serve", "close"}
      OBVIOUS
    <3>4. \A i \in DOMAIN <<>> : <<>>[i] \in {"serve", "close"}
      OBVIOUS
    <3> QED
      BY <2>2, <3>1, <3>2, <3>3, <3>4
  <2>4. t \in Tasks /\ \A m \in Links : t # <<"disc", m>>
    BY <2>1, TaskPairs
  <2>5. todo[t] # <<>> /\ Head(todo[t]) = "accept"
    BY <1>6, <2>1 DEF Accept, At
  <2> QED
    BY <1>1, <2>2, <2>3, <2>4, <2>5, GivenSteps
<1>7. ASSUME NEW l \in Links, Serve(l) \/ LtkNegReply(l) \/ Close(l) PROVE CalmTasks
  <2>1. \/ UNCHANGED todo
        \/ \E k \in Kinds : LET t == <<k, l>> IN
             Advance(t) /\ todo[t] # <<>> /\ Head(todo[t]) \in {"serve", "find", "close"}
    BY <1>7 DEF Serve, LtkNegReply, Close, At, Kinds
  <2>2. ASSUME NEW k \in Kinds, Advance(<<k, l>>), todo[<<k, l>>] # <<>>,
               Head(todo[<<k, l>>]) \in {"serve", "find", "close"}
        PROVE  CalmTasks
    <3>1. Head(todo[<<k, l>>]) \notin {"insert", "delete"} /\ <<k, l>> \in Tasks
      BY <2>2, TaskPairs
    <3> QED
      BY <1>1, <2>2, <3>1, StepTaken
  <2> QED
    BY <1>2, <2>1, <2>2
<1>8. CASE \E l \in Links : LinkStep(l)
  BY <1>6, <1>7, <1>8 DEF LinkStep
<1>9. ASSUME NEW q \in Seq(Steps), todo' = [todo EXCEPT ![App] = q],
             todo[App] = <<>> \/ Head(todo[App]) \notin {"insert", "delete"}
      PROVE  CalmTasks
  <2>1. App \in Tasks /\ \A l \in Links : App # <<"conn", l>> /\ App # <<"disc", l>>
    BY TaskPairs
  <2> QED
    BY <1>1, <1>9, <2>1, GivenSteps
<1>10. ASSUME NEW q \in Seq(Steps), StartApp(q) PROVE CalmTasks
  BY <1>9, <1>10 DEF StartApp
<1>11. CASE Advertise \/ StopAdvertising \/ Connect
  <2>1. /\ <<"setOff", "param", "restore", "flagOn", "setOn">> \in Seq(Steps)
        /\ <<"flagOff", "setOff">> \in Seq(Steps) /\ <<"connect">> \in Seq(Steps)
    BY DEF Steps
  <2> QED
    BY <1>10, <1>11, <2>1 DEF Advertise, StopAdvertising, Connect
<1>12. CASE AppStep
  <2>1. todo[App] # <<>> /\ Head(todo[App]) \notin {"insert", "delete"} /\ todo[App] \in Seq(Steps)
    BY <1>1, <1>12, TaskPairs DEF AppStep, SetFlag, SendCommand, Restore, At, HostTypes
  <2>2. Tail(todo[App]) \in Seq(Steps) /\ <<"setOn">> \o Tail(todo[App]) \in Seq(Steps)
    BY <2>1 DEF Steps
  <2>3. \/ UNCHANGED todo
        \/ todo' = [todo EXCEPT ![App] = Tail(todo[App])]
        \/ todo' = [todo EXCEPT ![App] = <<"setOn">> \o Tail(todo[App])]
    BY <1>12 DEF AppStep, SetFlag, SendCommand, Restore, Advance
  <2> QED
    BY <1>2, <1>9, <2>1, <2>2, <2>3
<1>13. ASSUME NEW l \in Links, CancelConnection(l) PROVE CalmTasks
  <2>1. <<"close">> \in Seq(Steps)
    BY DEF Steps
  <2>2. PICK t : t = <<"close", l>>
    OBVIOUS
  <2>3. t \in Tasks /\ \A m \in Links : t # <<"conn", m>> /\ t # <<"disc", m>>
    BY <2>2, TaskPairs
  <2>4. todo[t] = <<>> /\ todo' = [todo EXCEPT ![t] = <<"close">>]
    BY <1>13, <2>2 DEF CancelConnection
  <2> QED
    BY <1>1, <2>1, <2>3, <2>4, GivenSteps
<1>14. CASE Exec \/ \E l \in Links : LinkUp(l) \/ PeerData(l) \/ LtkRequest(l) \/ LinkDown(l)
  BY <1>2, <1>14 DEF Exec, LinkUp, PeerData, LtkRequest, LinkDown, host
<1> QED
  BY <1>3, <1>4, <1>5, <1>8, <1>11, <1>12, <1>13, <1>14 DEF Next
-----------------------------------------------------------------------------
\* No command is sent or answered.
LEMMA ReplySame ==
  ASSUME ReplyInv, UNCHANGED <<waiting, answered, cmds>>,
         \A s \in waiting : todo'[s] = todo[s] \/ Head(todo'[s]) = "find",
         stream' \in Seq(Packets), NEW d \in Nat,
         \A i \in DOMAIN stream' : stream'[i].k = "reply" => i + d \in DOMAIN stream /\ stream'[i] = stream[i + d]
  PROVE  ReplyInv'
<1>1. \A i \in DOMAIN stream' : i \in Nat
  OBVIOUS
<1>2. \A i, j \in DOMAIN stream' :
        stream'[i].k = "reply" /\ stream'[j].k = "reply" /\ stream'[i].t = stream'[j].t => i = j
  <2>1. SUFFICES ASSUME NEW i \in DOMAIN stream', NEW j \in DOMAIN stream',
                        stream'[i].k = "reply", stream'[j].k = "reply", stream'[i].t = stream'[j].t
                 PROVE  i = j
    OBVIOUS
  <2>2. i + d = j + d
    BY <2>1 DEF ReplyInv
  <2> QED
    BY <1>1, <2>2
<1>3. \A t \in waiting' : Head(todo'[t]) \notin {"insert", "delete"}
  BY DEF ReplyInv
<1>4. \A i \in DOMAIN stream' : stream'[i].k = "reply" => stream'[i].t \in waiting' \ answered'
  BY DEF ReplyInv
<1>5. \A i \in DOMAIN cmds' : \A j \in DOMAIN stream' : stream'[j].k = "reply" => stream'[j].t # cmds'[i].t
  BY DEF ReplyInv
<1> QED
  BY <1>2, <1>3, <1>4, <1>5 DEF ReplyInv

\* Task t sends a command.
LEMMA ReplySent ==
  ASSUME HostTypes, ReplyInv, NEW t \in Tasks, t \notin waiting, NEW op \in Ops, Send(t, op),
         UNCHANGED <<todo, answered, stream>>, Head(todo[t]) \notin {"insert", "delete"}
  PROVE  ReplyInv'
<1>1. PICK c : c = [t |-> t, op |-> op]
  OBVIOUS
<1>2. c \in [t : Tasks, op : Ops] /\ c.t = t
  BY <1>1
<1>3. cmds' = Append(cmds, c) /\ waiting' = waiting \cup {t}
  BY <1>1 DEF Send
<1>4. \A i \in DOMAIN cmds' : \/ i \in DOMAIN cmds /\ cmds'[i] = cmds[i]
                              \/ i = Len(cmds) + 1 /\ cmds'[i] = c
  BY <1>2, <1>3, AppendIs DEF HostTypes
<1>5. \A i \in DOMAIN cmds : cmds[i].t # t
  BY DEF ReplyInv
<1>6. \A i, j \in DOMAIN cmds' : cmds'[i].t = cmds'[j].t => i = j
  BY <1>2, <1>4, <1>5 DEF ReplyInv
<1>7. \A i \in DOMAIN cmds' : cmds'[i].t \in waiting' \ answered'
  BY <1>2, <1>3, <1>4 DEF ReplyInv
<1>8. \A i \in DOMAIN cmds' : \A j \in DOMAIN stream' : stream'[j].k = "reply" => stream'[j].t # cmds'[i].t
  BY <1>2, <1>4 DEF ReplyInv
<1> QED
  BY <1>3, <1>6, <1>7, <1>8 DEF ReplyInv

\* Its answer has come, and Send returns.
LEMMA ReplyTaken ==
  ASSUME HostTypes, ReplyInv, NEW t \in Tasks, Return(t)
  PROVE  ReplyInv'
<1>1. t \in waiting /\ t \in answered /\ waiting' = waiting \ {t} /\ answered' = answered \ {t}
      /\ UNCHANGED <<cmds, stream>> /\ todo' = [todo EXCEPT ![t] = Tail(todo[t])]
  BY DEF Return, ctrl, Advance
<1>2. \A s \in waiting' : todo'[s] = todo[s]
  BY <1>1 DEF HostTypes
<1> QED
  BY <1>1, <1>2 DEF ReplyInv

\* mainLoop reads an answer.
LEMMA ReplyRead ==
  ASSUME HostTypes, ReplyInv, MainReadReply
  PROVE  ReplyInv'
<1>1. stream # <<>> /\ stream' = Tail(stream) /\ Head(stream).k = "reply"
      /\ answered' = answered \cup {Head(stream).t} /\ UNCHANGED <<todo, waiting, cmds>>
  BY DEF MainReadReply, ctrl
<1>2. /\ \A i \in DOMAIN stream' : i \in Nat /\ i + 1 \in DOMAIN stream /\ i + 1 # 1 /\ stream'[i] = stream[i + 1]
      /\ stream[1] = Head(stream) /\ 1 \in DOMAIN stream
  BY <1>1, StreamRead DEF HostTypes
<1>3. Head(stream).t \in waiting
  BY <1>1, <1>2 DEF ReplyInv
<1>4. \A i \in DOMAIN cmds : cmds[i].t # Head(stream).t
  BY <1>1, <1>2 DEF ReplyInv
<1>5. \A i \in DOMAIN stream' : stream'[i].k = "reply" => stream'[i].t # Head(stream).t
  BY <1>1, <1>2 DEF ReplyInv
<1>6. \A i, j \in DOMAIN stream' :
        stream'[i].k = "reply" /\ stream'[j].k = "reply" /\ stream'[i].t = stream'[j].t => i = j
  <2>1. SUFFICES ASSUME NEW i \in DOMAIN stream', NEW j \in DOMAIN stream',
                        stream'[i].k = "reply", stream'[j].k = "reply", stream'[i].t = stream'[j].t
                 PROVE  i = j
    OBVIOUS
  <2>2. i + 1 = j + 1
    BY <1>2, <2>1 DEF ReplyInv
  <2> QED
    BY <1>2, <2>2
<1>7. \A i \in DOMAIN stream' : stream'[i].k = "reply" => stream'[i].t \in waiting' \ answered'
  BY <1>1, <1>2, <1>5 DEF ReplyInv
<1>8. \A i \in DOMAIN cmds' : \A j \in DOMAIN stream' : stream'[j].k = "reply" => stream'[j].t # cmds'[i].t
  BY <1>1, <1>2 DEF ReplyInv
<1> QED
  BY <1>1, <1>3, <1>4, <1>6, <1>7, <1>8 DEF ReplyInv

\* What is left of a sequence without its head.
LEMMA TailIs ==
  ASSUME NEW S, NEW s \in Seq(S), s # <<>>
  PROVE  /\ Head(s) = s[1] /\ 1 \in DOMAIN s
         /\ \A i \in DOMAIN Tail(s) : i \in Nat /\ i + 1 \in DOMAIN s /\ i + 1 # 1 /\ Tail(s)[i] = s[i + 1]
OBVIOUS

\* The controller executes command c, answers it with r, and with it adds q to the
\* stream: r alone, or r and the end of a link.
Executed(c, r, q) ==
  /\ cmds # <<>> /\ c = cmds[1] /\ 1 \in DOMAIN cmds
  /\ \A i \in DOMAIN cmds' : i \in Nat /\ i + 1 \in DOMAIN cmds /\ i + 1 # 1 /\ cmds'[i] = cmds[i + 1]
  /\ r.k = "reply" /\ r.t = c.t /\ stream' = stream \o q /\ 1 \in DOMAIN q /\ q[1] = r
  /\ \/ UNCHANGED links /\ \A i \in DOMAIN q : i = 1
     \/ \E l \in Links :
          /\ c.op = "disconnect" /\ links[l] = "up" /\ Handle[l] = Handle[c.t[2]]
          /\ \A i \in DOMAIN q : i \in {1, 2} /\ (i = 2 => q[i].k = "disc" /\ q[i].l = l)
          /\ 2 \in DOMAIN q
          /\ links'[l] = "down"
          /\ \A m \in Links : links'[m] = links[m] \/ (links[m] = "up" /\ Handle[m] = Handle[c.t[2]])
  /\ UNCHANGED <<todo, waiting, answered, connsMutex, conns, mpc, mlink, mconn, data, dropped>>

\* Exec does that.
LEMMA ExecFacts ==
  ASSUME HostTypes, Exec
  PROVE  \E c \in [t : Tasks, op : Ops] : \E r \in Packets : \E q \in Seq(Packets) : Executed(c, r, q)
<1>1. PICK c : c = Head(cmds)
  OBVIOUS
<1>2. cmds # <<>> /\ cmds' = Tail(cmds)
  BY DEF Exec
<1>3. /\ c \in [t : Tasks, op : Ops] /\ c = cmds[1] /\ 1 \in DOMAIN cmds
      /\ \A i \in DOMAIN cmds' : i \in Nat /\ i + 1 \in DOMAIN cmds /\ i + 1 # 1 /\ cmds'[i] = cmds[i + 1]
  <2>1. cmds \in Seq([t : Tasks, op : Ops]) /\ Head(cmds) \in [t : Tasks, op : Ops]
    BY <1>2, HeadTail DEF HostTypes
  <2> QED
    BY <1>1, <1>2, <2>1, TailIs
<1>4. PICK r : r = [k |-> "reply", t |-> c.t]
  OBVIOUS
<1>5. r \in Packets /\ r.k = "reply" /\ r.t = c.t
  BY <1>3, <1>4 DEF Packets
<1>6. PICK ended : ended = {l \in Links : c.op = "disconnect" /\ links[l] = "up" /\ Handle[l] = Handle[c.t[2]]}
  OBVIOUS
<1>7. /\ links' = [l \in Links |-> IF l \in ended THEN "down" ELSE links[l]]
      /\ IF ended = {} THEN stream' = Append(stream, r)
         ELSE \E l \in ended : stream' = stream \o <<r, [k |-> "disc", l |-> l]>>
  BY <1>1, <1>4, <1>6 DEF Exec
<1>8. UNCHANGED <<todo, waiting, answered, connsMutex, conns, mpc, mlink, mconn, data, dropped>>
  BY DEF Exec, host, main
<1>9. CASE ended = {}
  <2>1. links' = links
    BY <1>7, <1>9 DEF HostTypes
  <2>2. PICK q : q = <<r>>
    OBVIOUS
  <2>3. q \in Seq(Packets) /\ stream' = stream \o q /\ 1 \in DOMAIN q /\ q[1] = r /\ \A i \in DOMAIN q : i = 1
    BY <1>5, <1>7, <1>9, <2>2 DEF HostTypes
  <2> QED
    <3>1. Executed(c, r, q)
      BY <1>2, <1>3, <1>5, <1>8, <2>1, <2>3 DEF Executed
    <3> QED
      BY <1>3, <1>5, <2>3, <3>1
<1>10. CASE ended # {}
  <2>1. PICK l \in ended : stream' = stream \o <<r, [k |-> "disc", l |-> l]>>
    BY <1>7, <1>10
  <2>2. l \in Links /\ c.op = "disconnect" /\ links[l] = "up" /\ Handle[l] = Handle[c.t[2]]
    BY <1>6, <2>1
  <2>3. PICK p : p = [k |-> "disc", l |-> l]
    OBVIOUS
  <2>4. p \in Packets /\ p.k = "disc" /\ p.l = l
    BY <2>2, <2>3 DEF Packets
  <2>5. PICK q : q = <<r, p>>
    OBVIOUS
  <2>6. q \in Seq(Packets) /\ stream' = stream \o q /\ 1 \in DOMAIN q /\ q[1] = r /\ 2 \in DOMAIN q /\ q[2] = p
        /\ \A i \in DOMAIN q : i \in {1, 2}
    BY <1>5, <2>1, <2>3, <2>4, <2>5
  <2>7. links'[l] = "down" /\ \A m \in Links : links'[m] = links[m] \/ (links[m] = "up" /\ Handle[m] = Handle[c.t[2]])
    BY <1>6, <1>7, <2>1, <2>2
  <2>8. \A i \in DOMAIN q : i \in {1, 2} /\ (i = 2 => q[i].k = "disc" /\ q[i].l = l)
    BY <2>4, <2>6
  <2>9. Executed(c, r, q)
    BY <1>2, <1>3, <1>5, <1>8, <2>2, <2>6, <2>7, <2>8 DEF Executed
  <2> QED
    BY <1>3, <1>5, <2>6, <2>9
<1> QED
  BY <1>9, <1>10

\* The controller executes a command and answers it.
LEMMA ReplyMade ==
  ASSUME HostTypes, ReplyInv, Exec
  PROVE  ReplyInv'
<1>1. PICK c \in [t : Tasks, op : Ops], r \in Packets, q \in Seq(Packets) : Executed(c, r, q)
  BY ExecFacts
<1>2. /\ c = cmds[1] /\ 1 \in DOMAIN cmds
      /\ \A i \in DOMAIN cmds' : i \in Nat /\ i + 1 \in DOMAIN cmds /\ i + 1 # 1 /\ cmds'[i] = cmds[i + 1]
      /\ r.k = "reply" /\ r.t = c.t /\ stream' = stream \o q
      /\ q[1] = r /\ \A i \in DOMAIN q : i = 1 \/ q[i].k = "disc"
      /\ UNCHANGED <<todo, waiting, answered>>
  BY <1>1 DEF Executed
<1>3. \A i \in DOMAIN stream' : \/ i \in DOMAIN stream /\ stream'[i] = stream[i]
                                \/ i - Len(stream) \in DOMAIN q /\ stream'[i] = q[i - Len(stream)]
  BY <1>2, StreamAdd DEF HostTypes
<1>4. \A i \in DOMAIN stream' : stream'[i].k = "reply" =>
        \/ i \in DOMAIN stream /\ stream'[i] = stream[i]
        \/ i - Len(stream) = 1 /\ stream'[i] = r
  BY <1>2, <1>3
<1>5. \A i \in DOMAIN stream' : i \in Nat
  BY <1>2 DEF HostTypes
<1>6. \A i, j \in DOMAIN stream' : i - Len(stream) = 1 /\ j - Len(stream) = 1 => i = j
  BY <1>5 DEF HostTypes
<1>7. c.t \in waiting \ answered /\ \A j \in DOMAIN stream : stream[j].k = "reply" => stream[j].t # c.t
  BY <1>2 DEF ReplyInv
<1>8. \A i, j \in DOMAIN stream' :
        stream'[i].k = "reply" /\ stream'[j].k = "reply" /\ stream'[i].t = stream'[j].t => i = j
  BY <1>2, <1>4, <1>6, <1>7 DEF ReplyInv
<1>9. \A i \in DOMAIN cmds' : cmds'[i].t # c.t
  BY <1>2 DEF ReplyInv
<1>10. \A i, j \in DOMAIN cmds' : cmds'[i].t = cmds'[j].t => i = j
  <2>1. SUFFICES ASSUME NEW i \in DOMAIN cmds', NEW j \in DOMAIN cmds', cmds'[i].t = cmds'[j].t PROVE i = j
    OBVIOUS
  <2>2. i + 1 = j + 1
    BY <1>2, <2>1 DEF ReplyInv
  <2> QED
    BY <1>2, <2>2
<1>11. \A i \in DOMAIN cmds' : cmds'[i].t \in waiting' \ answered'
  BY <1>2 DEF ReplyInv
<1>12. \A i \in DOMAIN stream' : stream'[i].k = "reply" => stream'[i].t \in waiting' \ answered'
  BY <1>2, <1>4, <1>7 DEF ReplyInv
<1>13. \A i \in DOMAIN cmds' : \A j \in DOMAIN stream' : stream'[j].k = "reply" => stream'[j].t # cmds'[i].t
  BY <1>2, <1>4, <1>9 DEF ReplyInv
<1> QED
  BY <1>2, <1>8, <1>10, <1>11, <1>12, <1>13 DEF ReplyInv

\* mainLoop starts the goroutine of an event.
LEMMA EventRead ==
  ASSUME HostInv, OneEnd, MainReadEvent
  PROVE  \E k \in {"conn", "disc", "ltk"} : \E l \in Links :
           /\ stream # <<>> /\ Head(stream).k = k /\ Head(stream).l = l /\ stream' = Tail(stream)
           /\ k \in {"conn", "disc"} => todo[<<k, l>>] = <<>>
           /\ todo' = [todo EXCEPT ![<<k, l>>] = Program[k]]
           /\ todo'[<<k, l>>] = Program[k] /\ \A s \in Tasks : s # <<k, l>> => todo'[s] = todo[s]
           /\ InStream(k, l)
           /\ mpc = "read"
           /\ UNCHANGED <<waiting, answered, cmds, links, connsMutex, conns, mpc, mlink, mconn, data, dropped>>
<1>1. HostTypes /\ OneConnection
  BY DEF HostInv
<1>2. PICK p : p = Head(stream)
  OBVIOUS
<1>3. /\ stream # <<>> /\ stream' = Tail(stream) /\ p.k \in {"conn", "disc", "ltk"}
      /\ todo' = [todo EXCEPT ![<<p.k, p.l>>] = Program[p.k]] /\ mpc = "read"
      /\ UNCHANGED <<waiting, answered, cmds, links, connsMutex, conns, mpc, mlink, mconn, data, dropped>>
  BY <1>2 DEF MainReadEvent, Program, main, ctrl
<1>4. p \in Packets /\ stream[1] = p /\ 1 \in DOMAIN stream
  <2>1. Head(stream) \in Packets
    BY <1>1, <1>3, HeadTail DEF HostTypes
  <2> QED
    BY <1>1, <1>2, <1>3, <2>1, StreamRead DEF HostTypes
<1>5. p.l \in Links
  BY <1>3, <1>4 DEF Packets
<1>6. InStream(p.k, p.l)
  BY <1>4 DEF InStream
<1>7. p.k \in {"conn", "disc"} => todo[<<p.k, p.l>>] = <<>>
  BY <1>1, <1>5, <1>6 DEF OneConnection, OneEnd
<1>8. <<p.k, p.l>> \in Tasks
  BY <1>3, <1>5, TaskPairs DEF Kinds
<1>9. todo'[<<p.k, p.l>>] = Program[p.k] /\ \A s \in Tasks : s # <<p.k, p.l>> => todo'[s] = todo[s]
  BY <1>1, <1>3, <1>8 DEF HostTypes
<1> QED
  BY <1>2, <1>3, <1>5, <1>6, <1>7, <1>9

\* The heads of the programs.
LEMMA ProgramHeads ==
  /\ Program["conn"] = <<"insert", "setOn", "accept">>
  /\ Program["disc"] = <<"delete", "setOn">> /\ Program["ltk"] = <<"find">>
  /\ \A k \in {"conn", "disc", "ltk"} : Program[k] # <<>>
  /\ Head(Program["conn"]) = "insert" /\ Head(Program["disc"]) = "delete" /\ Head(Program["ltk"]) = "find"
  /\ \A i \in DOMAIN Program["disc"] : Program["disc"][i] = "delete" => i = 1
<1>1. /\ Program["conn"] = <<"insert", "setOn", "accept">>
      /\ Program["disc"] = <<"delete", "setOn">> /\ Program["ltk"] = <<"find">>
  BY DEF Program
<1>2. \A i \in DOMAIN <<"delete", "setOn">> : <<"delete", "setOn">>[i] = "delete" => i = 1
  OBVIOUS
<1> QED
  BY <1>1, <1>2

\* The controller adds a packet of link l to the stream.
Added(k, l, q) ==
  /\ stream' = stream \o q /\ 1 \in DOMAIN q /\ \A i \in DOMAIN q : i = 1 /\ q[i].k = k /\ q[i].l = l
  /\ UNCHANGED <<todo, waiting, answered, cmds, connsMutex, conns, mpc, mlink, mconn, data, dropped>>
  /\ k = "conn" => LinkUp(l)
  /\ k = "acl" => PeerData(l)
  /\ k = "ltk" => LtkRequest(l)
  /\ k = "disc" => LinkDown(l)

\* A link that comes up, a peer that sends and a link that goes down do that.
LEMMA PacketAdded ==
  ASSUME HostTypes, NEW l \in Links, LinkUp(l) \/ PeerData(l) \/ LtkRequest(l) \/ LinkDown(l)
  PROVE  \E k \in {"conn", "acl", "ltk", "disc"} : \E q \in Seq(Packets) : Added(k, l, q)
<1>1. PICK k \in {"conn", "acl", "ltk", "disc"} :
        /\ stream' = Append(stream, [k |-> k, l |-> l])
        /\ k = "conn" => LinkUp(l)
        /\ k = "acl" => PeerData(l)
        /\ k = "ltk" => LtkRequest(l)
        /\ k = "disc" => LinkDown(l)
  <2>1. CASE LinkUp(l)
    BY <2>1 DEF LinkUp
  <2>2. CASE PeerData(l)
    BY <2>2 DEF PeerData
  <2>3. CASE LtkRequest(l)
    BY <2>3 DEF LtkRequest
  <2>4. CASE LinkDown(l)
    BY <2>4 DEF LinkDown
  <2> QED
    BY <2>1, <2>2, <2>3, <2>4
<1>2. UNCHANGED <<todo, waiting, answered, cmds, connsMutex, conns, mpc, mlink, mconn, data, dropped>>
  BY DEF LinkUp, PeerData, LtkRequest, LinkDown, host, main
<1>3. PICK p : p = [k |-> k, l |-> l]
  OBVIOUS
<1>4. p \in Packets /\ p.k = k /\ p.l = l
  BY <1>3 DEF Packets
<1>5. PICK q : q = <<p>>
  OBVIOUS
<1>6. q \in Seq(Packets) /\ stream' = stream \o q /\ 1 \in DOMAIN q /\ \A i \in DOMAIN q : i = 1 /\ q[i] = p
  BY <1>1, <1>3, <1>4, <1>5, AppendIs DEF HostTypes
<1>7. Added(k, l, q)
  BY <1>1, <1>2, <1>4, <1>6 DEF Added
<1> QED
  BY <1>6, <1>7

\* Every step keeps commands, answers and tasks together.
LEMMA ReplyStep ==
  ASSUME HostInv, HostInv', OneEnd, ReplyInv, [Next]_vars
  PROVE  ReplyInv'
<1>1. HostTypes /\ OneConnection /\ stream' \in Seq(Packets)
  BY DEF HostInv, HostTypes
<1>2. ASSUME UNCHANGED <<waiting, answered, cmds, stream>>,
             \A s \in waiting : todo'[s] = todo[s]
      PROVE  ReplyInv'
  <2>1. \A i \in DOMAIN stream' : i + 0 = i
    BY <1>1
  <2> QED
    BY <1>1, <1>2, <2>1, ReplySame
<1>3. ASSUME NEW t \in Tasks, t \notin waiting, NEW q, todo' = [todo EXCEPT ![t] = q],
             UNCHANGED <<waiting, answered, cmds, stream>>
      PROVE  ReplyInv'
  <2>1. \A s \in waiting : todo'[s] = todo[s]
    BY <1>1, <1>3 DEF HostTypes
  <2> QED
    BY <1>2, <1>3, <2>1
<1>4. CASE UNCHANGED vars
  BY <1>2, <1>4 DEF vars, host, ctrl
<1>5. CASE MainReadEvent
  <2>1. PICK k \in {"conn", "disc", "ltk"}, l \in Links :
           /\ stream # <<>> /\ stream' = Tail(stream)
           /\ k \in {"conn", "disc"} => todo[<<k, l>>] = <<>>
           /\ todo'[<<k, l>>] = Program[k] /\ \A s \in Tasks : s # <<k, l>> => todo'[s] = todo[s]
           /\ UNCHANGED <<waiting, answered, cmds>>
    BY <1>5, EventRead
  <2>2. \A s \in waiting : todo'[s] = todo[s] \/ Head(todo'[s]) = "find"
    BY <1>1, <2>1, ProgramHeads DEF HostTypes
  <2>3. \A i \in DOMAIN stream' : i + 1 \in DOMAIN stream /\ stream'[i] = stream[i + 1]
    BY <1>1, <2>1, StreamRead DEF HostTypes
  <2> QED
    BY <1>1, <2>1, <2>2, <2>3, ReplySame
<1>6. CASE MainReadReply
  BY <1>1, <1>6, ReplyRead
<1>7. CASE MainReadAcl
  <2>1. stream # <<>> /\ stream' = Tail(stream) /\ UNCHANGED <<todo, waiting, answered, cmds>>
    BY <1>7 DEF MainReadAcl, host, ctrl
  <2>2. \A i \in DOMAIN stream' : i + 1 \in DOMAIN stream /\ stream'[i] = stream[i + 1]
    BY <1>1, <2>1, StreamRead DEF HostTypes
  <2> QED
    BY <1>1, <2>1, <2>2, ReplySame
<1>8. CASE MainLock \/ MainSend
  BY <1>2, <1>8 DEF MainLock, MainSend, ctrl
<1>9. ASSUME NEW t \in Tasks, TaskStep(t) PROVE ReplyInv'
  <2>1. CASE Return(t)
    BY <1>1, <2>1, ReplyTaken
  <2>2. CASE setAdvertiseEnable(t)
    <3>1. t \notin waiting /\ Head(todo[t]) \in {"setOn", "setOff"} /\ UNCHANGED <<answered, stream>>
      BY <2>2 DEF setAdvertiseEnable, At
    <3>2. \/ Advance(t) /\ UNCHANGED <<waiting, cmds>>
          \/ Send(t, Head(todo[t])) /\ UNCHANGED todo
      BY <2>2 DEF setAdvertiseEnable
    <3>3. Head(todo[t]) \in Ops /\ Head(todo[t]) \notin {"insert", "delete"}
      BY <3>1 DEF Ops
    <3>4. CASE Advance(t) /\ UNCHANGED <<waiting, cmds>>
      BY <1>3, <3>1, <3>4 DEF Advance
    <3>5. CASE Send(t, Head(todo[t])) /\ UNCHANGED todo
      BY <1>1, <3>1, <3>3, <3>5, ReplySent
    <3> QED
      BY <3>2, <3>4, <3>5
  <2> QED
    BY <1>9, <2>1, <2>2 DEF TaskStep
<1>10. ASSUME NEW l \in Links, LinkStep(l) PROVE ReplyInv'
  <2>1. UNCHANGED <<answered, stream>> /\ \A k \in Kinds : <<k, l>> \in Tasks
    BY <1>10, TaskPairs DEF LinkStep, Insert, Accept, Serve, Delete, LtkNegReply, Close
  <2>2. \E k \in Kinds : LET t == <<k, l>> IN
          /\ t \notin waiting /\ Head(todo[t]) \in Steps
          /\ \/ UNCHANGED <<todo, waiting, cmds>>
             \/ UNCHANGED <<waiting, cmds>> /\ \E q : todo' = [todo EXCEPT ![t] = q]
             \/ UNCHANGED todo /\ Head(todo[t]) \in {"find", "close"}
                /\ \E op \in {"ltkneg", "disconnect"} : Send(t, op)
    <3>1. CASE Insert(l)
      BY <3>1 DEF Insert, At, Advance, Kinds, Steps, ctrl
    <3>2. CASE Accept(l)
      BY <3>2 DEF Accept, At, Advance, Kinds, Steps, ctrl
    <3>3. CASE Serve(l)
      BY <3>3 DEF Serve, At, Advance, Kinds, Steps, ctrl
    <3>4. CASE Delete(l)
      BY <3>4 DEF Delete, At, Advance, Kinds, Steps, ctrl
    <3>5. CASE LtkNegReply(l)
      BY <3>5 DEF LtkNegReply, At, Advance, Kinds, Steps
    <3>6. CASE Close(l)
      BY <3>6 DEF Close, At, Advance, Kinds, Steps
    <3> QED
      BY <1>10, <3>1, <3>2, <3>3, <3>4, <3>5, <3>6 DEF LinkStep
  <2>3. PICK t \in Tasks :
          /\ t \notin waiting
          /\ \/ UNCHANGED <<todo, waiting, cmds>>
             \/ UNCHANGED <<waiting, cmds>> /\ \E q : todo' = [todo EXCEPT ![t] = q]
             \/ UNCHANGED todo /\ Head(todo[t]) \in {"find", "close"}
                /\ \E op \in {"ltkneg", "disconnect"} : Send(t, op)
    BY <2>1, <2>2
  <2>4. CASE UNCHANGED <<todo, waiting, cmds>>
    BY <1>2, <2>1, <2>4
  <2>5. ASSUME UNCHANGED <<waiting, cmds>>, NEW q, todo' = [todo EXCEPT ![t] = q] PROVE ReplyInv'
    BY <1>3, <2>1, <2>3, <2>5
  <2>6. ASSUME UNCHANGED todo, Head(todo[t]) \in {"find", "close"}, NEW op \in {"ltkneg", "disconnect"}, Send(t, op)
        PROVE  ReplyInv'
    <3>1. op \in Ops /\ Head(todo[t]) \notin {"insert", "delete"}
      BY <2>6 DEF Ops
    <3> QED
      BY <1>1, <2>1, <2>3, <2>6, <3>1, ReplySent
  <2> QED
    BY <2>3, <2>4, <2>5, <2>6
<1>11. CASE Advertise \/ StopAdvertising \/ Connect \/ SetFlag \/ Restore
  <2>1. PICK q : todo' = [todo EXCEPT ![App] = q]
    BY <1>11 DEF Advertise, StopAdvertising, Connect, StartApp, SetFlag, Restore, Advance
  <2>2. UNCHANGED <<waiting, answered, cmds, stream>> /\ App \notin waiting
    BY <1>1, <1>11 DEF Advertise, StopAdvertising, Connect, StartApp, SetFlag, Restore, At, ctrl, HostTypes
  <2> QED
    BY <1>3, <2>1, <2>2, TaskPairs
<1>12. CASE SendCommand
  <2>1. App \notin waiting /\ Head(todo[App]) \in {"param", "connect"} /\ UNCHANGED <<todo, answered, stream>>
        /\ Send(App, Head(todo[App]))
    BY <1>12 DEF SendCommand, At
  <2>2. Head(todo[App]) \in Ops /\ Head(todo[App]) \notin {"insert", "delete"} /\ App \in Tasks
    BY <2>1, TaskPairs DEF Ops
  <2> QED
    BY <1>1, <2>1, <2>2, ReplySent
<1>13. ASSUME NEW l \in Links, CancelConnection(l) PROVE ReplyInv'
  <2>1. /\ todo' = [todo EXCEPT ![<<"close", l>>] = <<"close">>] /\ <<"close", l>> \in Tasks
        /\ UNCHANGED <<waiting, answered, cmds, stream>> /\ <<"close", l>> \notin waiting
    BY <1>1, <1>13, TaskPairs DEF CancelConnection, ctrl, HostTypes
  <2> QED
    BY <1>3, <2>1
<1>14. ASSUME NEW l \in Links, LinkUp(l) \/ PeerData(l) \/ LtkRequest(l) \/ LinkDown(l) PROVE ReplyInv'
  <2>1. PICK k \in {"conn", "acl", "ltk", "disc"}, q \in Seq(Packets) : Added(k, l, q)
    BY <1>1, <1>14, PacketAdded
  <2>2. \A i \in DOMAIN stream' : \/ i \in DOMAIN stream /\ stream'[i] = stream[i]
                                  \/ i - Len(stream) \in DOMAIN q /\ stream'[i] = q[i - Len(stream)]
    BY <1>1, <2>1, StreamAdd DEF HostTypes, Added
  <2>3. \A i \in DOMAIN stream' : stream'[i].k = "reply" => i \in DOMAIN stream /\ stream'[i] = stream[i] /\ i + 0 = i
    BY <1>1, <2>1, <2>2 DEF Added
  <2>4. UNCHANGED <<todo, waiting, answered, cmds>>
    BY <2>1 DEF Added
  <2> QED
    BY <1>1, <2>3, <2>4, ReplySame
<1>15. CASE Exec
  BY <1>1, <1>15, ReplyMade
<1> QED
  BY <1>4, <1>5, <1>6, <1>7, <1>8, <1>9, <1>10, <1>11, <1>12, <1>13, <1>14, <1>15 DEF Next, MainStep, AppStep
-----------------------------------------------------------------------------
\* Who touches the stream, the links and the table.
LEMMA StreamSteps ==
  ASSUME [Next]_vars
  PROVE  \/ UNCHANGED <<stream, links>>
         \/ MainReadEvent \/ MainReadReply \/ MainReadAcl \/ Exec
         \/ \E l \in Links : LinkUp(l) \/ PeerData(l) \/ LtkRequest(l) \/ LinkDown(l)
<1>1. CASE UNCHANGED vars
  BY <1>1 DEF vars, ctrl
<1>2. CASE MainLock \/ MainSend
  BY <1>2 DEF MainLock, MainSend, ctrl
<1>3. ASSUME NEW t \in Tasks, TaskStep(t) PROVE UNCHANGED <<stream, links>>
  BY <1>3 DEF TaskStep, setAdvertiseEnable, Return, ctrl
<1>4. ASSUME NEW l \in Links, LinkStep(l) \/ CancelConnection(l) PROVE UNCHANGED <<stream, links>>
  BY <1>4 DEF LinkStep, Insert, Accept, Serve, Delete, LtkNegReply, Close, CancelConnection, ctrl
<1>5. CASE AppStep \/ Advertise \/ StopAdvertising \/ Connect
  BY <1>5 DEF AppStep, SetFlag, SendCommand, Restore, Advertise, StopAdvertising, Connect, StartApp, ctrl
<1> QED
  BY <1>1, <1>2, <1>3, <1>4, <1>5 DEF Next, MainStep

\* The table is changed by handleConnection and handleDisconnectionComplete alone.
LEMMA TableSteps ==
  ASSUME [Next]_vars
  PROVE  UNCHANGED conns \/ \E l \in Links : Insert(l) \/ Delete(l)
<1>1. CASE UNCHANGED vars
  BY <1>1 DEF vars, host
<1>2. CASE MainStep
  BY <1>2 DEF MainStep, MainReadEvent, MainReadReply, MainReadAcl, MainLock, MainSend, host
<1>3. ASSUME NEW t \in Tasks, TaskStep(t) PROVE UNCHANGED conns
  BY <1>3 DEF TaskStep, setAdvertiseEnable, Return
<1>4. ASSUME NEW l \in Links, LinkStep(l) \/ CancelConnection(l) PROVE UNCHANGED conns \/ Insert(l) \/ Delete(l)
  BY <1>4 DEF LinkStep, Accept, Serve, LtkNegReply, Close, CancelConnection
<1>5. CASE AppStep \/ Advertise \/ StopAdvertising \/ Connect
  BY <1>5 DEF AppStep, SetFlag, SendCommand, Restore, Advertise, StopAdvertising, Connect, StartApp
<1>6. CASE Exec \/ \E l \in Links : LinkUp(l) \/ PeerData(l) \/ LtkRequest(l) \/ LinkDown(l)
  BY <1>6 DEF Exec, LinkUp, PeerData, LtkRequest, LinkDown, host
<1> QED
  BY <1>1, <1>2, <1>3, <1>4, <1>5, <1>6 DEF Next

\* A step of the tasks that leaves the stream and the links alone.
LEMMA EndCalm ==
  ASSUME OneEnd, CalmTasks, UNCHANGED <<stream, links>>
  PROVE  OneEnd'
BY DEF OneEnd, CalmTasks, InStream

\* mainLoop reads a packet.
LEMMA EndRead ==
  ASSUME HostTypes, OneEnd, stream # <<>>, stream' = Tail(stream), UNCHANGED links,
         \A l \in Links : InStream("disc", l)' \/ links[l] # "down" => todo'[<<"disc", l>>] = <<>>,
         \A l \in Links : \A i \in DOMAIN todo'[<<"disc", l>>] :
           todo'[<<"disc", l>>][i] = "delete" => i = 1
  PROVE  OneEnd'
<1>1. /\ \A l \in Links : InStream("disc", l)' => InStream("disc", l)
      /\ \A i \in DOMAIN stream' : i \in Nat /\ i + 1 \in DOMAIN stream /\ stream'[i] = stream[i + 1]
  BY StreamRead DEF HostTypes
<1>2. \A i, j \in DOMAIN stream' :
        stream'[i].k = "disc" /\ stream'[j].k = "disc" /\ stream'[i].l = stream'[j].l => i = j
  <2>1. SUFFICES ASSUME NEW i \in DOMAIN stream', NEW j \in DOMAIN stream',
                        stream'[i].k = "disc", stream'[j].k = "disc", stream'[i].l = stream'[j].l
                 PROVE  i = j
    OBVIOUS
  <2>2. i + 1 = j + 1
    BY <1>1, <2>1 DEF OneEnd
  <2> QED
    BY <1>1, <2>2
<1> QED
  BY <1>1, <1>2 DEF OneEnd

\* Packets are added, the end of a link l only when it was up.
LEMMA EndAdded ==
  ASSUME HostTypes, OneEnd, NEW q \in Seq(Packets), stream' = stream \o q, UNCHANGED todo,
         \A i, j \in DOMAIN q : q[i].k = "disc" /\ q[j].k = "disc" => i = j,
         \A i \in DOMAIN q : q[i].k = "disc" => q[i].l \in Links /\ links[q[i].l] = "up" /\ links'[q[i].l] = "down",
         \A l \in Links : links'[l] # "down" => links[l] # "down"
  PROVE  OneEnd'
<1>1. stream \in Seq(Packets)
  BY DEF HostTypes
<1>2. /\ \A l \in Links : InStream("disc", l)' => InStream("disc", l) \/ \E i \in DOMAIN q : q[i].k = "disc"
         /\ q[i].l = l
      /\ \A i \in DOMAIN stream' :
           \/ i \in DOMAIN stream /\ stream'[i] = stream[i]
           \/ i - Len(stream) \in DOMAIN q /\ stream'[i] = q[i - Len(stream)]
  <2>1. \A l \in Links : InStream("disc", l)' => InStream("disc", l) \/ \E i \in DOMAIN q : q[i].k = "disc"
        /\ q[i].l = l
    BY <1>1, StreamAdd
  <2>2. \A i \in DOMAIN stream' :
           \/ i \in DOMAIN stream /\ stream'[i] = stream[i]
           \/ i - Len(stream) \in DOMAIN q /\ stream'[i] = q[i - Len(stream)]
    BY <1>1, StreamAdd
  <2> QED
    BY <2>1, <2>2
<1>3. \A i \in DOMAIN q : q[i].k = "disc" => ~ InStream("disc", q[i].l) /\ todo[<<"disc", q[i].l>>] = <<>>
  BY DEF OneEnd
<1>4. \A i, j \in DOMAIN stream' :
        stream'[i].k = "disc" /\ stream'[j].k = "disc" /\ stream'[i].l = stream'[j].l => i = j
  <2>1. SUFFICES ASSUME NEW i \in DOMAIN stream', NEW j \in DOMAIN stream',
                        stream'[i].k = "disc", stream'[j].k = "disc", stream'[i].l = stream'[j].l
                 PROVE  i = j
    OBVIOUS
  <2>2. CASE i \in DOMAIN stream /\ stream'[i] = stream[i] /\ j \in DOMAIN stream /\ stream'[j] = stream[j]
    BY <2>1, <2>2 DEF OneEnd
  <2>3. CASE /\ i - Len(stream) \in DOMAIN q /\ stream'[i] = q[i - Len(stream)]
             /\ j - Len(stream) \in DOMAIN q /\ stream'[j] = q[j - Len(stream)]
    <3>1. i - Len(stream) = j - Len(stream)
      BY <2>1, <2>3
    <3>2. i \in Nat /\ j \in Nat /\ Len(stream) \in Nat
      BY DEF HostTypes
    <3> QED
      BY <3>1, <3>2
  <2>4. CASE /\ i \in DOMAIN stream /\ stream'[i] = stream[i]
             /\ j - Len(stream) \in DOMAIN q /\ stream'[j] = q[j - Len(stream)]
    BY <1>3, <2>1, <2>4 DEF InStream
  <2>5. CASE /\ j \in DOMAIN stream /\ stream'[j] = stream[j]
             /\ i - Len(stream) \in DOMAIN q /\ stream'[i] = q[i - Len(stream)]
    BY <1>3, <2>1, <2>5 DEF InStream
  <2> QED
    BY <1>2, <2>2, <2>3, <2>4, <2>5
<1>5. \A l \in Links : links'[l] # "down" => ~ InStream("disc", l)' /\ todo'[<<"disc", l>>] = <<>>
  <2>1. SUFFICES ASSUME NEW l \in Links, links'[l] # "down"
                 PROVE  ~ InStream("disc", l)' /\ todo'[<<"disc", l>>] = <<>>
    OBVIOUS
  <2>2. links[l] # "down"
    BY <2>1
  <2>3. ~ InStream("disc", l) /\ todo[<<"disc", l>>] = <<>>
    BY <2>2 DEF OneEnd
  <2>4. \A i \in DOMAIN q : ~ (q[i].k = "disc" /\ q[i].l = l)
    BY <2>1
  <2> QED
    BY <1>2, <2>3, <2>4
<1>6. \A l \in Links : InStream("disc", l)' => todo'[<<"disc", l>>] = <<>>
  BY <1>2, <1>3 DEF OneEnd
<1>7. \A l \in Links : \A i \in DOMAIN todo'[<<"disc", l>>] : todo'[<<"disc", l>>][i] = "delete" => i = 1
  BY DEF OneEnd
<1> QED
  BY <1>4, <1>5, <1>6, <1>7 DEF OneEnd

\* Every step keeps the ends of links apart.
LEMMA EndStep ==
  ASSUME HostInv, OneEnd, ReplyInv, [Next]_vars
  PROVE  OneEnd'
<1>1. HostTypes /\ OneConnection
  BY DEF HostInv
<1>2. ASSUME NEW l \in Links, Insert(l) PROVE OneEnd'
  <2>1. UNCHANGED <<stream, links>> /\ todo' = [todo EXCEPT ![<<"conn", l>>] = Tail(todo[<<"conn", l>>])]
    BY <1>2 DEF Insert, ctrl, Advance
  <2>2. \A m \in Links : todo'[<<"disc", m>>] = todo[<<"disc", m>>]
    BY <1>1, <2>1, TaskPairs DEF HostTypes
  <2> QED
    BY <2>1, <2>2 DEF OneEnd, InStream
<1>3. ASSUME NEW l \in Links, Delete(l) PROVE OneEnd'
  <2>1. PICK t : t = <<"disc", l>>
    OBVIOUS
  <2>2. UNCHANGED <<stream, links>> /\ todo[t] # <<>>
        /\ \E q \in {Tail(todo[t]), <<>>} : todo' = [todo EXCEPT ![t] = q]
    BY <1>3, <2>1 DEF Delete, ctrl, Advance, At
  <2>3. t \in Tasks /\ todo[t] \in Seq(Steps) /\ \A m \in Links : m # l => <<"disc", m>> # t
        /\ <<"disc", m>> \in Tasks
    BY <1>1, <2>1, TaskPairs DEF HostTypes
  <2>4. \A i \in DOMAIN Tail(todo[t]) : i + 1 \in DOMAIN todo[t] /\ Tail(todo[t])[i] = todo[t][i + 1] /\ i + 1 # 1
    BY <2>2, <2>3
  <2>5. \A i \in DOMAIN Tail(todo[t]) : Tail(todo[t])[i] # "delete"
    BY <2>1, <2>4 DEF OneEnd
  <2>6. PICK q : todo' = [todo EXCEPT ![t] = q] /\ \A i \in DOMAIN q : q[i] # "delete"
    <3>1. \A i \in DOMAIN <<>> : <<>>[i] # "delete"
      OBVIOUS
    <3>2. PICK q \in {Tail(todo[t]), <<>>} : todo' = [todo EXCEPT ![t] = q]
      BY <2>2
    <3>3. \A i \in DOMAIN q : q[i] # "delete"
      BY <2>5, <3>1, <3>2
    <3> QED
      BY <3>2, <3>3
  <2>7. todo'[t] = q /\ \A m \in Links : m # l => todo'[<<"disc", m>>] = todo[<<"disc", m>>]
    BY <1>1, <2>3, <2>6 DEF HostTypes
  <2>8. links[l] = "down" /\ ~ InStream("disc", l)
    BY <2>1, <2>2 DEF OneEnd
  <2> QED
    BY <2>1, <2>2, <2>6, <2>7, <2>8 DEF OneEnd, InStream
<1>4. CASE MainReadEvent
  <2>1. PICK k \in {"conn", "disc", "ltk"}, l \in Links :
           /\ stream # <<>> /\ Head(stream).k = k /\ Head(stream).l = l /\ stream' = Tail(stream)
           /\ todo'[<<k, l>>] = Program[k] /\ \A s \in Tasks : s # <<k, l>> => todo'[s] = todo[s]
           /\ InStream(k, l)
           /\ UNCHANGED links
    BY <1>4, EventRead
  <2>2. /\ \A m \in Links : InStream("disc", m)' => InStream("disc", m)
        /\ \A i \in DOMAIN stream' : i \in Nat /\ i + 1 \in DOMAIN stream /\ i + 1 # 1 /\ stream'[i] = stream[i + 1]
        /\ stream[1] = Head(stream) /\ 1 \in DOMAIN stream
    BY <1>1, <2>1, StreamRead DEF HostTypes
  <2>3. \A m \in Links : (k = "disc" /\ m = l) \/ todo'[<<"disc", m>>] = todo[<<"disc", m>>]
    BY <2>1, TaskPairs
  <2>4. k = "disc" => links[l] = "down" /\ ~ InStream("disc", l)'
    BY <2>1, <2>2 DEF OneEnd, InStream
  <2>5. \A m \in Links : InStream("disc", m)' \/ links[m] # "down" => todo'[<<"disc", m>>] = <<>>
    BY <2>2, <2>3, <2>4 DEF OneEnd
  <2>6. \A m \in Links : \A i \in DOMAIN todo'[<<"disc", m>>] : todo'[<<"disc", m>>][i] = "delete" => i = 1
    BY <2>1, <2>3, ProgramHeads DEF OneEnd
  <2> QED
    BY <1>1, <2>1, <2>5, <2>6, EndRead
<1>5. CASE CalmTasks /\ UNCHANGED <<stream, links>>
  BY <1>5, EndCalm
<1>6. CASE MainReadReply \/ MainReadAcl
  <2>1. stream # <<>> /\ stream' = Tail(stream) /\ UNCHANGED <<todo, links>>
    BY <1>6 DEF MainReadReply, MainReadAcl, host, ctrl
  <2>2. \A l \in Links : InStream("disc", l)' => InStream("disc", l)
    BY <1>1, <2>1, StreamRead DEF HostTypes
  <2>3. /\ \A l \in Links : InStream("disc", l)' \/ links[l] # "down" => todo'[<<"disc", l>>] = <<>>
        /\ \A l \in Links : \A i \in DOMAIN todo'[<<"disc", l>>] : todo'[<<"disc", l>>][i] = "delete" => i = 1
    BY <2>1, <2>2 DEF OneEnd
  <2> QED
    BY <1>1, <2>1, <2>3, EndRead
<1>7. CASE Exec
  <2>1. PICK c \in [t : Tasks, op : Ops], r \in Packets, q \in Seq(Packets) : Executed(c, r, q)
    BY <1>1, <1>7, ExecFacts
  <2>2. /\ r.k = "reply" /\ stream' = stream \o q /\ q[1] = r
        /\ \/ UNCHANGED links /\ \A i \in DOMAIN q : i = 1
           \/ \E l \in Links : /\ links[l] = "up"
                               /\ \A i \in DOMAIN q : i \in {1, 2} /\ (i = 2 => q[i].k = "disc" /\ q[i].l = l)
                               /\ links'[l] = "down"
                               /\ \A m \in Links : links'[m] = links[m]
                                  \/ (links[m] = "up" /\ Handle[m] = Handle[c.t[2]])
        /\ UNCHANGED todo
    BY <2>1 DEF Executed
  <2>3. \A i, j \in DOMAIN q : q[i].k = "disc" /\ q[j].k = "disc" => i = j
    BY <2>2
  <2>4. \A i \in DOMAIN q : q[i].k = "disc" => q[i].l \in Links /\ links[q[i].l] = "up" /\ links'[q[i].l] = "down"
    BY <2>2
  <2>5. \A l \in Links : links'[l] # "down" => links[l] # "down"
    BY <2>2
  <2> QED
    BY <1>1, <2>2, <2>3, <2>4, <2>5, EndAdded
<1>8. ASSUME NEW l \in Links, LinkUp(l) \/ PeerData(l) \/ LtkRequest(l) \/ LinkDown(l) PROVE OneEnd'
  <2>1. PICK k \in {"conn", "acl", "ltk", "disc"}, q \in Seq(Packets) : Added(k, l, q)
    BY <1>1, <1>8, PacketAdded
  <2>2. /\ stream' = stream \o q /\ \A i \in DOMAIN q : i = 1 /\ q[i].k = k /\ q[i].l = l
        /\ UNCHANGED todo
    BY <2>1 DEF Added
  <2>3. \A m \in Links : links'[m] # "down" => links[m] # "down"
    BY <1>1, <1>8 DEF LinkUp, PeerData, LtkRequest, LinkDown, HostTypes
  <2>4. k = "disc" => links[l] = "up" /\ links'[l] = "down"
    <3>1. k = "disc" => LinkDown(l)
      BY <2>1 DEF Added
    <3> QED
      BY <1>1, <3>1 DEF LinkDown, Begun, HostTypes
  <2>5. /\ \A i, j \in DOMAIN q : q[i].k = "disc" /\ q[j].k = "disc" => i = j
        /\ \A i \in DOMAIN q : q[i].k = "disc" => q[i].l \in Links /\ links[q[i].l] = "up" /\ links'[q[i].l] = "down"
    BY <2>2, <2>4
  <2> QED
    BY <1>1, <2>2, <2>3, <2>5, EndAdded
<1> QED
  BY <1>2, <1>3, <1>4, <1>5, <1>6, <1>7, <1>8, CalmStep, StreamSteps
-----------------------------------------------------------------------------
\* Link l is up, or mainLoop has yet to read of its end.
Held(l) == links[l] = "up" \/ InStream("disc", l)

\* What a step may do to the life of link l.
Ages(l) ==
  /\ Unborn(l)' => Unborn(l)
  /\ Unborn(l) => Unborn(l)' \/ Insert(l)
  /\ Alive(l) => Alive(l)' \/ Delete(l)
  /\ Alive(l)' => Alive(l) \/ LinkUp(l)
  /\ links'[l] = "down" => links[l] = "down" \/ ~ Unborn(l)
  /\ Held(l) => Held(l)' \/ (MainReadEvent /\ Head(stream).k = "disc" /\ Head(stream).l = l)

\* Its events and its place in the table stay where they are.
LEMMA AgeSame ==
  ASSUME NEW l \in Links, links'[l] = links[l],
         InStream("conn", l)' <=> InStream("conn", l), InStream("disc", l)' <=> InStream("disc", l),
         ToInsert(l)' <=> ToInsert(l), ToDelete(l)' <=> ToDelete(l)
  PROVE  Ages(l)
BY DEF Ages, Unborn, Alive, Held

\* A waiting task is not about to insert or delete: At adds nothing.
LEMMA NotWaiting ==
  ASSUME ReplyInv, NEW l \in Links
  PROVE  /\ At(<<"conn", l>>, "insert") <=> ToInsert(l)
         /\ At(<<"disc", l>>, "delete") <=> ToDelete(l)
BY DEF ReplyInv, At, ToInsert, ToDelete

\* A link that goes down was in the table.
LEMMA BegunFacts ==
  ASSUME Prompt, ReplyInv, NEW l \in Links, Begun(l)
  PROVE  links[l] = "up" /\ ~ Unborn(l)
BY NotWaiting DEF Begun, Pending, Unborn

\* So was one that a Disconnect ends, which is the only one.
LEMMA EndedFacts ==
  ASSUME HostInv, LiveInv, HoldInv, NEW i \in DOMAIN cmds, cmds[i].op = "disconnect",
         NEW l \in Links, links[l] = "up", Handle[l] = Handle[cmds[i].t[2]]
  PROVE  ~ Unborn(l) /\ l = Found(cmds[i].t[2])
<1>1. PICK m : m = Found(cmds[i].t[2])
  OBVIOUS
<1>2. m # NoLink /\ Handle[cmds[i].t[2]] \in Handles /\ m = conns[Handle[l]] /\ Handle[l] \in Handles
  BY <1>1 DEF HoldInv, Found, Handles
<1>3. m \in Links /\ Handle[m] = Handle[l] /\ Alive(m) /\ ~ Unborn(m)
  BY <1>2 DEF HostInv, HostTypes, TableInv, LiveInv
<1>4. Alive(l)
  BY DEF Alive
<1>5. l = m
  BY <1>3, <1>4 DEF LiveInv
<1> QED
  BY <1>1, <1>3, <1>5

\* Every step ages the links as Ages says.
LEMMA AgeStep ==
  ASSUME Prompt, HostInv, OneEnd, ReplyInv, LiveInv, HoldInv, [Next]_vars, NEW l \in Links
  PROVE  Ages(l)
<1>1. HostTypes /\ OneConnection /\ stream \in Seq(Packets)
  BY DEF HostInv, HostTypes
<1>2. ASSUME NEW m \in Links, Insert(m) PROVE Ages(l)
  <2>1. UNCHANGED <<stream, links>> /\ todo' = [todo EXCEPT ![<<"conn", m>>] = Tail(todo[<<"conn", m>>])]
        /\ ToInsert(m)
    BY <1>2 DEF Insert, ctrl, Advance, At, ToInsert
  <2>2. /\ <<"conn", l>> # <<"conn", m>> => todo'[<<"conn", l>>] = todo[<<"conn", l>>]
        /\ todo'[<<"disc", l>>] = todo[<<"disc", l>>]
    BY <1>1, <2>1, TaskPairs DEF HostTypes
  <2>3. InStream("conn", l)' <=> InStream("conn", l)
    BY <2>1 DEF InStream
  <2>4. InStream("disc", l)' <=> InStream("disc", l)
    BY <2>1 DEF InStream
  <2>5. ToDelete(l)' <=> ToDelete(l)
    BY <2>2 DEF ToDelete
  <2>6. CASE l = m
    BY <1>2, <2>1, <2>3, <2>4, <2>5, <2>6 DEF Ages, Unborn, Alive, Held
  <2>7. CASE l # m
    <3>1. ToInsert(l)' <=> ToInsert(l)
      BY <2>2, <2>7 DEF ToInsert
    <3> QED
      BY <2>1, <2>3, <2>4, <2>5, <3>1, AgeSame
  <2> QED
    BY <2>6, <2>7
<1>3. ASSUME NEW m \in Links, Delete(m) PROVE Ages(l)
  <2>1. UNCHANGED <<stream, links>> /\ ToDelete(m)
        /\ \E q \in {Tail(todo[<<"disc", m>>]), <<>>} : todo' = [todo EXCEPT ![<<"disc", m>>] = q]
    BY <1>3 DEF Delete, ctrl, Advance, At, ToDelete
  <2>2. /\ <<"disc", l>> # <<"disc", m>> => todo'[<<"disc", l>>] = todo[<<"disc", l>>]
        /\ todo'[<<"conn", l>>] = todo[<<"conn", l>>]
    BY <1>1, <2>1, TaskPairs DEF HostTypes
  <2>3. InStream("conn", l)' <=> InStream("conn", l)
    BY <2>1 DEF InStream
  <2>4. InStream("disc", l)' <=> InStream("disc", l)
    BY <2>1 DEF InStream
  <2>5. ToInsert(l)' <=> ToInsert(l)
    BY <2>2 DEF ToInsert
  <2>6. CASE l = m
    BY <1>3, <2>1, <2>3, <2>4, <2>5, <2>6 DEF Ages, Unborn, Alive, Held
  <2>7. CASE l # m
    <3>1. ToDelete(l)' <=> ToDelete(l)
      BY <2>2, <2>7 DEF ToDelete
    <3> QED
      BY <2>1, <2>3, <2>4, <2>5, <3>1, AgeSame
  <2> QED
    BY <2>6, <2>7
<1>4. CASE MainReadEvent
  <2>1. PICK k \in {"conn", "disc", "ltk"}, m \in Links :
           /\ stream # <<>> /\ Head(stream).k = k /\ Head(stream).l = m /\ stream' = Tail(stream)
           /\ todo'[<<k, m>>] = Program[k] /\ \A s \in Tasks : s # <<k, m>> => todo'[s] = todo[s]
           /\ InStream(k, m)
           /\ UNCHANGED links
    BY <1>4, EventRead
  <2>2. /\ InStream("conn", l)' => InStream("conn", l)
        /\ InStream("disc", l)' => InStream("disc", l)
        /\ InStream("conn", l) => InStream("conn", l)' \/ (k = "conn" /\ m = l)
        /\ InStream("disc", l) => InStream("disc", l)' \/ (k = "disc" /\ m = l)
    BY <1>1, <2>1, StreamRead
  <2>3. ToInsert(l)' <=> ToInsert(l) \/ (k = "conn" /\ m = l)
    <3>1. CASE k = "conn" /\ m = l
      BY <2>1, <3>1, ProgramHeads DEF ToInsert
    <3>2. CASE ~ (k = "conn" /\ m = l)
      BY <2>1, <3>2, TaskPairs DEF ToInsert
    <3> QED
      BY <3>1, <3>2
  <2>4. ToDelete(l)' <=> ToDelete(l) \/ (k = "disc" /\ m = l)
    <3>1. CASE k = "disc" /\ m = l
      BY <2>1, <3>1, ProgramHeads DEF ToDelete
    <3>2. CASE ~ (k = "disc" /\ m = l)
      BY <2>1, <3>2, TaskPairs DEF ToDelete
    <3> QED
      BY <3>1, <3>2
  <2> QED
    BY <1>4, <2>1, <2>2, <2>3, <2>4 DEF Ages, Unborn, Alive, Held
<1>5. CASE CalmTasks /\ UNCHANGED <<stream, links>>
  <2>1. InStream("conn", l)' <=> InStream("conn", l)
    BY <1>5 DEF InStream
  <2>2. InStream("disc", l)' <=> InStream("disc", l)
    BY <1>5 DEF InStream
  <2> QED
    BY <1>5, <2>1, <2>2, AgeSame DEF CalmTasks
<1>6. ASSUME UNCHANGED todo PROVE (ToInsert(l)' <=> ToInsert(l)) /\ (ToDelete(l)' <=> ToDelete(l))
  BY <1>6 DEF ToInsert, ToDelete
<1>7. CASE MainReadReply \/ MainReadAcl
  <2>1. stream # <<>> /\ stream' = Tail(stream) /\ UNCHANGED <<todo, links>> /\ Head(stream).k \in {"reply", "acl"}
    BY <1>7 DEF MainReadReply, MainReadAcl, host, ctrl
  <2>2. /\ InStream("conn", l)' <=> InStream("conn", l)
        /\ InStream("disc", l)' <=> InStream("disc", l)
    BY <1>1, <2>1, StreamRead
  <2> QED
    BY <1>6, <2>1, <2>2, AgeSame
<1>8. CASE Exec
  <2>1. PICK c \in [t : Tasks, op : Ops], r \in Packets, q \in Seq(Packets) : Executed(c, r, q)
    BY <1>1, <1>8, ExecFacts
  <2>2. /\ c = cmds[1] /\ 1 \in DOMAIN cmds
        /\ r.k = "reply" /\ stream' = stream \o q /\ q[1] = r
        /\ \/ UNCHANGED links /\ \A i \in DOMAIN q : i = 1
           \/ \E m \in Links : /\ c.op = "disconnect" /\ links[m] = "up" /\ Handle[m] = Handle[c.t[2]]
                               /\ \A i \in DOMAIN q : i \in {1, 2} /\ (i = 2 => q[i].k = "disc" /\ q[i].l = m)
                               /\ 2 \in DOMAIN q
                               /\ links'[m] = "down"
                               /\ \A n \in Links : links'[n] = links[n]
                                  \/ (links[n] = "up" /\ Handle[n] = Handle[c.t[2]])
        /\ UNCHANGED todo
    BY <2>1 DEF Executed
  <2>3. /\ InStream("conn", l) => InStream("conn", l)'
        /\ InStream("disc", l) => InStream("disc", l)'
        /\ InStream("conn", l)' => InStream("conn", l) \/ \E i \in DOMAIN q : q[i].k = "conn" /\ q[i].l = l
        /\ InStream("disc", l)' => InStream("disc", l) \/ \E i \in DOMAIN q : q[i].k = "disc" /\ q[i].l = l
    BY <1>1, <2>2, StreamAdd
  <2>4. \A i \in DOMAIN q : q[i].k # "conn"
    BY <2>2
  <2>5. CASE UNCHANGED links /\ \A i \in DOMAIN q : i = 1
    <3>1. \A i \in DOMAIN q : q[i].k # "disc"
      BY <2>2, <2>5
    <3> QED
      BY <1>6, <2>2, <2>3, <2>4, <2>5, <3>1, AgeSame
  <2>6. ASSUME NEW m \in Links, c.op = "disconnect", links[m] = "up", Handle[m] = Handle[c.t[2]],
               \A i \in DOMAIN q : i \in {1, 2} /\ (i = 2 => q[i].k = "disc" /\ q[i].l = m),
               2 \in DOMAIN q, links'[m] = "down",
               \A n \in Links : links'[n] = links[n] \/ (links[n] = "up" /\ Handle[n] = Handle[c.t[2]])
        PROVE  Ages(l)
    <3>1. ~ Unborn(m) /\ \A n \in Links : links[n] = "up" /\ Handle[n] = Handle[c.t[2]] => n = m
      BY <2>2, <2>6, EndedFacts
    <3>2. CASE l = m
      <4>1. InStream("disc", l)'
        <5>1. \A i \in DOMAIN q : q[i].k = "disc" /\ q[i].l = l => InStream("disc", l)'
          BY <1>1, <2>2, StreamAdd
        <5> QED
          BY <2>6, <3>2, <5>1
      <4> QED
        BY <1>6, <2>2, <2>3, <2>4, <2>6, <3>1, <3>2, <4>1 DEF Ages, Unborn, Alive, Held
    <3>3. CASE l # m
      <4>1. links'[l] = links[l]
        BY <2>6, <3>1, <3>3
      <4>2. \A i \in DOMAIN q : ~ (q[i].k = "disc" /\ q[i].l = l)
        BY <2>2, <2>6, <3>3
      <4> QED
        BY <1>6, <2>2, <2>3, <2>4, <4>1, <4>2, AgeSame
    <3> QED
      BY <3>2, <3>3
  <2> QED
    BY <2>2, <2>5, <2>6
<1>9. ASSUME NEW m \in Links, LinkUp(m) \/ PeerData(m) \/ LtkRequest(m) \/ LinkDown(m) PROVE Ages(l)
  <2>1. PICK k \in {"conn", "acl", "ltk", "disc"}, q \in Seq(Packets) : Added(k, m, q)
    BY <1>1, <1>9, PacketAdded
  <2>2. /\ stream' = stream \o q /\ 1 \in DOMAIN q /\ \A i \in DOMAIN q : i = 1 /\ q[i].k = k /\ q[i].l = m
        /\ UNCHANGED todo
    BY <2>1 DEF Added
  <2>3. /\ InStream("conn", l) => InStream("conn", l)'
        /\ InStream("disc", l) => InStream("disc", l)'
        /\ InStream("conn", l)' => InStream("conn", l) \/ \E i \in DOMAIN q : q[i].k = "conn" /\ q[i].l = l
        /\ InStream("disc", l)' => InStream("disc", l) \/ \E i \in DOMAIN q : q[i].k = "disc" /\ q[i].l = l
        /\ \A i \in DOMAIN q : q[i].k = "conn" /\ q[i].l = l => InStream("conn", l)'
        /\ \A i \in DOMAIN q : q[i].k = "disc" /\ q[i].l = l => InStream("disc", l)'
    BY <1>1, <2>2, StreamAdd
  <2>4. CASE k \in {"acl", "ltk"}
    <3>1. UNCHANGED links
      BY <2>1, <2>4 DEF Added, PeerData, LtkRequest
    <3> QED
      BY <1>6, <2>2, <2>3, <2>4, <3>1, AgeSame
  <2>5. CASE k = "conn"
    <3>1. links[m] = "none" /\ links' = [links EXCEPT ![m] = "up"] /\ LinkUp(m)
      BY <2>1, <2>5 DEF Added, LinkUp
    <3>2. links'[m] = "up" /\ (l # m => links'[l] = links[l])
      BY <1>1, <3>1 DEF HostTypes
    <3>3. CASE l = m
      BY <1>6, <2>2, <2>3, <2>5, <3>1, <3>2, <3>3 DEF Ages, Unborn, Alive, Held
    <3>4. CASE l # m
      BY <1>6, <2>2, <2>3, <2>5, <3>2, <3>4, AgeSame
    <3> QED
      BY <3>3, <3>4
  <2>6. CASE k = "disc"
    <3>1. Begun(m) /\ links' = [links EXCEPT ![m] = "down"]
      BY <2>1, <2>6 DEF Added, LinkDown
    <3>2. links[m] = "up" /\ ~ Unborn(m)
      BY <3>1, BegunFacts
    <3>3. links'[m] = "down" /\ (l # m => links'[l] = links[l])
      BY <1>1, <3>1 DEF HostTypes
    <3>4. CASE l = m
      BY <1>6, <2>2, <2>3, <2>6, <3>2, <3>3, <3>4 DEF Ages, Unborn, Alive, Held
    <3>5. CASE l # m
      BY <1>6, <2>2, <2>3, <2>6, <3>3, <3>5, AgeSame
    <3> QED
      BY <3>4, <3>5
  <2> QED
    BY <2>4, <2>5, <2>6
<1> QED
  BY <1>2, <1>3, <1>4, <1>5, <1>7, <1>8, <1>9, CalmStep, StreamSteps
-----------------------------------------------------------------------------
\* handleConnection: the connection of l takes a place that is free.
LEMMA InsertFacts ==
  ASSUME HostInv, LiveInv, NEW l \in Links, Insert(l)
  PROVE  /\ Alive(l) /\ Unborn(l) /\ links[l] = "up" /\ connsMutex = Free /\ Handle[l] \in Handles
         /\ \A h \in Handles : conns'[h] = IF h = Handle[l] THEN l ELSE conns[h]
<1>1. ToInsert(l) /\ conns' = [conns EXCEPT ![Handle[l]] = l] /\ connsMutex = Free
  BY DEF Insert, At, ToInsert
<1>2. Unborn(l)
  BY <1>1 DEF Unborn
<1>3. links[l] = "up"
  BY <1>1, <1>2 DEF HostInv, HostTypes, OneConnection, LiveInv, ToInsert
<1>4. \A h \in Handles : conns'[h] = IF h = Handle[l] THEN l ELSE conns[h]
  BY <1>1 DEF HostInv, HostTypes
<1> QED
  BY <1>1, <1>2, <1>3, <1>4 DEF Alive, Handles

\* handleDisconnectionComplete finds the connection of its own link.
LEMMA DeleteFacts ==
  ASSUME HostInv, OneEnd, LiveInv, NEW l \in Links, Delete(l)
  PROVE  /\ Alive(l) /\ Found(l) = l /\ ~ Alive(l)' /\ connsMutex = Free /\ Handle[l] \in Handles
         /\ \A h \in Handles : conns'[h] = IF h = Handle[l] THEN NoLink ELSE conns[h]
         /\ UNCHANGED <<dropped, data, mpc, mlink, mconn>>
<1>1. HostTypes
  BY DEF HostInv
<1>2. ToDelete(l) /\ connsMutex = Free /\ UNCHANGED <<stream, links, data, mpc, mlink, mconn>>
  BY DEF Delete, At, ToDelete, ctrl, main
<1>3. links[l] = "down" /\ ~ InStream("disc", l) /\ Alive(l)
  BY <1>2 DEF OneEnd, ToDelete, Alive
<1>4. Found(l) = l
  BY <1>3 DEF LiveInv
<1>5. Found(l) # NoLink
  BY <1>4, HostAssumption
<1>6. conns' = [conns EXCEPT ![Handle[l]] = NoLink] /\ UNCHANGED dropped /\ Advance(<<"disc", l>>)
  BY <1>5 DEF Delete
<1>7. PICK t : t = <<"disc", l>>
  OBVIOUS
<1>8. t \in Tasks /\ todo[t] \in Seq(Steps) /\ todo[t] # <<>>
  BY <1>1, <1>2, <1>7, TaskPairs DEF HostTypes, ToDelete
<1>9. PICK q : q = Tail(todo[t])
  OBVIOUS
<1>10. q \in Seq(Steps) /\ \A i \in DOMAIN q : i + 1 \in DOMAIN todo[t] /\ q[i] = todo[t][i + 1] /\ i + 1 # 1
  BY <1>8, <1>9
<1>11. \A i \in DOMAIN q : q[i] # "delete"
  BY <1>7, <1>10 DEF OneEnd
<1>12. todo'[t] = q
  BY <1>1, <1>6, <1>7, <1>8, <1>9 DEF Advance, HostTypes
<1>13. q # <<>> => 1 \in DOMAIN q /\ Head(q) = q[1]
  BY <1>10
<1>14. ~ ToDelete(l)'
  BY <1>7, <1>11, <1>12, <1>13 DEF ToDelete
<1>15. ~ InStream("disc", l)'
  BY <1>2, <1>3 DEF InStream
<1>16. ~ Alive(l)'
  BY <1>2, <1>3, <1>14, <1>15 DEF Alive
<1>17. \A h \in Handles : conns'[h] = IF h = Handle[l] THEN NoLink ELSE conns[h]
  BY <1>1, <1>6 DEF HostTypes
<1> QED
  BY <1>2, <1>3, <1>4, <1>6, <1>16, <1>17 DEF Handles

\* A link comes up when no other with its handle is left.
LEMMA LinkUpFacts ==
  ASSUME Prompt, OneEnd, ReplyInv, NEW l \in Links, LinkUp(l)
  PROVE  /\ links[l] = "none" /\ Unborn(l) /\ \A m \in Links : Handle[m] = Handle[l] => ~ Alive(m)
<1>1. \A m \in Links : Ended(m) => ~ Alive(m)
  <2>1. SUFFICES ASSUME NEW m \in Links, Ended(m) PROVE ~ Alive(m)
    OBVIOUS
  <2>2. CASE links[m] = "none"
    BY <2>2 DEF OneEnd, Alive, ToDelete
  <2>3. CASE links[m] = "down" /\ ~ Pending("disc", m, "delete")
    BY <2>3, NotWaiting DEF Alive, Pending
  <2> QED
    BY <2>1, <2>2, <2>3 DEF Ended
<1> QED
  BY <1>1 DEF LinkUp, Unborn

\* Every step keeps the table in line with the links.
LEMMA LiveStep ==
  ASSUME Prompt, HostInv, OneEnd, ReplyInv, LiveInv, HoldInv, [Next]_vars
  PROVE  LiveInv'
<1>1. \A l \in Links : Ages(l)
  BY AgeStep
<1>2. /\ \A l \in Links : Unborn(l)' => Unborn(l)
      /\ \A l \in Links : Unborn(l) => Unborn(l)' \/ Insert(l)
      /\ \A l \in Links : Alive(l) => Alive(l)' \/ Delete(l)
      /\ \A l \in Links : Alive(l)' => Alive(l) \/ LinkUp(l)
      /\ \A l \in Links : links'[l] = "down" => links[l] = "down" \/ ~ Unborn(l)
  BY <1>1 DEF Ages
<1>3. \A l \in Links : links'[l] = "down" => ~ Unborn(l)'
  BY <1>2 DEF LiveInv
<1>4. \A l, m \in Links : Alive(l)' /\ Alive(m)' /\ Handle[l] = Handle[m] => l = m
  <2>1. SUFFICES ASSUME NEW l \in Links, NEW m \in Links, Alive(l)', Alive(m)', Handle[l] = Handle[m], l # m
                 PROVE  FALSE
    OBVIOUS
  <2>2. ~ (Alive(l) /\ Alive(m))
    BY <2>1 DEF LiveInv
  <2>3. ASSUME NEW n \in {l, m}, LinkUp(n) PROVE FALSE
    <3>1. PICK o \in {l, m} : o # n
      BY <2>1
    <3>2. n \in Links /\ o \in Links /\ Handle[o] = Handle[n] /\ Alive(o)'
      BY <2>1, <3>1
    <3>3. ~ Alive(o)
      BY <2>3, <3>2, LinkUpFacts
    <3>4. LinkUp(o)
      BY <1>2, <3>2, <3>3
    <3>5. links' = [links EXCEPT ![n] = "up"] /\ links' = [links EXCEPT ![o] = "up"] /\ links[o] = "none"
      BY <2>3, <3>4 DEF LinkUp
    <3> QED
      BY <3>1, <3>2, <3>5 DEF HostInv, HostTypes
  <2> QED
    BY <1>2, <2>1, <2>2, <2>3
<1>5. CASE UNCHANGED conns
  <2>1. ASSUME NEW l \in Links, Delete(l) PROVE FALSE
    <3>1. Found(l) = l /\ conns'[Handle[l]] = NoLink
      BY <2>1, DeleteFacts
    <3> QED
      BY <1>5, <3>1, HostAssumption DEF Found
  <2>2. \A l \in Links : Alive(l)' /\ ~ Unborn(l)' => Found(l)' = l
    <3>1. SUFFICES ASSUME NEW l \in Links, Alive(l)', ~ Unborn(l)' PROVE conns'[Handle[l]] = l
      BY DEF Found
    <3>2. CASE Insert(l)
      BY <3>2, InsertFacts
    <3>3. CASE ~ Insert(l)
      <4>1. ~ Unborn(l)
        BY <1>2, <3>1, <3>3
      <4>2. Alive(l)
        BY <1>2, <3>1, <4>1, LinkUpFacts
      <4> QED
        BY <1>5, <4>1, <4>2 DEF LiveInv, Found
    <3> QED
      BY <3>2, <3>3
  <2>3. \A h \in Handles : \A n \in Links : conns'[h] = n => Alive(n)'
    <3>1. SUFFICES ASSUME NEW h \in Handles, NEW n \in Links, conns[h] = n PROVE Alive(n)'
      BY <1>5
    <3>2. Alive(n)
      BY <3>1 DEF LiveInv
    <3> QED
      BY <1>2, <2>1, <3>2
  <2> QED
    BY <1>3, <1>4, <2>2, <2>3 DEF LiveInv
<1>6. ASSUME NEW m \in Links, Insert(m) PROVE LiveInv'
  <2>1. /\ Alive(m) /\ Unborn(m) /\ Handle[m] \in Handles
        /\ \A h \in Handles : conns'[h] = IF h = Handle[m] THEN m ELSE conns[h]
    BY <1>6, InsertFacts
  <2>2. ASSUME NEW l \in Links, Delete(l) PROVE FALSE
    <3>1. Alive(l) /\ Found(l) = l /\ conns'[Handle[l]] = NoLink
      BY <2>2, DeleteFacts
    <3>2. Handle[l] = Handle[m] => l = m
      BY <2>1, <3>1 DEF LiveInv
    <3>3. Handle[l] \in Handles
      BY DEF Handles
    <3> QED
      BY <2>1, <3>1, <3>2, <3>3, HostAssumption DEF Found
  <2>3. \A l \in Links : Alive(l)' /\ ~ Unborn(l)' => Found(l)' = l
    <3>1. SUFFICES ASSUME NEW l \in Links, Alive(l)', ~ Unborn(l)' PROVE conns'[Handle[l]] = l
      BY DEF Found
    <3>2. Handle[l] \in Handles
      BY DEF Handles
    <3>3. CASE Insert(l)
      BY <3>3, InsertFacts
    <3>4. CASE ~ Insert(l)
      <4>1. ~ Unborn(l)
        BY <1>2, <3>1, <3>4
      <4>2. Alive(l)
        BY <1>2, <3>1, <4>1, LinkUpFacts
      <4>3. Handle[l] # Handle[m]
        BY <2>1, <4>1, <4>2 DEF LiveInv
      <4> QED
        BY <2>1, <3>2, <4>1, <4>2, <4>3 DEF LiveInv, Found
    <3> QED
      BY <3>3, <3>4
  <2>4. \A h \in Handles : \A n \in Links : conns'[h] = n => Alive(n)'
    <3>1. SUFFICES ASSUME NEW h \in Handles, NEW n \in Links, conns'[h] = n PROVE Alive(n)'
      OBVIOUS
    <3>2. Alive(n)
      BY <2>1, <3>1 DEF LiveInv
    <3> QED
      BY <1>2, <2>2, <3>2
  <2> QED
    BY <1>3, <1>4, <2>3, <2>4 DEF LiveInv
<1>7. ASSUME NEW m \in Links, Delete(m) PROVE LiveInv'
  <2>1. /\ Alive(m) /\ Found(m) = m /\ ~ Alive(m)' /\ Handle[m] \in Handles
        /\ \A h \in Handles : conns'[h] = IF h = Handle[m] THEN NoLink ELSE conns[h]
    BY <1>7, DeleteFacts
  <2>2. \A l \in Links : Alive(l)' /\ ~ Unborn(l)' => Found(l)' = l
    <3>1. SUFFICES ASSUME NEW l \in Links, Alive(l)', ~ Unborn(l)' PROVE conns'[Handle[l]] = l
      BY DEF Found
    <3>2. Handle[l] \in Handles /\ l # m
      BY <2>1, <3>1 DEF Handles
    <3>3. CASE Insert(l)
      BY <3>3, InsertFacts
    <3>4. CASE ~ Insert(l)
      <4>1. ~ Unborn(l)
        BY <1>2, <3>1, <3>4
      <4>2. Alive(l)
        BY <1>2, <3>1, <4>1, LinkUpFacts
      <4>3. Handle[l] # Handle[m]
        BY <2>1, <3>2, <4>2 DEF LiveInv
      <4> QED
        BY <2>1, <3>2, <4>1, <4>2, <4>3 DEF LiveInv, Found
    <3> QED
      BY <3>3, <3>4
  <2>3. \A h \in Handles : \A n \in Links : conns'[h] = n => Alive(n)'
    <3>1. SUFFICES ASSUME NEW h \in Handles, NEW n \in Links, conns'[h] = n PROVE Alive(n)'
      OBVIOUS
    <3>2. n # NoLink
      BY HostAssumption
    <3>3. Alive(n) /\ n = conns[h] /\ Handle[n] = h
      BY <2>1, <3>1, <3>2 DEF LiveInv, HostInv, TableInv
    <3>4. Alive(n)'
      <4>1. SUFFICES ASSUME Delete(n) PROVE FALSE
        BY <1>2, <3>3
      <4>2. conns'[Handle[n]] = NoLink
        BY <3>3, <4>1, DeleteFacts
      <4> QED
        BY <3>1, <3>2, <3>3, <4>2
    <3> QED
      BY <3>4
  <2> QED
    BY <1>3, <1>4, <2>2, <2>3 DEF LiveInv
<1> QED
  BY <1>5, <1>6, <1>7, TableSteps
-----------------------------------------------------------------------------
\* Who waits for an answer with connsMutex keeps it, and the table with it.
LEMMA LockKept ==
  ASSUME HostInv, connsMutex \in waiting, connsMutex \notin answered, [Next]_vars
  PROVE  UNCHANGED <<connsMutex, conns>>
<1>1. connsMutex \in Tasks /\ connsMutex # Free /\ connsMutex # Main
  <2>1. connsMutex \in Tasks
    BY DEF HostInv, HostTypes
  <2> QED
    BY <2>1, NotMain
<1>2. CASE UNCHANGED vars
  BY <1>2 DEF vars, host
<1>3. CASE MainStep
  <2>1. mpc # "send"
    BY <1>1 DEF HostInv, TableInv
  <2> QED
    BY <1>1, <1>3, <2>1 DEF MainStep, MainReadEvent, MainReadReply, MainReadAcl, MainLock, MainSend, host
<1>4. ASSUME NEW t \in Tasks, TaskStep(t) PROVE UNCHANGED <<connsMutex, conns>>
  <2>1. CASE Return(t)
    BY <2>1 DEF Return, Unlocked
  <2>2. CASE setAdvertiseEnable(t)
    <3>1. t \notin waiting
      BY <2>2 DEF setAdvertiseEnable, At
    <3> QED
      BY <2>2, <3>1 DEF setAdvertiseEnable, Unlocked
  <2> QED
    BY <1>4, <2>1, <2>2 DEF TaskStep
<1>5. ASSUME NEW l \in Links, LinkStep(l) \/ CancelConnection(l) PROVE UNCHANGED <<connsMutex, conns>>
  BY <1>1, <1>5 DEF LinkStep, Insert, Delete, Accept, Serve, LtkNegReply, Close, CancelConnection
<1>6. CASE AppStep \/ Advertise \/ StopAdvertising \/ Connect
  BY <1>6 DEF AppStep, SetFlag, SendCommand, Restore, Advertise, StopAdvertising, Connect, StartApp
<1>7. CASE Exec \/ \E l \in Links : LinkUp(l) \/ PeerData(l) \/ LtkRequest(l) \/ LinkDown(l)
  BY <1>7 DEF Exec, LinkUp, PeerData, LtkRequest, LinkDown, host
<1> QED
  BY <1>2, <1>3, <1>4, <1>5, <1>6, <1>7 DEF Next

\* conn.Close has found a connection, and sends its Disconnect with the mutex kept.
Closing(c) ==
  /\ c.t[2] \in Links /\ Found(c.t[2]) # NoLink
  /\ connsMutex' = c.t /\ UNCHANGED conns

\* A command is added by the task that sends it.
LEMMA CmdSent ==
  ASSUME HostTypes, NEW t \in Tasks, NEW op \in Ops, Send(t, op)
  PROVE  \A i \in DOMAIN cmds' : \/ \E j \in DOMAIN cmds : cmds'[i] = cmds[j]
                                 \/ cmds'[i].t = t /\ cmds'[i].op = op
<1>1. PICK c : c = [t |-> t, op |-> op]
  OBVIOUS
<1>2. c \in [t : Tasks, op : Ops] /\ c.t = t /\ c.op = op
  BY <1>1
<1>3. cmds' = Append(cmds, c)
  BY <1>1 DEF Send
<1>4. \A i \in DOMAIN cmds' : \/ i \in DOMAIN cmds /\ cmds'[i] = cmds[i]
                              \/ i = Len(cmds) + 1 /\ cmds'[i] = c
  BY <1>2, <1>3, AppendIs DEF HostTypes
<1> QED
  BY <1>2, <1>4

\* A Disconnect that is under way was, or is sent by conn.Close.
LEMMA CmdSteps ==
  ASSUME HostTypes, [Next]_vars
  PROVE  \A i \in DOMAIN cmds' : cmds'[i].op = "disconnect" =>
           (\E j \in DOMAIN cmds : cmds'[i] = cmds[j]) \/ Closing(cmds'[i])
<1>1. ASSUME UNCHANGED cmds
      PROVE  \A i \in DOMAIN cmds' : \E j \in DOMAIN cmds : cmds'[i] = cmds[j]
  BY <1>1
<1>2. ASSUME NEW t \in Tasks, NEW op \in Ops, op # "disconnect", Send(t, op)
      PROVE  \A i \in DOMAIN cmds' : cmds'[i].op = "disconnect" => \E j \in DOMAIN cmds : cmds'[i] = cmds[j]
  BY <1>2, CmdSent
<1>3. CASE UNCHANGED vars \/ MainStep \/ \E t \in Tasks : Return(t)
  <2>1. UNCHANGED cmds
    BY <1>3 DEF vars, ctrl, MainStep, MainReadEvent, MainReadReply, MainReadAcl, MainLock, MainSend, Return
  <2> QED
    BY <1>1, <2>1
<1>4. ASSUME NEW t \in Tasks, setAdvertiseEnable(t)
      PROVE  \A i \in DOMAIN cmds' : cmds'[i].op = "disconnect" => \E j \in DOMAIN cmds : cmds'[i] = cmds[j]
  <2>1. Head(todo[t]) \in {"setOn", "setOff"} /\ (UNCHANGED cmds \/ Send(t, Head(todo[t])))
    BY <1>4 DEF setAdvertiseEnable, At
  <2>2. Head(todo[t]) \in Ops /\ Head(todo[t]) # "disconnect"
    BY <2>1 DEF Ops
  <2> QED
    BY <1>1, <1>2, <2>1, <2>2
<1>5. ASSUME NEW l \in Links, Insert(l) \/ Accept(l) \/ Serve(l) \/ Delete(l) \/ CancelConnection(l)
      PROVE  UNCHANGED cmds
  BY <1>5 DEF Insert, Accept, Serve, Delete, CancelConnection, ctrl
<1>6. ASSUME NEW l \in Links, LtkNegReply(l)
      PROVE  \A i \in DOMAIN cmds' : cmds'[i].op = "disconnect" => \E j \in DOMAIN cmds : cmds'[i] = cmds[j]
  <2>1. UNCHANGED cmds \/ Send(<<"ltk", l>>, "ltkneg")
    BY <1>6 DEF LtkNegReply
  <2>2. <<"ltk", l>> \in Tasks /\ "ltkneg" \in Ops /\ "ltkneg" # "disconnect"
    BY TaskPairs DEF Ops
  <2> QED
    BY <1>1, <1>2, <2>1, <2>2
<1>7. ASSUME NEW l \in Links, Close(l)
      PROVE  \A i \in DOMAIN cmds' : (\E j \in DOMAIN cmds : cmds'[i] = cmds[j]) \/ Closing(cmds'[i])
  <2>1. PICK t \in {<<"conn", l>>, <<"close", l>>} :
          IF Found(l) = NoLink THEN UNCHANGED cmds ELSE connsMutex' = t /\ Send(t, "disconnect") /\ UNCHANGED conns
    BY <1>7 DEF Close
  <2>2. t \in Tasks /\ t[2] = l /\ "disconnect" \in Ops
    BY TaskPairs DEF Ops
  <2>3. CASE Found(l) = NoLink
    BY <1>1, <2>1, <2>3
  <2>4. CASE Found(l) # NoLink
    <3>1. \A i \in DOMAIN cmds' : (\E j \in DOMAIN cmds : cmds'[i] = cmds[j]) \/ cmds'[i].t = t
      BY <2>1, <2>2, <2>4, CmdSent
    <3>2. \A i \in DOMAIN cmds' : cmds'[i].t = t => Closing(cmds'[i])
      BY <2>1, <2>2, <2>4 DEF Closing
    <3> QED
      BY <3>1, <3>2
  <2> QED
    BY <2>3, <2>4
<1>8. CASE SetFlag \/ Restore \/ Advertise \/ StopAdvertising \/ Connect
  <2>1. UNCHANGED cmds
    BY <1>8 DEF SetFlag, Restore, Advertise, StopAdvertising, Connect, StartApp, ctrl
  <2> QED
    BY <1>1, <2>1
<1>9. CASE SendCommand
  <2>1. Send(App, Head(todo[App])) /\ Head(todo[App]) \in {"param", "connect"}
    BY <1>9 DEF SendCommand, At
  <2>2. Head(todo[App]) \in Ops /\ Head(todo[App]) # "disconnect" /\ App \in Tasks
    BY <2>1, TaskPairs DEF Ops
  <2> QED
    BY <1>2, <2>1, <2>2
<1>10. CASE \E l \in Links : LinkUp(l) \/ PeerData(l) \/ LtkRequest(l) \/ LinkDown(l)
  <2>1. UNCHANGED cmds
    BY <1>10 DEF LinkUp, PeerData, LtkRequest, LinkDown
  <2> QED
    BY <1>1, <2>1
<1>11. CASE Exec
  <2>1. PICK c \in [t : Tasks, op : Ops], r \in Packets, q \in Seq(Packets) : Executed(c, r, q)
    BY <1>11, ExecFacts
  <2> QED
    BY <2>1 DEF Executed
<1> QED
  BY <1>1, <1>3, <1>4, <1>5, <1>6, <1>7, <1>8, <1>9, <1>10, <1>11 DEF Next, TaskStep, LinkStep, AppStep

\* Every step leaves the table to who has sent a Disconnect.
LEMMA HoldStep ==
  ASSUME HostInv, ReplyInv, HoldInv, [Next]_vars
  PROVE  HoldInv'
<1>1. HostTypes
  BY DEF HostInv
<1>2. SUFFICES ASSUME NEW i \in DOMAIN cmds', cmds'[i].op = "disconnect"
               PROVE  /\ cmds'[i].t[2] \in Links /\ connsMutex' = cmds'[i].t
                      /\ conns'[Handle[cmds'[i].t[2]]] # NoLink
  BY DEF HoldInv, Found
<1>3. CASE Closing(cmds'[i])
  BY <1>3 DEF Closing, Found
<1>4. ASSUME NEW j \in DOMAIN cmds, cmds'[i] = cmds[j]
      PROVE  /\ cmds'[i].t[2] \in Links /\ connsMutex' = cmds'[i].t
             /\ conns'[Handle[cmds'[i].t[2]]] # NoLink
  <2>1. cmds[j].t[2] \in Links /\ connsMutex = cmds[j].t /\ conns[Handle[cmds[j].t[2]]] # NoLink
    BY <1>2, <1>4 DEF HoldInv, Found
  <2>2. connsMutex \in waiting /\ connsMutex \notin answered
    BY <2>1 DEF ReplyInv
  <2>3. UNCHANGED <<connsMutex, conns>>
    BY <2>2, LockKept
  <2> QED
    BY <1>4, <2>1, <2>3
<1> QED
  BY <1>1, <1>2, <1>3, <1>4, CmdSteps
-----------------------------------------------------------------------------
\* Who moves mainLoop, and who takes or adds data.
LEMMA DataSteps ==
  ASSUME [Next]_vars
  PROVE  /\ UNCHANGED <<mpc, mlink, mconn>> \/ MainReadAcl \/ MainLock \/ MainSend
         /\ \/ UNCHANGED <<data, dropped>>
            \/ MainLock \/ MainSend \/ \E l \in Links : Serve(l) \/ Delete(l)
<1>1. CASE UNCHANGED vars
  BY <1>1 DEF vars, main
<1>2. CASE MainStep
  BY <1>2 DEF MainStep, MainReadEvent, MainReadReply, MainReadAcl, main
<1>3. ASSUME NEW t \in Tasks, TaskStep(t) PROVE UNCHANGED <<mpc, mlink, mconn, data, dropped>>
  BY <1>3 DEF TaskStep, setAdvertiseEnable, Return, main
<1>4. ASSUME NEW l \in Links, LinkStep(l) \/ CancelConnection(l)
      PROVE  UNCHANGED <<mpc, mlink, mconn>> /\ (UNCHANGED <<data, dropped>> \/ Serve(l) \/ Delete(l))
  BY <1>4 DEF LinkStep, Insert, Accept, Serve, Delete, LtkNegReply, Close, CancelConnection, main
<1>5. CASE AppStep \/ Advertise \/ StopAdvertising \/ Connect
  BY <1>5 DEF AppStep, SetFlag, SendCommand, Restore, Advertise, StopAdvertising, Connect, StartApp, main
<1>6. CASE Exec \/ \E l \in Links : LinkUp(l) \/ PeerData(l) \/ LtkRequest(l) \/ LinkDown(l)
  BY <1>6 DEF Exec, LinkUp, PeerData, LtkRequest, LinkDown, main
<1> QED
  BY <1>1, <1>2, <1>3, <1>4, <1>5, <1>6 DEF Next

\* Every piece of data comes from a peer.
LEMMA CarriedStep ==
  ASSUME HostInv, [Next]_vars, NEW l \in Links, Carried(l)'
  PROVE  Carried(l) \/ PeerData(l)
<1>1. HostTypes /\ stream \in Seq(Packets)
  BY DEF HostInv, HostTypes
<1>2. InStream("acl", l)' => InStream("acl", l) \/ PeerData(l)
  <2>1. CASE UNCHANGED stream
    BY <2>1 DEF InStream
  <2>2. CASE MainReadEvent \/ MainReadReply \/ MainReadAcl
    <3>1. stream # <<>> /\ stream' = Tail(stream)
      BY <2>2 DEF MainReadEvent, MainReadReply, MainReadAcl
    <3> QED
      BY <1>1, <3>1, StreamRead
  <2>3. CASE Exec
    <3>1. PICK c \in [t : Tasks, op : Ops], r \in Packets, q \in Seq(Packets) : Executed(c, r, q)
      BY <1>1, <2>3, ExecFacts
    <3>2. stream' = stream \o q /\ \A i \in DOMAIN q : q[i].k \in {"reply", "disc"}
      BY <3>1 DEF Executed
    <3>3. InStream("acl", l)' => InStream("acl", l) \/ \E i \in DOMAIN q : q[i].k = "acl" /\ q[i].l = l
      BY <1>1, <3>2, StreamAdd
    <3> QED
      BY <3>2, <3>3
  <2>4. ASSUME NEW m \in Links, LinkUp(m) \/ PeerData(m) \/ LtkRequest(m) \/ LinkDown(m)
        PROVE  InStream("acl", l)' => InStream("acl", l) \/ PeerData(l)
    <3>1. PICK k \in {"conn", "acl", "ltk", "disc"}, q \in Seq(Packets) : Added(k, m, q)
      BY <1>1, <2>4, PacketAdded
    <3>2. /\ stream' = stream \o q /\ \A i \in DOMAIN q : q[i].k = k /\ q[i].l = m
          /\ k = "acl" => PeerData(m)
      BY <3>1 DEF Added
    <3>3. InStream("acl", l)' => InStream("acl", l) \/ \E i \in DOMAIN q : q[i].k = "acl" /\ q[i].l = l
      BY <1>1, <3>2, StreamAdd
    <3>4. (\E i \in DOMAIN q : q[i].k = "acl" /\ q[i].l = l) => k = "acl" /\ m = l
      BY <3>2
    <3> QED
      BY <3>2, <3>3, <3>4
  <2> QED
    BY <2>1, <2>2, <2>3, <2>4, StreamSteps
<1>3. mpc' # "read" /\ mlink' = l => Carried(l)
  <2>1. CASE UNCHANGED <<mpc, mlink, mconn>>
    BY <2>1 DEF Carried
  <2>2. CASE MainReadAcl
    <3>1. stream # <<>> /\ Head(stream).k = "acl" /\ mlink' = Head(stream).l /\ stream' = Tail(stream)
      BY <2>2 DEF MainReadAcl
    <3>2. stream[1] = Head(stream) /\ 1 \in DOMAIN stream
      BY <1>1, <3>1, StreamRead
    <3> QED
      BY <3>1, <3>2 DEF Carried, InStream
  <2>3. CASE MainLock \/ MainSend
    BY <2>3 DEF MainLock, MainSend, Carried
  <2> QED
    BY <2>1, <2>2, <2>3, DataSteps
<1> QED
  BY <1>2, <1>3 DEF Carried

\* In the stream, the data of a link stays before its end.
Ordered ==
  \A i, j \in DOMAIN stream :
    stream[i].k = "acl" /\ stream[j].k = "disc" /\ stream[i].l = stream[j].l => i < j

\* mainLoop reads a packet.
LEMMA OrderRead ==
  ASSUME HostTypes, Ordered, stream # <<>>, stream' = Tail(stream)
  PROVE  Ordered'
<1>1. \A i \in DOMAIN stream' : i \in Nat /\ i + 1 \in DOMAIN stream /\ stream'[i] = stream[i + 1]
  BY StreamRead DEF HostTypes
<1>2. SUFFICES ASSUME NEW i \in DOMAIN stream', NEW j \in DOMAIN stream',
                      stream'[i].k = "acl", stream'[j].k = "disc", stream'[i].l = stream'[j].l
               PROVE  i < j
  BY DEF Ordered
<1>3. i + 1 < j + 1
  BY <1>1, <1>2 DEF Ordered
<1> QED
  BY <1>1, <1>3

\* Packets are added, data of a link only when its end is not in the stream.
LEMMA OrderAdded ==
  ASSUME HostTypes, Ordered, NEW q \in Seq(Packets), stream' = stream \o q,
         \A i \in DOMAIN q : q[i].k = "acl" =>
           q[i].l \in Links /\ ~ InStream("disc", q[i].l) /\ \A j \in DOMAIN q : q[j].k # "disc"
  PROVE  Ordered'
<1>1. stream \in Seq(Packets)
  BY DEF HostTypes
<1>2. \A i \in DOMAIN stream' :
        \/ i \in DOMAIN stream /\ stream'[i] = stream[i]
        \/ /\ i - Len(stream) \in DOMAIN q /\ stream'[i] = q[i - Len(stream)]
           /\ \A j \in DOMAIN stream : j < i
  BY <1>1, StreamAdd
<1>3. SUFFICES ASSUME NEW i \in DOMAIN stream', NEW j \in DOMAIN stream',
                      stream'[i].k = "acl", stream'[j].k = "disc", stream'[i].l = stream'[j].l
               PROVE  i < j
  BY DEF Ordered
<1>4. CASE i \in DOMAIN stream /\ stream'[i] = stream[i]
  BY <1>2, <1>3, <1>4 DEF Ordered
<1>5. CASE i - Len(stream) \in DOMAIN q /\ stream'[i] = q[i - Len(stream)]
  <2>1. ~ InStream("disc", stream'[i].l) /\ \A n \in DOMAIN q : q[n].k # "disc"
    BY <1>3, <1>5
  <2>2. j \in DOMAIN stream /\ stream'[j] = stream[j]
    BY <1>2, <1>3, <2>1
  <2> QED
    BY <1>3, <2>1, <2>2 DEF InStream
<1> QED
  BY <1>2, <1>4, <1>5

\* Every step keeps that order.
LEMMA OrderStep ==
  ASSUME Prompt, HostInv, OneEnd, ReplyInv, Ordered, [Next]_vars
  PROVE  Ordered'
<1>1. HostTypes
  BY DEF HostInv
<1>2. CASE UNCHANGED stream
  BY <1>2 DEF Ordered
<1>3. CASE MainReadEvent \/ MainReadReply \/ MainReadAcl
  BY <1>1, <1>3, OrderRead DEF MainReadEvent, MainReadReply, MainReadAcl
<1>4. CASE Exec
  <2>1. PICK c \in [t : Tasks, op : Ops], r \in Packets, q \in Seq(Packets) : Executed(c, r, q)
    BY <1>1, <1>4, ExecFacts
  <2>2. stream' = stream \o q /\ \A i \in DOMAIN q : q[i].k # "acl"
    BY <2>1 DEF Executed
  <2> QED
    BY <1>1, <2>2, OrderAdded
<1>5. ASSUME NEW l \in Links, LinkUp(l) \/ PeerData(l) \/ LtkRequest(l) \/ LinkDown(l) PROVE Ordered'
  <2>1. PICK k \in {"conn", "acl", "ltk", "disc"}, q \in Seq(Packets) : Added(k, l, q)
    BY <1>1, <1>5, PacketAdded
  <2>2. /\ stream' = stream \o q /\ \A i \in DOMAIN q : q[i].k = k /\ q[i].l = l
        /\ k = "acl" => PeerData(l)
    BY <2>1 DEF Added
  <2>3. k = "acl" => ~ InStream("disc", l)
    <3>1. PeerData(l) => links[l] = "up"
      BY DEF PeerData, Begun
    <3> QED
      BY <2>2, <3>1 DEF OneEnd
  <2>4. \A i \in DOMAIN q : q[i].k = "acl" =>
          q[i].l \in Links /\ ~ InStream("disc", q[i].l) /\ \A j \in DOMAIN q : q[j].k # "disc"
    BY <2>2, <2>3
  <2> QED
    BY <1>1, <2>2, <2>4, OrderAdded
<1> QED
  BY <1>2, <1>3, <1>4, <1>5, StreamSteps

\* Every step keeps data between the beginning and the end of its link.
LEMMA DataStep ==
  ASSUME Prompt, HostInv, OneEnd, ReplyInv, DataInv, LiveInv, HoldInv, [Next]_vars
  PROVE  DataInv'
<1>1. stream \in Seq(Packets)
  BY DEF HostInv, HostTypes
<1>2. Ordered'
  BY OrderStep DEF DataInv, Ordered
<1>3. ASSUME NEW l \in Links, Carried(l)' PROVE ~ Unborn(l)' /\ Held(l)'
  <2>1. Ages(l)
    BY AgeStep
  <2>2. CASE PeerData(l)
    <3>1. ~ Unborn(l) /\ links'[l] = "up"
      BY <2>2, BegunFacts DEF PeerData
    <3> QED
      BY <2>1, <3>1 DEF Ages, Held
  <2>3. CASE Carried(l)
    <3>1. ~ Unborn(l) /\ Held(l)
      BY <2>3 DEF DataInv, Held
    <3>2. ASSUME MainReadEvent, Head(stream).k = "disc", Head(stream).l = l PROVE FALSE
      <4>1. mpc = "read" /\ UNCHANGED mpc /\ stream # <<>> /\ stream' = Tail(stream)
        BY <3>2 DEF MainReadEvent, main
      <4>2. InStream("acl", l)'
        BY <1>3, <4>1 DEF Carried
      <4>3. InStream("acl", l) /\ stream[1] = Head(stream) /\ 1 \in DOMAIN stream
        BY <1>1, <4>1, <4>2, StreamRead
      <4>4. PICK i \in DOMAIN stream : stream[i].k = "acl" /\ stream[i].l = l
        BY <4>3 DEF InStream
      <4>5. i < 1
        BY <3>2, <4>3, <4>4 DEF DataInv
      <4>6. i >= 1
        BY <1>1
      <4> QED
        BY <1>1, <4>5, <4>6
    <3> QED
      BY <2>1, <3>1, <3>2 DEF Ages
  <2> QED
    BY <1>3, <2>2, <2>3, CarriedStep
<1>4. \A l \in Links : Carried(l)' => ~ Unborn(l)' /\ (links'[l] = "up" \/ InStream("disc", l)')
  BY <1>3 DEF Held
<1> QED
  BY <1>2, <1>4 DEF DataInv, Ordered

\* mainLoop finds the connection of the link whose data it carries, and
\* handleDisconnectionComplete that of the link that is over.
LEMMA ArrivalStep ==
  ASSUME HostInv, OneEnd, DataInv, LiveInv, ArrivalInv, [Next]_vars
  PROVE  ArrivalInv'
<1>1. HostTypes /\ data \in [Links -> Seq(Links)] /\ \A l \in Links : \A i \in DOMAIN data[l] : data[l][i] = l
  BY DEF HostInv, ArrivalInv, OwnData
<1>2. ASSUME MainLock PROVE mconn' = mlink' /\ UNCHANGED <<data, dropped>>
  <2>1. mpc = "lock" /\ mlink \in Links /\ Carried(mlink)
    BY <1>1, <1>2 DEF MainLock, HostTypes, Carried
  <2>2. Alive(mlink) /\ ~ Unborn(mlink)
    BY <2>1 DEF DataInv, Alive
  <2>3. Found(mlink) = mlink /\ mlink # NoLink
    BY <2>1, <2>2, HostAssumption DEF LiveInv
  <2> QED
    BY <1>2, <2>3 DEF MainLock
<1>3. mpc' = "send" => mconn' = mlink'
  <2>1. CASE MainReadAcl \/ MainSend
    BY <2>1 DEF MainReadAcl, MainSend
  <2>2. CASE UNCHANGED <<mpc, mlink, mconn>>
    BY <2>2 DEF ArrivalInv
  <2> QED
    BY <1>2, <2>1, <2>2, DataSteps
<1>4. /\ UNCHANGED dropped
      /\ data' \in [Links -> Seq(Links)] /\ \A l \in Links : \A i \in DOMAIN data'[l] : data'[l][i] = l
  <2>1. CASE UNCHANGED <<data, dropped>>
    BY <1>1, <2>1
  <2>2. CASE MainSend
    <3>1. mlink \in Links /\ data' = [data EXCEPT ![mlink] = Append(data[mlink], mlink)] /\ UNCHANGED dropped
      BY <1>1, <2>2 DEF MainSend, ArrivalInv, HostTypes
    <3>2. PICK q : q = Append(data[mlink], mlink)
      OBVIOUS
    <3>3. q \in Seq(Links) /\ \A i \in DOMAIN q : q[i] = mlink
      <4>1. data[mlink] \in Seq(Links)
        BY <1>1, <3>1
      <4>2. \A i \in DOMAIN q : \/ i \in DOMAIN data[mlink] /\ q[i] = data[mlink][i]
                                \/ i = Len(data[mlink]) + 1 /\ q[i] = mlink
        BY <3>1, <3>2, <4>1, AppendIs
      <4> QED
        BY <1>1, <3>1, <3>2, <4>1, <4>2
    <3> QED
      BY <1>1, <3>1, <3>2, <3>3
  <2>3. ASSUME NEW l \in Links, Serve(l) PROVE  /\ UNCHANGED dropped
               /\ data' \in [Links -> Seq(Links)] /\ \A c \in Links : \A i \in DOMAIN data'[c] : data'[c][i] = c
    <3>1. UNCHANGED dropped /\ (data' = data \/ (data' = [data EXCEPT ![l] = Tail(data[l])] /\ data[l] # <<>>))
      BY <2>3 DEF Serve
    <3>2. PICK q : q = Tail(data[l])
      OBVIOUS
    <3>3. data[l] # <<>> => q \in Seq(Links) /\ \A i \in DOMAIN q : q[i] = l
      <4>1. data[l] \in Seq(Links)
        BY <1>1
      <4> QED
        BY <1>1, <3>2, <4>1, TailIs
    <3> QED
      BY <1>1, <3>1, <3>2, <3>3
  <2>4. ASSUME NEW l \in Links, Delete(l) PROVE UNCHANGED <<data, dropped>>
    BY <2>4, DeleteFacts
  <2>5. CASE MainLock
    BY <1>1, <1>2, <2>5
  <2> QED
    BY <1>1, <2>1, <2>2, <2>3, <2>4, <2>5, DataSteps
<1> QED
  BY <1>3, <1>4 DEF ArrivalInv, OwnData, NothingDropped

\* The invariant holds at first ...
LEMMA PromptInit == Init => PromptInv
<1> SUFFICES ASSUME Init PROVE PromptInv
  OBVIOUS
<1>1. /\ \A t \in Tasks : todo[t] = <<>>
      /\ stream = <<>> /\ cmds = <<>> /\ waiting = {} /\ answered = {} /\ mpc = "read" /\ dropped = {}
      /\ \A l \in Links : links[l] = "none" /\ data[l] = <<>>
      /\ \A h \in Handles : conns[h] = NoLink
      /\ data \in [Links -> Seq(Links)]
  BY DEF Init
<1>2. DOMAIN stream = {} /\ DOMAIN cmds = {} /\ DOMAIN <<>> = {}
  BY <1>1
<1>3. \A l \in Links : todo[<<"disc", l>>] = <<>>
  BY <1>1, TaskPairs
<1>4. \A k : \A l \in Links : ~ InStream(k, l)
  BY <1>2 DEF InStream
<1>5. \A l \in Links : ~ Alive(l) /\ ~ Carried(l)
  BY <1>1, <1>3, <1>4 DEF Alive, ToDelete, Carried
<1>6. OneEnd
  BY <1>2, <1>3, <1>4 DEF OneEnd
<1>7. ReplyInv
  BY <1>1, <1>2 DEF ReplyInv
<1>8. DataInv /\ HoldInv
  BY <1>2, <1>5 DEF DataInv, HoldInv
<1>9. LiveInv
  BY <1>1, <1>5, HostAssumption DEF LiveInv
<1>10. ArrivalInv
  BY <1>1, <1>2 DEF ArrivalInv, OwnData, NothingDropped
<1> QED
  BY <1>6, <1>7, <1>8, <1>9, <1>10 DEF PromptInv

\* ... and every step keeps it.
LEMMA PromptStep ==
  ASSUME Prompt, HostInv, PromptInv, [Next]_vars
  PROVE  PromptInv'
<1>1. HostInv'
  BY HostStep
<1> QED
  BY <1>1, EndStep, ReplyStep, DataStep, LiveStep, HoldStep, ArrivalStep DEF PromptInv
-----------------------------------------------------------------------------
\* With Prompt, a connection receives the data of its own link only, however links
\* share handles one after the other and in whatever order the goroutines of the
\* events, conn.Close and mainLoop take connsMutex: handleL2CAP, handleConnection,
\* handleDisconnectionComplete.
THEOREM DataIsOwn == ASSUME Prompt PROVE Spec => []OwnData
<1>1. Init => HostInv /\ PromptInv
  BY HostInit, PromptInit
<1>2. HostInv /\ PromptInv /\ [Next]_vars => (HostInv /\ PromptInv)'
  BY HostStep, PromptStep
<1>3. HostInv /\ PromptInv => OwnData
  BY DEF PromptInv, ArrivalInv
<1> QED
  BY <1>1, <1>2, <1>3, PTL DEF Spec

\* With Prompt, handleL2CAP finds a connection for all data it is handed, and
\* handleDisconnectionComplete the one to delete: the branches of the code marked
\* "should not happen, just be cautious for now" are dead.
THEOREM NothingIsDropped == ASSUME Prompt PROVE Spec => []NothingDropped
<1>1. Init => HostInv /\ PromptInv
  BY HostInit, PromptInit
<1>2. HostInv /\ PromptInv /\ [Next]_vars => (HostInv /\ PromptInv)'
  BY HostStep, PromptStep
<1>3. HostInv /\ PromptInv => NothingDropped
  BY DEF PromptInv, ArrivalInv
<1> QED
  BY <1>1, <1>2, <1>3, PTL DEF Spec
-----------------------------------------------------------------------------
\* What is left of the steps of a goroutine of each kind, and of the application.
ConnSteps == {<<>>, <<"insert", "setOn", "accept">>, <<"setOn", "accept">>, <<"accept">>,
              <<"serve", "close">>, <<"serve">>, <<"close">>}
DiscSteps == {<<>>, <<"delete", "setOn">>, <<"setOn">>}
AppSteps == {<<>>, <<"setOff", "param", "restore", "flagOn", "setOn">>,
             <<"param", "restore", "flagOn", "setOn">>, <<"restore", "flagOn", "setOn">>,
             <<"setOn", "flagOn", "setOn">>, <<"flagOn", "setOn">>, <<"setOn">>,
             <<"flagOff", "setOff">>, <<"setOff">>, <<"connect">>}

StepsInv ==
  /\ \A l \in Links : /\ todo[<<"conn", l>>] \in ConnSteps
                      /\ todo[<<"disc", l>>] \in DiscSteps
                      /\ todo[<<"ltk", l>>] \in {<<>>, <<"find">>}
                      /\ todo[<<"close", l>>] \in {<<>>, <<"close">>}
  /\ todo[App] \in AppSteps
  /\ todo[App] = <<"setOff">> => ~ adv

\* A command to set advertising is that of the step its sender is at.
SetInv ==
  /\ \A t \in waiting : Head(todo[t]) # "flagOff"
  /\ \A i \in DOMAIN cmds : \A op \in {"setOn", "setOff"} :
       cmds[i].op = op <=> Head(todo[cmds[i].t]) = op

\* Task t will set advertising on: the command is not sent yet, or not executed.
Coming(t) ==
  \E i \in DOMAIN todo[t] :
    /\ todo[t][1] # "delete" /\ todo[t][i] = "setOn"
    /\ i = 1 /\ t \in waiting => \E j \in DOMAIN cmds : cmds[j].t = t

\* Advertising that has stopped while a connection is free is about to resume.
ResumeInv ==
  adv /\ ~ ctrlAdv /\ NumConns < MaxConn =>
    (\E t \in Tasks : Coming(t)) \/ (\E l \in Links : InStream("conn", l))

AdvInv == StepsInv /\ SetInv /\ ResumeInv
-----------------------------------------------------------------------------
\* Each kind of task goes through its steps in order.
LEMMA StepTails ==
  /\ \A q \in ConnSteps : q # <<>> => Tail(q) \in ConnSteps
  /\ \A q \in DiscSteps : q # <<>> => Tail(q) \in DiscSteps
  /\ \A q \in {<<>>, <<"find">>} : q # <<>> => Tail(q) = <<>>
  /\ \A q \in {<<>>, <<"close">>} : q # <<>> => Tail(q) = <<>>
  /\ \A q \in AppSteps : q # <<>> => Tail(q) \in AppSteps
  /\ \A q \in AppSteps : q # <<>> /\ Head(q) # "flagOff" => Tail(q) # <<"setOff">>
<1>1. /\ Tail(<<"insert", "setOn", "accept">>) = <<"setOn", "accept">>
      /\ Tail(<<"setOn", "accept">>) = <<"accept">> /\ Tail(<<"accept">>) = <<>>
      /\ Tail(<<"serve", "close">>) = <<"close">> /\ Tail(<<"serve">>) = <<>> /\ Tail(<<"close">>) = <<>>
      /\ Tail(<<"delete", "setOn">>) = <<"setOn">> /\ Tail(<<"setOn">>) = <<>> /\ Tail(<<"find">>) = <<>>
  OBVIOUS
<1>2. /\ Tail(<<"setOff", "param", "restore", "flagOn", "setOn">>) = <<"param", "restore", "flagOn", "setOn">>
      /\ Tail(<<"param", "restore", "flagOn", "setOn">>) = <<"restore", "flagOn", "setOn">>
      /\ Tail(<<"restore", "flagOn", "setOn">>) = <<"flagOn", "setOn">>
      /\ Tail(<<"setOn", "flagOn", "setOn">>) = <<"flagOn", "setOn">>
      /\ Tail(<<"flagOn", "setOn">>) = <<"setOn">> /\ Tail(<<"setOn">>) = <<>>
      /\ Tail(<<"flagOff", "setOff">>) = <<"setOff">> /\ Tail(<<"setOff">>) = <<>> /\ Tail(<<"connect">>) = <<>>
  OBVIOUS
<1>3. \A q \in ConnSteps : q # <<>> => Tail(q) \in ConnSteps
  BY <1>1 DEF ConnSteps
<1>4. \A q \in DiscSteps : q # <<>> => Tail(q) \in DiscSteps
  BY <1>1 DEF DiscSteps
<1>5. \A q \in AppSteps : q # <<>> => Tail(q) \in AppSteps
  BY <1>2 DEF AppSteps
<1>6. \A q \in AppSteps : q # <<>> /\ Head(q) # "flagOff" => Tail(q) # <<"setOff">>
  <2>1. <<"setOff">> \notin {<<"param", "restore", "flagOn", "setOn">>, <<"restore", "flagOn", "setOn">>,
                            <<"flagOn", "setOn">>, <<"setOn">>, <<>>}
    OBVIOUS
  <2>2. Head(<<"flagOff", "setOff">>) = "flagOff"
    OBVIOUS
  <2> QED
    BY <1>2, <2>1, <2>2 DEF AppSteps
<1> QED
  BY <1>1, <1>3, <1>4, <1>5, <1>6

\* Where the steps that matter stand.
LEMMA StepPlaces ==
  /\ \A q \in ConnSteps : q # <<>> =>
       /\ Head(q) = q[1] /\ 1 \in DOMAIN q
       /\ q[1] = "insert" => q = <<"insert", "setOn", "accept">>
       /\ q[1] \in {"accept", "serve", "close"} => \A i \in DOMAIN q : q[i] # "setOn"
       /\ \A i \in DOMAIN q : q[i] \notin {"delete", "setOff", "flagOn", "flagOff"}
  /\ \A q \in DiscSteps : q # <<>> =>
       /\ Head(q) = q[1] /\ 1 \in DOMAIN q
       /\ q[1] = "delete" => q = <<"delete", "setOn">>
       /\ \A i \in DOMAIN q : q[i] \notin {"setOff", "insert", "accept", "serve", "close", "flagOn", "flagOff"}
                                /\ (q[i] = "delete" => i = 1)
  /\ \A q \in {<<"find">>, <<"close">>} :
       Head(q) = q[1] /\ 1 \in DOMAIN q /\ \A i \in DOMAIN q : q[i] \in {"find", "close"}
  /\ \A q \in AppSteps : q # <<>> =>
       /\ Head(q) = q[1] /\ 1 \in DOMAIN q
       /\ q[1] = "setOff" => q = <<"setOff">> \/ (5 \in DOMAIN q /\ q[5] = "setOn")
       /\ q[1] = "flagOn" => q = <<"flagOn", "setOn">>
       /\ q[1] = "flagOff" => q = <<"flagOff", "setOff">>
       /\ q[1] = "restore" => q = <<"restore", "flagOn", "setOn">>
       /\ \A i \in DOMAIN q : q[i] \notin {"delete", "insert", "serve", "close"}
<1>1. \A q \in ConnSteps : q # <<>> =>
       /\ Head(q) = q[1] /\ 1 \in DOMAIN q
       /\ q[1] = "insert" => q = <<"insert", "setOn", "accept">>
       /\ q[1] \in {"accept", "serve", "close"} => \A i \in DOMAIN q : q[i] # "setOn"
       /\ \A i \in DOMAIN q : q[i] \notin {"delete", "setOff", "flagOn", "flagOff"}
  BY DEF ConnSteps
<1>2. \A q \in DiscSteps : q # <<>> =>
       /\ Head(q) = q[1] /\ 1 \in DOMAIN q
       /\ q[1] = "delete" => q = <<"delete", "setOn">>
       /\ \A i \in DOMAIN q : q[i] \notin {"setOff", "insert", "accept", "serve", "close", "flagOn", "flagOff"}
                                /\ (q[i] = "delete" => i = 1)
  BY DEF DiscSteps
<1>3. \A q \in {<<"find">>, <<"close">>} :
       Head(q) = q[1] /\ 1 \in DOMAIN q /\ \A i \in DOMAIN q : q[i] \in {"find", "close"}
  OBVIOUS
<1>4. \A q \in AppSteps : q # <<>> =>
       /\ Head(q) = q[1] /\ 1 \in DOMAIN q
       /\ q[1] = "setOff" => q = <<"setOff">> \/ (5 \in DOMAIN q /\ q[5] = "setOn")
       /\ q[1] = "flagOn" => q = <<"flagOn", "setOn">>
       /\ q[1] = "flagOff" => q = <<"flagOff", "setOff">>
       /\ q[1] = "restore" => q = <<"restore", "flagOn", "setOn">>
       /\ \A i \in DOMAIN q : q[i] \notin {"delete", "insert", "serve", "close"}
  BY DEF AppSteps
<1> QED
  BY <1>1, <1>2, <1>3, <1>4

\* What SendCmdWithAdvOff puts before the steps of the application.
LEMMA RestoredSteps == <<"setOn">> \o <<"flagOn", "setOn">> = <<"setOn", "flagOn", "setOn">>
<1>1. PICK a, b, c : a = <<"setOn">> /\ b = <<"flagOn", "setOn">> /\ c = <<"setOn", "flagOn", "setOn">>
  OBVIOUS
<1>2. /\ a \in Seq(Steps) /\ b \in Seq(Steps) /\ c \in Seq(Steps)
      /\ Len(a) = 1 /\ Len(b) = 2 /\ Len(c) = 3
  BY <1>1 DEF Steps
<1>3. a \o b \in Seq(Steps) /\ Len(a \o b) = 3
  <2>1. ASSUME NEW S, NEW s \in Seq(S), NEW t \in Seq(S)
        PROVE  s \o t \in Seq(S) /\ Len(s \o t) = Len(s) + Len(t)
    OBVIOUS
  <2>2. a \o b \in Seq(Steps) /\ Len(a \o b) = Len(a) + Len(b)
    BY <1>2, <2>1
  <2> QED
    BY <1>2, <2>2
<1>4. \A i \in 1 .. 3 : (a \o b)[i] = c[i]
  BY <1>1, <1>2
<1>5. a \o b = c
  BY <1>2, <1>3, <1>4
<1> QED
  BY <1>1, <1>5

\* The steps q are some that task t may have left.
Fits(t, q) ==
  /\ \A l \in Links : /\ t = <<"conn", l>> => q \in ConnSteps
                      /\ t = <<"disc", l>> => q \in DiscSteps
                      /\ t = <<"ltk", l>> => q \in {<<>>, <<"find">>}
                      /\ t = <<"close", l>> => q \in {<<>>, <<"close">>}
  /\ t = App => q \in AppSteps

LEMMA StepsFit == StepsInv <=> /\ \A t \in Tasks : Fits(t, todo[t])
                               /\ todo[App] = <<"setOff">> => ~ adv
<1>1. ASSUME StepsInv PROVE \A t \in Tasks : Fits(t, todo[t])
  BY <1>1 DEF StepsInv, Fits
<1>2. ASSUME \A t \in Tasks : Fits(t, todo[t]), todo[App] = <<"setOff">> => ~ adv PROVE StepsInv
  BY <1>2, TaskPairs DEF StepsInv, Fits
<1> QED
  BY <1>1, <1>2 DEF StepsInv

\* What task t is left with after a step still fits.
LEMMA FitsTail ==
  ASSUME NEW t \in Tasks, NEW q, Fits(t, q), q # <<>>
  PROVE  Fits(t, Tail(q))
BY StepTails DEF Fits

\* Every task is of one of the kinds.
LEMMA TaskKinds ==
  ASSUME NEW t \in Tasks
  PROVE  t = App \/ \E l \in Links : t \in {<<"conn", l>>, <<"disc", l>>, <<"ltk", l>>, <<"close", l>>}
BY DEF Tasks, Kinds

\* The first of the steps of a task.
LEMMA FirstStep ==
  ASSUME StepsInv, NEW t \in Tasks, todo[t] # <<>>
  PROVE  /\ Head(todo[t]) = todo[t][1] /\ 1 \in DOMAIN todo[t]
         /\ \A i \in DOMAIN todo[t] : todo[t][i] = "delete" => i = 1
         /\ Head(todo[t]) \in {"setOff", "flagOn", "flagOff"} => t = App
<1>1. CASE t = App
  BY <1>1, StepPlaces DEF StepsInv
<1>2. ASSUME NEW l \in Links, t = <<"conn", l>> PROVE todo[t] \in ConnSteps
  BY <1>2 DEF StepsInv
<1>3. ASSUME NEW l \in Links, t = <<"disc", l>> PROVE todo[t] \in DiscSteps
  BY <1>3 DEF StepsInv
<1>4. ASSUME NEW l \in Links, t \in {<<"ltk", l>>, <<"close", l>>} PROVE todo[t] \in {<<"find">>, <<"close">>}
  BY <1>4 DEF StepsInv
<1> QED
  BY <1>1, <1>2, <1>3, <1>4, StepPlaces, TaskKinds

\* Task t is given other steps.
LEMMA StepsGiven ==
  ASSUME HostTypes, StepsInv, NEW t \in Tasks, NEW q, todo' = [todo EXCEPT ![t] = q],
         Fits(t, q), t = App /\ q = <<"setOff">> => ~ adv', t # App => adv' = adv
  PROVE  StepsInv'
<1>1. todo'[t] = q /\ \A s \in Tasks : s # t => todo'[s] = todo[s]
  BY DEF HostTypes
<1>2. \A s \in Tasks : Fits(s, todo'[s])
  BY <1>1, StepsFit
<1>3. todo'[App] = <<"setOff">> => ~ adv'
  BY <1>1, StepsFit, TaskPairs
<1> QED
  BY <1>2, <1>3, TaskPairs DEF StepsInv, Fits


\* Task t takes a step.
LEMMA StepsAdvance ==
  ASSUME HostTypes, StepsInv, NEW t \in Tasks, todo[t] # <<>>, Advance(t), UNCHANGED adv,
         Head(todo[t]) # "flagOff"
  PROVE  StepsInv'
<1>1. Fits(t, todo[t])
  BY StepsFit
<1>2. PICK q : q = Tail(todo[t])
  OBVIOUS
<1>3. todo' = [todo EXCEPT ![t] = q] /\ Fits(t, q)
  BY <1>1, <1>2, FitsTail DEF Advance
<1>4. t = App => q # <<"setOff">>
  BY <1>2, StepTails DEF StepsInv
<1> QED
  BY <1>3, <1>4, StepsGiven

\* Every step of the program leaves the tasks with some of their steps.
LEMMA StepsStep ==
  ASSUME HostInv, OneEnd, ReplyInv, StepsInv, SetInv, [Next]_vars
  PROVE  StepsInv'
<1>1. HostTypes
  BY DEF HostInv
<1>2. ASSUME UNCHANGED <<todo, adv>> PROVE StepsInv'
  BY <1>2 DEF StepsInv
<1>3. CASE UNCHANGED vars
  BY <1>2, <1>3 DEF vars, host
<1>4. CASE MainReadReply \/ MainReadAcl \/ MainLock \/ MainSend
  BY <1>2, <1>4 DEF MainReadReply, MainReadAcl, MainLock, MainSend, host
<1>5. CASE MainReadEvent
  <2>1. PICK k \in {"conn", "disc", "ltk"}, l \in Links : todo' = [todo EXCEPT ![<<k, l>>] = Program[k]]
    BY <1>5, EventRead
  <2>2. UNCHANGED adv
    BY <1>5 DEF MainReadEvent
  <2>3. <<k, l>> \in Tasks /\ <<k, l>> # App
    BY TaskPairs
  <2>4. Fits(<<k, l>>, Program[k])
    <3>1. Program["conn"] \in ConnSteps /\ Program["disc"] \in DiscSteps /\ Program["ltk"] \in {<<>>, <<"find">>}
      BY ProgramHeads DEF ConnSteps, DiscSteps
    <3> QED
      BY <2>3, <3>1, TaskPairs DEF Fits
  <2> QED
    BY <1>1, <2>1, <2>2, <2>3, <2>4, StepsGiven
<1>6. ASSUME NEW t \in Tasks, TaskStep(t) PROVE StepsInv'
  <2>1. CASE Return(t)
    <3>1. t \in waiting /\ Advance(t) /\ UNCHANGED adv
      BY <2>1 DEF Return
    <3>2. todo[t] # <<>>
      BY <1>1, <3>1 DEF HostTypes
    <3>3. Head(todo[t]) # "flagOff"
      BY <3>1 DEF SetInv
    <3> QED
      BY <1>1, <3>1, <3>2, <3>3, StepsAdvance
  <2>2. CASE setAdvertiseEnable(t)
    <3>1. todo[t] # <<>> /\ Head(todo[t]) # "flagOff" /\ UNCHANGED adv /\ (Advance(t) \/ UNCHANGED todo)
      BY <2>2 DEF setAdvertiseEnable, At
    <3> QED
      BY <1>1, <1>2, <3>1, StepsAdvance
  <2> QED
    BY <1>6, <2>1, <2>2 DEF TaskStep
<1>7. ASSUME NEW l \in Links, Insert(l) \/ Serve(l) \/ LtkNegReply(l) \/ Close(l) PROVE StepsInv'
  <2>1. UNCHANGED adv
    BY <1>7 DEF Insert, Serve, LtkNegReply, Close
  <2>2. \/ UNCHANGED todo
        \/ \E k \in Kinds : LET t == <<k, l>> IN
             Advance(t) /\ todo[t] # <<>> /\ Head(todo[t]) \in {"insert", "serve", "find", "close"}
    BY <1>7 DEF Insert, Serve, LtkNegReply, Close, At, Kinds
  <2>3. ASSUME NEW k \in Kinds, Advance(<<k, l>>), todo[<<k, l>>] # <<>>,
               Head(todo[<<k, l>>]) \in {"insert", "serve", "find", "close"}
        PROVE  StepsInv'
    <3>1. Head(todo[<<k, l>>]) # "flagOff" /\ <<k, l>> \in Tasks
      BY <2>3, TaskPairs
    <3> QED
      BY <1>1, <2>1, <2>3, <3>1, StepsAdvance
  <2> QED
    BY <1>2, <2>1, <2>2, <2>3
<1>8. ASSUME NEW l \in Links, Accept(l) PROVE StepsInv'
  <2>1. UNCHANGED adv /\ <<"conn", l>> \in Tasks /\ <<"conn", l>> # App
    BY <1>8, TaskPairs DEF Accept
  <2>2. PICK q \in {<<"serve", "close">>, <<"serve">>, <<>>} : todo' = [todo EXCEPT ![<<"conn", l>>] = q]
    BY <1>8 DEF Accept
  <2>3. Fits(<<"conn", l>>, q)
    BY <2>2, TaskPairs DEF Fits, ConnSteps
  <2> QED
    BY <1>1, <2>1, <2>2, <2>3, StepsGiven
<1>9. ASSUME NEW l \in Links, Delete(l) PROVE StepsInv'
  <2>1. UNCHANGED adv /\ <<"disc", l>> \in Tasks /\ <<"disc", l>> # App
    BY <1>9, TaskPairs DEF Delete
  <2>2. /\ todo[<<"disc", l>>] # <<>> /\ Head(todo[<<"disc", l>>]) # "flagOff"
        /\ todo' = [todo EXCEPT ![<<"disc", l>>] = <<>>] \/ Advance(<<"disc", l>>)
    BY <1>9 DEF Delete, At
  <2>3. Fits(<<"disc", l>>, <<>>)
    BY TaskPairs DEF Fits, DiscSteps
  <2> QED
    BY <1>1, <2>1, <2>2, <2>3, StepsGiven, StepsAdvance
<1>10. CASE Advertise \/ StopAdvertising \/ Connect
  <2>1. PICK q \in {<<"setOff", "param", "restore", "flagOn", "setOn">>, <<"flagOff", "setOff">>, <<"connect">>} :
          StartApp(q)
    BY <1>10 DEF Advertise, StopAdvertising, Connect
  <2>2. todo' = [todo EXCEPT ![App] = q] /\ App \in Tasks
    BY <2>1, TaskPairs DEF StartApp
  <2>3. Fits(App, q) /\ q # <<"setOff">>
    BY <2>1, TaskPairs DEF Fits, AppSteps
  <2> QED
    BY <1>1, <2>2, <2>3, StepsGiven
<1>11. CASE SetFlag
  <2>1. /\ todo[App] # <<>> /\ Head(todo[App]) \in {"flagOn", "flagOff"}
        /\ adv' = (Head(todo[App]) = "flagOn") /\ todo' = [todo EXCEPT ![App] = Tail(todo[App])]
    BY <1>11 DEF SetFlag, At, Advance
  <2>2. todo[App] \in {<<"flagOn", "setOn">>, <<"flagOff", "setOff">>}
    BY <2>1, StepPlaces DEF StepsInv
  <2>3. Tail(todo[App]) \in AppSteps /\ (Tail(todo[App]) = <<"setOff">> => ~ adv')
    <3>1. Head(<<"flagOn", "setOn">>) = "flagOn" /\ Head(<<"flagOff", "setOff">>) = "flagOff"
      OBVIOUS
    <3> QED
      BY <2>1, <2>2, <3>1, StepTails DEF StepsInv
  <2>4. Fits(App, Tail(todo[App])) /\ App \in Tasks
    BY <2>3, TaskPairs DEF Fits
  <2> QED
    BY <1>1, <2>1, <2>3, <2>4, StepsGiven
<1>12. CASE Restore
  <2>1. /\ todo[App] # <<>> /\ Head(todo[App]) = "restore" /\ UNCHANGED adv
        /\ \/ todo' = [todo EXCEPT ![App] = Tail(todo[App])]
           \/ todo' = [todo EXCEPT ![App] = <<"setOn">> \o Tail(todo[App])]
    BY <1>12 DEF Restore, At
  <2>2. todo[App] = <<"restore", "flagOn", "setOn">>
    BY <2>1, StepPlaces DEF StepsInv
  <2>3. Tail(todo[App]) = <<"flagOn", "setOn">> /\ <<"setOn">> \o Tail(todo[App]) = <<"setOn", "flagOn", "setOn">>
    <3>1. Tail(<<"restore", "flagOn", "setOn">>) = <<"flagOn", "setOn">>
      OBVIOUS
    <3> QED
      BY <2>2, <3>1, RestoredSteps
  <2>4. \A q \in {<<"flagOn", "setOn">>, <<"setOn", "flagOn", "setOn">>} : Fits(App, q) /\ q # <<"setOff">>
    BY TaskPairs DEF Fits, AppSteps
  <2>5. PICK q \in {<<"flagOn", "setOn">>, <<"setOn", "flagOn", "setOn">>} : todo' = [todo EXCEPT ![App] = q]
    BY <2>1, <2>3
  <2> QED
    BY <1>1, <2>4, <2>5, StepsGiven, TaskPairs
<1>13. CASE SendCommand
  BY <1>2, <1>13 DEF SendCommand
<1>14. ASSUME NEW l \in Links, CancelConnection(l) PROVE StepsInv'
  <2>1. UNCHANGED adv /\ todo' = [todo EXCEPT ![<<"close", l>>] = <<"close">>]
    BY <1>14 DEF CancelConnection
  <2>2. <<"close", l>> \in Tasks /\ <<"close", l>> # App /\ Fits(<<"close", l>>, <<"close">>)
    BY TaskPairs DEF Fits
  <2> QED
    BY <1>1, <2>1, <2>2, StepsGiven
<1>15. CASE Exec \/ \E l \in Links : LinkUp(l) \/ PeerData(l) \/ LtkRequest(l) \/ LinkDown(l)
  BY <1>2, <1>15 DEF Exec, LinkUp, PeerData, LtkRequest, LinkDown, host
<1> QED
  BY <1>3, <1>4, <1>5, <1>6, <1>7, <1>8, <1>9, <1>10, <1>11, <1>12, <1>13, <1>14, <1>15
     DEF Next, MainStep, AppStep, LinkStep
-----------------------------------------------------------------------------
\* No command is sent or executed.
LEMMA SetSame ==
  ASSUME ReplyInv, SetInv, UNCHANGED <<waiting, cmds>>,
         \A s \in waiting : Head(todo'[s]) = Head(todo[s])
  PROVE  SetInv'
BY DEF SetInv, ReplyInv

\* Task t sends a command.
LEMMA SetSent ==
  ASSUME HostTypes, ReplyInv, SetInv, NEW t \in Tasks, t \notin waiting, NEW op \in Ops, Send(t, op),
         UNCHANGED todo, Head(todo[t]) # "flagOff",
         \A o \in {"setOn", "setOff"} : op = o <=> Head(todo[t]) = o
  PROVE  SetInv'
<1>1. \A i \in DOMAIN cmds' : \/ \E j \in DOMAIN cmds : cmds'[i] = cmds[j]
                              \/ cmds'[i].t = t /\ cmds'[i].op = op
  BY CmdSent
<1>2. waiting' = waiting \cup {t}
  BY DEF Send
<1>3. \A s \in waiting' : Head(todo'[s]) # "flagOff"
  BY <1>2 DEF SetInv
<1>4. ASSUME NEW i \in DOMAIN cmds', NEW o \in {"setOn", "setOff"}
      PROVE  cmds'[i].op = o <=> Head(todo'[cmds'[i].t]) = o
  BY <1>1 DEF SetInv
<1> QED
  BY <1>3, <1>4 DEF SetInv

\* Every step keeps the commands to set advertising with their senders.
LEMMA SetStep ==
  ASSUME HostInv, OneEnd, ReplyInv, StepsInv, SetInv, [Next]_vars
  PROVE  SetInv'
<1>1. HostTypes
  BY DEF HostInv
<1>2. ASSUME NEW t \in Tasks, t \notin waiting, NEW q, todo' = [todo EXCEPT ![t] = q],
             UNCHANGED <<waiting, cmds>>
      PROVE  SetInv'
  <2>1. \A s \in waiting : todo'[s] = todo[s]
    BY <1>1, <1>2 DEF HostTypes
  <2> QED
    BY <1>2, <2>1, SetSame
<1>3. CASE UNCHANGED vars
  BY <1>3, SetSame DEF vars, host, ctrl
<1>4. CASE MainReadReply \/ MainReadAcl \/ MainLock \/ MainSend
  BY <1>4, SetSame DEF MainReadReply, MainReadAcl, MainLock, MainSend, host, ctrl
<1>5. CASE MainReadEvent
  <2>1. PICK k \in {"conn", "disc", "ltk"}, l \in Links :
           /\ k \in {"conn", "disc"} => todo[<<k, l>>] = <<>>
           /\ todo'[<<k, l>>] = Program[k] /\ \A s \in Tasks : s # <<k, l>> => todo'[s] = todo[s]
           /\ UNCHANGED <<waiting, answered, cmds>>
    BY <1>5, EventRead
  <2>2. \A s \in waiting : s \in Tasks /\ todo[s] # <<>>
    BY <1>1 DEF HostTypes
  <2>3. ASSUME <<k, l>> \in waiting PROVE todo'[<<k, l>>] = todo[<<k, l>>]
    BY <2>1, <2>2, <2>3, ProgramHeads DEF StepsInv
  <2>4. \A s \in waiting : todo'[s] = todo[s]
    BY <2>1, <2>2, <2>3
  <2> QED
    BY <2>1, <2>4, SetSame
<1>6. ASSUME NEW t \in Tasks, TaskStep(t) PROVE SetInv'
  <2>1. CASE Return(t)
    <3>1. t \in answered /\ waiting' = waiting \ {t} /\ UNCHANGED cmds /\ todo' = [todo EXCEPT ![t] = Tail(todo[t])]
      BY <2>1 DEF Return, ctrl, Advance
    <3>2. \A s \in waiting : s # t => todo'[s] = todo[s]
      BY <1>1, <3>1 DEF HostTypes
    <3>3. \A i \in DOMAIN cmds : cmds[i].t \in waiting /\ cmds[i].t # t
      BY <3>1 DEF ReplyInv
    <3> QED
      BY <3>1, <3>2, <3>3 DEF SetInv
  <2>2. CASE setAdvertiseEnable(t)
    <3>1. t \notin waiting /\ Head(todo[t]) \in {"setOn", "setOff"}
      BY <2>2 DEF setAdvertiseEnable, At
    <3>2. \/ Advance(t) /\ UNCHANGED <<waiting, cmds>>
          \/ Send(t, Head(todo[t])) /\ UNCHANGED todo
      BY <2>2 DEF setAdvertiseEnable
    <3>3. Head(todo[t]) \in Ops /\ Head(todo[t]) # "flagOff"
      BY <3>1 DEF Ops
    <3>4. CASE Advance(t) /\ UNCHANGED <<waiting, cmds>>
      BY <1>2, <3>1, <3>4 DEF Advance
    <3>5. CASE Send(t, Head(todo[t])) /\ UNCHANGED todo
      BY <1>1, <3>1, <3>3, <3>5, SetSent
    <3> QED
      BY <3>2, <3>4, <3>5
  <2> QED
    BY <1>6, <2>1, <2>2 DEF TaskStep
<1>7. ASSUME NEW l \in Links, LinkStep(l) PROVE SetInv'
  <2>1. \E k \in Kinds : LET t == <<k, l>> IN
          /\ t \notin waiting
          /\ \/ UNCHANGED <<todo, waiting, cmds>>
             \/ UNCHANGED <<waiting, cmds>> /\ \E q : todo' = [todo EXCEPT ![t] = q]
             \/ UNCHANGED todo /\ Head(todo[t]) \in {"find", "close"}
                /\ \E op \in {"ltkneg", "disconnect"} : Send(t, op)
    <3>1. CASE Insert(l)
      BY <3>1 DEF Insert, At, Advance, Kinds, ctrl
    <3>2. CASE Accept(l)
      BY <3>2 DEF Accept, At, Advance, Kinds, ctrl
    <3>3. CASE Serve(l)
      BY <3>3 DEF Serve, At, Advance, Kinds, ctrl
    <3>4. CASE Delete(l)
      BY <3>4 DEF Delete, At, Advance, Kinds, ctrl
    <3>5. CASE LtkNegReply(l)
      BY <3>5 DEF LtkNegReply, At, Advance, Kinds
    <3>6. CASE Close(l)
      BY <3>6 DEF Close, At, Advance, Kinds
    <3> QED
      BY <1>7, <3>1, <3>2, <3>3, <3>4, <3>5, <3>6 DEF LinkStep
  <2>2. PICK t \in Tasks :
          /\ t \notin waiting
          /\ \/ UNCHANGED <<todo, waiting, cmds>>
             \/ UNCHANGED <<waiting, cmds>> /\ \E q : todo' = [todo EXCEPT ![t] = q]
             \/ UNCHANGED todo /\ Head(todo[t]) \in {"find", "close"}
                /\ \E op \in {"ltkneg", "disconnect"} : Send(t, op)
    BY <2>1, TaskPairs
  <2>3. CASE UNCHANGED <<todo, waiting, cmds>>
    BY <2>3, SetSame
  <2>4. ASSUME UNCHANGED <<waiting, cmds>>, NEW q, todo' = [todo EXCEPT ![t] = q] PROVE SetInv'
    BY <1>2, <2>2, <2>4
  <2>5. ASSUME UNCHANGED todo, Head(todo[t]) \in {"find", "close"}, NEW op \in {"ltkneg", "disconnect"}, Send(t, op)
        PROVE  SetInv'
    <3>1. op \in Ops /\ Head(todo[t]) # "flagOff" /\ \A o \in {"setOn", "setOff"} : op # o /\ Head(todo[t]) # o
      BY <2>5 DEF Ops
    <3> QED
      BY <1>1, <2>2, <2>5, <3>1, SetSent
  <2> QED
    BY <2>2, <2>3, <2>4, <2>5
<1>8. CASE Advertise \/ StopAdvertising \/ Connect \/ SetFlag \/ Restore
  <2>1. PICK q : todo' = [todo EXCEPT ![App] = q]
    BY <1>8 DEF Advertise, StopAdvertising, Connect, StartApp, SetFlag, Restore, Advance
  <2>2. UNCHANGED <<waiting, cmds>> /\ App \notin waiting
    BY <1>1, <1>8 DEF Advertise, StopAdvertising, Connect, StartApp, SetFlag, Restore, At, ctrl, HostTypes
  <2> QED
    BY <1>2, <2>1, <2>2, TaskPairs
<1>9. CASE SendCommand
  <2>1. App \notin waiting /\ Head(todo[App]) \in {"param", "connect"} /\ UNCHANGED todo
        /\ Send(App, Head(todo[App]))
    BY <1>9 DEF SendCommand, At
  <2>2. Head(todo[App]) \in Ops /\ Head(todo[App]) # "flagOff" /\ App \in Tasks
    BY <2>1, TaskPairs DEF Ops
  <2> QED
    BY <1>1, <2>1, <2>2, SetSent
<1>10. ASSUME NEW l \in Links, CancelConnection(l) PROVE SetInv'
  <2>1. /\ todo' = [todo EXCEPT ![<<"close", l>>] = <<"close">>] /\ <<"close", l>> \in Tasks
        /\ UNCHANGED <<waiting, cmds>> /\ <<"close", l>> \notin waiting
    BY <1>1, <1>10, TaskPairs DEF CancelConnection, ctrl, HostTypes
  <2> QED
    BY <1>2, <2>1
<1>11. CASE \E l \in Links : LinkUp(l) \/ PeerData(l) \/ LtkRequest(l) \/ LinkDown(l)
  BY <1>11, SetSame DEF LinkUp, PeerData, LtkRequest, LinkDown, host
<1>12. CASE Exec
  <2>1. PICK c \in [t : Tasks, op : Ops], r \in Packets, q \in Seq(Packets) : Executed(c, r, q)
    BY <1>1, <1>12, ExecFacts
  <2>2. /\ \A i \in DOMAIN cmds' : i + 1 \in DOMAIN cmds /\ cmds'[i] = cmds[i + 1]
        /\ UNCHANGED <<todo, waiting>>
    BY <2>1 DEF Executed
  <2> QED
    BY <2>2 DEF SetInv
<1> QED
  BY <1>3, <1>4, <1>5, <1>6, <1>7, <1>8, <1>9, <1>10, <1>11, <1>12 DEF Next, MainStep, AppStep
-----------------------------------------------------------------------------
\* Task t moves: what the others will do stays.
LEMMA OthersComing ==
  ASSUME HostTypes, NEW t \in Tasks, NEW q, todo' = [todo EXCEPT ![t] = q],
         UNCHANGED cmds, waiting' \subseteq waiting
  PROVE  \A s \in Tasks : s # t /\ Coming(s) => Coming(s)'
<1>1. \A s \in Tasks : s # t => todo'[s] = todo[s]
  BY DEF HostTypes
<1> QED
  BY <1>1 DEF Coming

\* Task t takes a step that is not to set advertising on, or that is done.
LEMMA AdvanceComing ==
  ASSUME HostTypes, StepsInv, NEW t \in Tasks, todo[t] # <<>>, Advance(t),
         UNCHANGED cmds, waiting' \subseteq waiting, t \notin waiting',
         Head(todo[t]) # "setOn" \/ (t \in waiting /\ \A j \in DOMAIN cmds : cmds[j].t # t)
  PROVE  \A s \in Tasks : Coming(s) => Coming(s)'
<1>1. PICK q : q = Tail(todo[t])
  OBVIOUS
<1>2. todo' = [todo EXCEPT ![t] = q] /\ todo'[t] = q /\ todo[t] \in Seq(Steps)
  BY <1>1 DEF Advance, HostTypes
<1>3. /\ Head(todo[t]) = todo[t][1]
      /\ \A i \in DOMAIN todo[t] : todo[t][i] = "delete" => i = 1
  BY FirstStep
<1>4. \A i \in DOMAIN todo[t] : i # 1 => i - 1 \in DOMAIN q /\ q[i - 1] = todo[t][i] /\ 1 \in DOMAIN q
  BY <1>1, <1>2
<1>5. 1 \in DOMAIN q => q[1] = todo[t][2] /\ 2 \in DOMAIN todo[t]
  BY <1>1, <1>2
<1>6. Coming(t) => Coming(t)'
  <2>1. SUFFICES ASSUME NEW i \in DOMAIN todo[t], todo[t][i] = "setOn",
                        i = 1 /\ t \in waiting => \E j \in DOMAIN cmds : cmds[j].t = t
                 PROVE  Coming(t)'
    BY DEF Coming
  <2>2. i # 1
    BY <1>3, <2>1
  <2>3. i - 1 \in DOMAIN q /\ q[i - 1] = "setOn" /\ q[1] # "delete"
    BY <1>3, <1>4, <1>5, <2>1, <2>2
  <2> QED
    BY <1>2, <2>3 DEF Coming
<1>7. \A s \in Tasks : s # t /\ Coming(s) => Coming(s)'
  BY <1>2, OthersComing
<1> QED
  BY <1>6, <1>7

\* Task t sends the command of its step.
LEMMA SentComing ==
  ASSUME HostTypes, StepsInv, NEW t \in Tasks, NEW op \in Ops, Send(t, op), UNCHANGED todo
  PROVE  \A s \in Tasks : Coming(s) => Coming(s)'
<1>1. PICK c : c = [t |-> t, op |-> op]
  OBVIOUS
<1>2. c \in [t : Tasks, op : Ops] /\ c.t = t
  BY <1>1
<1>3. cmds' = Append(cmds, c) /\ waiting' = waiting \cup {t} /\ cmds \in Seq([t : Tasks, op : Ops])
  BY <1>1 DEF Send, HostTypes
<1>4. /\ \A j \in DOMAIN cmds : j \in DOMAIN cmds' /\ cmds'[j] = cmds[j]
      /\ Len(cmds) + 1 \in DOMAIN cmds' /\ cmds'[Len(cmds) + 1] = c
  BY <1>2, <1>3
<1> QED
  BY <1>2, <1>3, <1>4 DEF Coming

\* Nothing that is to come is lost, and nothing else gets worse.
LEMMA ResumeSame ==
  ASSUME ResumeInv, \A s \in Tasks : Coming(s) => Coming(s)',
         \A l \in Links : InStream("conn", l) => InStream("conn", l)',
         adv' => adv, ctrlAdv => ctrlAdv', UNCHANGED conns
  PROVE  ResumeInv'
<1>1. NumConns' = NumConns
  BY DEF NumConns
<1> QED
  BY <1>1 DEF ResumeInv

\* A task that has nothing to set on takes up other steps.
LEMMA ResumeGiven ==
  ASSUME HostTypes, ResumeInv, NEW t \in Tasks, NEW q, todo' = [todo EXCEPT ![t] = q],
         \A i \in DOMAIN todo[t] : todo[t][i] # "setOn" \/ todo[t][1] = "delete",
         UNCHANGED <<cmds, waiting, stream, adv, ctrlAdv, conns>>
  PROVE  ResumeInv'
<1>1. \A s \in Tasks : s # t /\ Coming(s) => Coming(s)'
  BY OthersComing
<1>2. ~ Coming(t)
  BY DEF Coming
<1>3. \A l \in Links : InStream("conn", l) => InStream("conn", l)'
  BY DEF InStream
<1> QED
  BY <1>1, <1>2, <1>3, ResumeSame

\* Every step keeps it: a command to resume is on its way wherever one is needed.
LEMMA ResumeStep ==
  ASSUME HostInv, OneEnd, ReplyInv, StepsInv, SetInv, ResumeInv, [Next]_vars
  PROVE  ResumeInv'
<1>1. HostTypes
  BY DEF HostInv
<1>2. ASSUME UNCHANGED stream PROVE \A l \in Links : InStream("conn", l) => InStream("conn", l)'
  BY <1>2 DEF InStream
<1>3. ASSUME UNCHANGED <<todo, waiting, cmds>> PROVE \A s \in Tasks : Coming(s) => Coming(s)'
  BY <1>3 DEF Coming
<1>4. CASE UNCHANGED vars \/ MainLock \/ MainSend
  <2>1. UNCHANGED <<todo, waiting, cmds, stream, adv, ctrlAdv, conns>>
    BY <1>4 DEF vars, host, ctrl, MainLock, MainSend
  <2> QED
    BY <1>2, <1>3, <2>1, ResumeSame
<1>5. CASE MainReadReply \/ MainReadAcl
  <2>1. /\ UNCHANGED <<todo, waiting, cmds, adv, ctrlAdv, conns>>
        /\ stream # <<>> /\ stream' = Tail(stream) /\ Head(stream).k # "conn"
    BY <1>5 DEF MainReadReply, MainReadAcl, host, ctrl
  <2>2. \A l \in Links : InStream("conn", l) => InStream("conn", l)'
    BY <1>1, <2>1, StreamRead DEF HostTypes
  <2> QED
    BY <1>3, <2>1, <2>2, ResumeSame
<1>6. CASE MainReadEvent
  <2>1. PICK k \in {"conn", "disc", "ltk"}, l \in Links :
           /\ stream # <<>> /\ Head(stream).k = k /\ Head(stream).l = l /\ stream' = Tail(stream)
           /\ k \in {"conn", "disc"} => todo[<<k, l>>] = <<>>
           /\ todo' = [todo EXCEPT ![<<k, l>>] = Program[k]]
           /\ todo'[<<k, l>>] = Program[k]
           /\ UNCHANGED <<waiting, cmds, conns>>
    BY <1>6, EventRead
  <2>2. UNCHANGED <<adv, ctrlAdv>> /\ <<k, l>> \in Tasks
    BY <1>6, TaskPairs DEF MainReadEvent, ctrl
  <2>3. \A s \in Tasks : s # <<k, l>> /\ Coming(s) => Coming(s)'
    BY <1>1, <2>1, <2>2, OthersComing
  <2>4. ~ Coming(<<k, l>>)
    <3>1. todo[<<k, l>>] \in {<<>>, <<"find">>}
      BY <2>1 DEF StepsInv
    <3>2. \A q \in {<<>>, <<"find">>} : \A i \in DOMAIN q : q[i] # "setOn"
      OBVIOUS
    <3> QED
      BY <3>1, <3>2 DEF Coming
  <2>5. CASE k # "conn"
    <3>1. \A m \in Links : InStream("conn", m) => InStream("conn", m)'
      BY <1>1, <2>1, <2>5, StreamRead DEF HostTypes
    <3> QED
      BY <2>1, <2>2, <2>3, <2>4, <3>1, ResumeSame
  <2>6. CASE k = "conn"
    <3>1. todo'[<<k, l>>] = <<"insert", "setOn", "accept">>
      BY <2>1, <2>6, ProgramHeads
    <3>2. PICK q : q = <<"insert", "setOn", "accept">>
      OBVIOUS
    <3>3. 2 \in DOMAIN q /\ q[2] = "setOn" /\ q[1] # "delete" /\ 2 # 1
      BY <3>2
    <3>4. Coming(<<k, l>>)'
      BY <3>1, <3>2, <3>3 DEF Coming
    <3> QED
      BY <2>2, <3>4 DEF ResumeInv
  <2> QED
    BY <2>5, <2>6
<1>7. ASSUME NEW t \in Tasks, Return(t) PROVE ResumeInv'
  <2>1. /\ t \in waiting /\ t \in answered /\ waiting' = waiting \ {t} /\ Advance(t)
        /\ UNCHANGED <<cmds, stream, adv, ctrlAdv, conns>>
    BY <1>7 DEF Return, ctrl
  <2>2. todo[t] # <<>> /\ \A j \in DOMAIN cmds : cmds[j].t # t
    BY <1>1, <2>1 DEF HostTypes, ReplyInv
  <2>3. waiting' \subseteq waiting /\ t \notin waiting'
    BY <2>1
  <2>4. \A s \in Tasks : Coming(s) => Coming(s)'
    BY <1>1, <2>1, <2>2, <2>3, AdvanceComing
  <2> QED
    BY <1>2, <2>1, <2>4, ResumeSame
<1>8. ASSUME NEW t \in Tasks, setAdvertiseEnable(t) PROVE ResumeInv'
  <2>1. /\ At(t, "setOn") \/ At(t, "setOff")
        /\ UNCHANGED <<stream, adv, ctrlAdv, conns>>
        /\ \/ Skip(At(t, "setOn"))
           \/ Send(t, Head(todo[t])) /\ UNCHANGED todo
    BY <1>8 DEF setAdvertiseEnable
  <2>2. CASE Skip(At(t, "setOn"))
    <3>1. NumConns' = MaxConn /\ ~ (NumConns' < MaxConn)
      BY <2>1, <2>2, HostAssumption DEF Skip, NumConns
    <3> QED
      BY <3>1 DEF ResumeInv
  <2>3. CASE Send(t, Head(todo[t])) /\ UNCHANGED todo
    <3>1. Head(todo[t]) \in Ops
      BY <2>1 DEF At, Ops
    <3>2. \A s \in Tasks : Coming(s) => Coming(s)'
      BY <1>1, <2>3, <3>1, SentComing
    <3> QED
      BY <1>2, <2>1, <3>2, ResumeSame
  <2> QED
    BY <2>1, <2>2, <2>3
<1>9. ASSUME NEW t \in Tasks, todo[t] # <<>>, Advance(t), t \notin waiting, Head(todo[t]) # "setOn",
             UNCHANGED <<waiting, cmds, stream, adv, ctrlAdv, conns>>
      PROVE  ResumeInv'
  <2>1. \A s \in Tasks : Coming(s) => Coming(s)'
    BY <1>1, <1>9, AdvanceComing
  <2> QED
    BY <1>2, <1>9, <2>1, ResumeSame
<1>10. ASSUME NEW l \in Links, Insert(l) PROVE ResumeInv'
  <2>1. /\ todo[<<"conn", l>>] # <<>> /\ Head(todo[<<"conn", l>>]) = "insert" /\ <<"conn", l>> \notin waiting
        /\ todo' = [todo EXCEPT ![<<"conn", l>>] = Tail(todo[<<"conn", l>>])] /\ UNCHANGED waiting
    BY <1>10 DEF Insert, At, Advance
  <2>2. todo[<<"conn", l>>] = <<"insert", "setOn", "accept">>
    <3>1. todo[<<"conn", l>>] \in ConnSteps
      BY DEF StepsInv
    <3> QED
      BY <2>1, <3>1, StepPlaces
  <2>3. <<"conn", l>> \in Tasks /\ todo'[<<"conn", l>>] = Tail(<<"insert", "setOn", "accept">>)
    BY <1>1, <2>1, <2>2, TaskPairs DEF HostTypes
  <2>4. PICK q : q = Tail(<<"insert", "setOn", "accept">>)
    OBVIOUS
  <2>5. 1 \in DOMAIN q /\ q[1] = "setOn" /\ q[1] # "delete"
    BY <2>4
  <2>6. Coming(<<"conn", l>>)'
    BY <2>1, <2>3, <2>4, <2>5 DEF Coming
  <2> QED
    BY <2>3, <2>6 DEF ResumeInv
<1>11. ASSUME NEW l \in Links, Delete(l) PROVE ResumeInv'
  <2>1. /\ todo[<<"disc", l>>] # <<>> /\ Head(todo[<<"disc", l>>]) = "delete" /\ <<"disc", l>> \notin waiting
        /\ UNCHANGED <<waiting, cmds, stream, adv, ctrlAdv>>
        /\ \/ todo' = [todo EXCEPT ![<<"disc", l>>] = <<>>] /\ UNCHANGED conns
           \/ todo' = [todo EXCEPT ![<<"disc", l>>] = Tail(todo[<<"disc", l>>])]
    BY <1>11 DEF Delete, At, Advance, ctrl
  <2>2. todo[<<"disc", l>>] = <<"delete", "setOn">> /\ <<"disc", l>> \in Tasks
    <3>1. todo[<<"disc", l>>] \in DiscSteps
      BY DEF StepsInv
    <3>2. todo[<<"disc", l>>] = <<"delete", "setOn">>
      BY <2>1, <3>1, StepPlaces
    <3> QED
      BY <3>2, TaskPairs
  <2>3. CASE todo' = [todo EXCEPT ![<<"disc", l>>] = <<>>] /\ UNCHANGED conns
    <3>1. todo[<<"disc", l>>][1] = "delete"
      BY <2>2
    <3> QED
      BY <1>1, <2>1, <2>2, <2>3, <3>1, ResumeGiven
  <2>4. CASE todo' = [todo EXCEPT ![<<"disc", l>>] = Tail(todo[<<"disc", l>>])]
    <3>1. todo'[<<"disc", l>>] = Tail(<<"delete", "setOn">>)
      BY <1>1, <2>2, <2>4 DEF HostTypes
    <3>2. PICK q : q = Tail(<<"delete", "setOn">>)
      OBVIOUS
    <3>3. 1 \in DOMAIN q /\ q[1] = "setOn" /\ q[1] # "delete"
      BY <3>2
    <3>4. Coming(<<"disc", l>>)'
      BY <2>1, <3>1, <3>2, <3>3 DEF Coming
    <3> QED
      BY <2>2, <3>4 DEF ResumeInv
  <2> QED
    BY <2>1, <2>3, <2>4
<1>12. ASSUME NEW l \in Links, Accept(l) PROVE ResumeInv'
  <2>1. /\ todo[<<"conn", l>>] # <<>> /\ Head(todo[<<"conn", l>>]) = "accept" /\ <<"conn", l>> \in Tasks
        /\ UNCHANGED <<waiting, cmds, stream, adv, ctrlAdv, conns>>
    BY <1>12, TaskPairs DEF Accept, At, ctrl
  <2>2. \A i \in DOMAIN todo[<<"conn", l>>] : todo[<<"conn", l>>][i] # "setOn"
    <3>1. todo[<<"conn", l>>] \in ConnSteps
      BY DEF StepsInv
    <3> QED
      BY <2>1, <3>1, StepPlaces
  <2>3. PICK q : todo' = [todo EXCEPT ![<<"conn", l>>] = q]
    BY <1>12 DEF Accept
  <2> QED
    BY <1>1, <2>1, <2>2, <2>3, ResumeGiven
<1>13. ASSUME NEW l \in Links, Serve(l) \/ LtkNegReply(l) \/ Close(l) PROVE ResumeInv'
  <2>1. UNCHANGED <<stream, adv, ctrlAdv, conns>>
    BY <1>13 DEF Serve, LtkNegReply, Close, ctrl
  <2>2. \E k \in Kinds : LET t == <<k, l>> IN
          /\ t \notin waiting /\ todo[t] # <<>> /\ Head(todo[t]) \in {"serve", "find", "close"}
          /\ \/ UNCHANGED <<todo, waiting, cmds>>
             \/ UNCHANGED <<waiting, cmds>> /\ Advance(t)
             \/ UNCHANGED todo /\ \E op \in {"ltkneg", "disconnect"} : Send(t, op)
    <3>1. CASE Serve(l)
      BY <3>1 DEF Serve, At, Kinds, ctrl
    <3>2. CASE LtkNegReply(l)
      BY <3>2 DEF LtkNegReply, At, Kinds
    <3>3. CASE Close(l)
      BY <3>3 DEF Close, At, Kinds
    <3> QED
      BY <1>13, <3>1, <3>2, <3>3
  <2>3. PICK t \in Tasks :
          /\ t \notin waiting /\ todo[t] # <<>> /\ Head(todo[t]) \in {"serve", "find", "close"}
          /\ \/ UNCHANGED <<todo, waiting, cmds>>
             \/ UNCHANGED <<waiting, cmds>> /\ Advance(t)
             \/ UNCHANGED todo /\ \E op \in {"ltkneg", "disconnect"} : Send(t, op)
    BY <2>2, TaskPairs
  <2>4. CASE UNCHANGED <<todo, waiting, cmds>>
    BY <1>2, <1>3, <2>1, <2>4, ResumeSame
  <2>5. CASE UNCHANGED <<waiting, cmds>> /\ Advance(t)
    BY <1>9, <2>1, <2>3, <2>5
  <2>6. ASSUME UNCHANGED todo, NEW op \in {"ltkneg", "disconnect"}, Send(t, op) PROVE ResumeInv'
    <3>1. op \in Ops
      BY DEF Ops
    <3>2. \A s \in Tasks : Coming(s) => Coming(s)'
      BY <1>1, <2>6, <3>1, SentComing
    <3> QED
      BY <1>2, <2>1, <3>2, ResumeSame
  <2> QED
    BY <2>3, <2>4, <2>5, <2>6
<1>14. CASE Advertise \/ StopAdvertising \/ Connect
  <2>1. PICK q : StartApp(q)
    BY <1>14 DEF Advertise, StopAdvertising, Connect
  <2>2. /\ todo[App] = <<>> /\ todo' = [todo EXCEPT ![App] = q] /\ App \in Tasks
        /\ UNCHANGED <<waiting, cmds, stream, adv, ctrlAdv, conns>>
    BY <2>1, TaskPairs DEF StartApp, ctrl
  <2>3. \A i \in DOMAIN todo[App] : todo[App][i] # "setOn"
    BY <2>2
  <2> QED
    BY <1>1, <2>2, <2>3, ResumeGiven
<1>15. ASSUME NEW l \in Links, CancelConnection(l) PROVE ResumeInv'
  <2>1. /\ todo[<<"close", l>>] = <<>> /\ todo' = [todo EXCEPT ![<<"close", l>>] = <<"close">>]
        /\ <<"close", l>> \in Tasks
        /\ UNCHANGED <<waiting, cmds, stream, adv, ctrlAdv, conns>>
    BY <1>15, TaskPairs DEF CancelConnection, ctrl
  <2>2. \A i \in DOMAIN todo[<<"close", l>>] : todo[<<"close", l>>][i] # "setOn"
    BY <2>1
  <2> QED
    BY <1>1, <2>1, <2>2, ResumeGiven
<1>16. CASE SetFlag
  <2>1. /\ todo[App] # <<>> /\ Head(todo[App]) \in {"flagOn", "flagOff"} /\ App \notin waiting
        /\ adv' = (Head(todo[App]) = "flagOn") /\ todo' = [todo EXCEPT ![App] = Tail(todo[App])]
        /\ UNCHANGED waiting
    BY <1>16 DEF SetFlag, At, Advance
  <2>2. CASE Head(todo[App]) = "flagOff"
    BY <2>1, <2>2 DEF ResumeInv
  <2>3. CASE Head(todo[App]) = "flagOn"
    <3>1. todo[App] = <<"flagOn", "setOn">>
      BY <2>1, <2>3, StepPlaces DEF StepsInv
    <3>2. App \in Tasks /\ todo'[App] = Tail(<<"flagOn", "setOn">>)
      BY <1>1, <2>1, <3>1, TaskPairs DEF HostTypes
    <3>3. PICK q : q = Tail(<<"flagOn", "setOn">>)
      OBVIOUS
    <3>4. 1 \in DOMAIN q /\ q[1] = "setOn" /\ q[1] # "delete"
      BY <3>3
    <3>5. Coming(App)'
      BY <2>1, <3>2, <3>3, <3>4 DEF Coming
    <3> QED
      BY <3>2, <3>5 DEF ResumeInv
  <2> QED
    BY <2>1, <2>2, <2>3
<1>17. CASE SendCommand
  <2>1. Send(App, Head(todo[App])) /\ UNCHANGED <<todo, stream, adv, ctrlAdv, conns>>
        /\ Head(todo[App]) \in {"param", "connect"}
    BY <1>17 DEF SendCommand, At
  <2>2. Head(todo[App]) \in Ops /\ App \in Tasks
    BY <2>1, TaskPairs DEF Ops
  <2>3. \A s \in Tasks : Coming(s) => Coming(s)'
    BY <1>1, <2>1, <2>2, SentComing
  <2> QED
    BY <1>2, <2>1, <2>3, ResumeSame
<1>18. CASE Restore
  <2>1. /\ todo[App] # <<>> /\ Head(todo[App]) = "restore" /\ App \notin waiting
        /\ UNCHANGED <<waiting, cmds, stream, adv, ctrlAdv, conns>>
        /\ \/ Advance(App)
           \/ todo' = [todo EXCEPT ![App] = <<"setOn">> \o Tail(todo[App])]
    BY <1>18 DEF Restore, At, Advance, ctrl
  <2>2. CASE Advance(App)
    BY <1>9, <2>1, <2>2, TaskPairs
  <2>3. CASE todo' = [todo EXCEPT ![App] = <<"setOn">> \o Tail(todo[App])]
    <3>1. App \in Tasks /\ todo'[App] = <<"setOn">> \o Tail(todo[App]) /\ Tail(todo[App]) \in Seq(Steps)
      BY <1>1, <2>1, <2>3, TaskPairs DEF HostTypes
    <3>2. PICK r : r = Tail(todo[App])
      OBVIOUS
    <3>3. PICK q : q = <<"setOn">> \o r
      OBVIOUS
    <3>4. 1 \in DOMAIN q /\ q[1] = "setOn" /\ q[1] # "delete"
      BY <3>1, <3>2, <3>3 DEF Steps
    <3>5. Coming(App)'
      BY <2>1, <3>1, <3>2, <3>3, <3>4 DEF Coming
    <3> QED
      BY <3>1, <3>5 DEF ResumeInv
  <2> QED
    BY <2>1, <2>2, <2>3
<1>19. ASSUME NEW l \in Links, LinkUp(l) PROVE ResumeInv'
  <2>1. PICK p : p = [k |-> "conn", l |-> l]
    OBVIOUS
  <2>2. p \in Packets /\ p.k = "conn" /\ p.l = l
    BY <2>1 DEF Packets
  <2>3. stream' = Append(stream, p) /\ stream \in Seq(Packets)
    BY <1>1, <1>19, <2>1 DEF LinkUp, HostTypes
  <2>4. Len(stream) + 1 \in DOMAIN stream' /\ stream'[Len(stream) + 1] = p
    BY <2>2, <2>3
  <2>5. InStream("conn", l)'
    BY <2>2, <2>4 DEF InStream
  <2> QED
    BY <2>5 DEF ResumeInv
<1>20. ASSUME NEW l \in Links, PeerData(l) \/ LtkRequest(l) \/ LinkDown(l) PROVE ResumeInv'
  <2>1. UNCHANGED <<todo, waiting, cmds, adv, ctrlAdv, conns>>
    BY <1>20 DEF PeerData, LtkRequest, LinkDown, host
  <2>2. PICK k \in {"conn", "acl", "ltk", "disc"}, q \in Seq(Packets) : Added(k, l, q)
    BY <1>1, <1>20, PacketAdded
  <2>3. \A m \in Links : InStream("conn", m) => InStream("conn", m)'
    BY <1>1, <2>2, StreamAdd DEF HostTypes, Added
  <2> QED
    BY <1>3, <2>1, <2>3, ResumeSame
<1>21. CASE Exec
  <2>1. PICK c \in [t : Tasks, op : Ops], r \in Packets, q \in Seq(Packets) : Executed(c, r, q)
    BY <1>1, <1>21, ExecFacts
  <2>2. /\ c = cmds[1] /\ 1 \in DOMAIN cmds /\ cmds # <<>>
        /\ \A i \in DOMAIN cmds' : i \in Nat /\ i + 1 \in DOMAIN cmds /\ i + 1 # 1 /\ cmds'[i] = cmds[i + 1]
        /\ UNCHANGED <<todo, waiting, conns>> /\ stream' = stream \o q
    BY <2>1 DEF Executed
  <2>3. /\ cmds' = Tail(cmds) /\ UNCHANGED adv
        /\ ctrlAdv' = IF c.op \in {"setOn", "setOff"} THEN c.op = "setOn" ELSE ctrlAdv
    <3>1. c = Head(cmds)
      BY <1>1, <2>2 DEF HostTypes
    <3> QED
      BY <1>21, <3>1 DEF Exec, host
  <2>4. \A i \in DOMAIN cmds : i # 1 => \E j \in DOMAIN cmds' : cmds'[j] = cmds[i]
    <3>1. \A i \in DOMAIN cmds : i # 1 => i - 1 \in DOMAIN cmds' /\ cmds'[i - 1] = cmds[i]
      BY <1>1, <2>2, <2>3 DEF HostTypes
    <3> QED
      BY <3>1
  <2>5. c.t \in Tasks /\ todo[c.t] # <<>> /\ \A i \in DOMAIN cmds : cmds[i].t = c.t => i = 1
    BY <1>1, <2>2 DEF ReplyInv, HostTypes
  <2>6. Head(todo[c.t]) = todo[c.t][1] /\ (Head(todo[c.t]) = "setOff" => c.t = App)
    BY <2>5, FirstStep
  <2>7. \A o \in {"setOn", "setOff"} : c.op = o <=> Head(todo[c.t]) = o
    BY <2>2 DEF SetInv
  <2>8. CASE c.op = "setOn"
    BY <2>3, <2>8 DEF ResumeInv
  <2>9. CASE c.op # "setOn"
    <3>1. todo[c.t][1] # "setOn"
      BY <2>6, <2>7, <2>9
    <3>2. ASSUME NEW s \in Tasks, Coming(s) PROVE Coming(s)'
      <4>1. PICK i \in DOMAIN todo[s] :
              /\ todo[s][1] # "delete" /\ todo[s][i] = "setOn"
              /\ i = 1 /\ s \in waiting => \E j \in DOMAIN cmds : cmds[j].t = s
        BY <3>2 DEF Coming
      <4>2. i = 1 /\ s \in waiting => \E j \in DOMAIN cmds' : cmds'[j].t = s
        <5>1. SUFFICES ASSUME i = 1, s \in waiting PROVE \E j \in DOMAIN cmds' : cmds'[j].t = s
          OBVIOUS
        <5>2. PICK j \in DOMAIN cmds : cmds[j].t = s
          BY <4>1, <5>1
        <5>3. s # c.t
          BY <3>1, <4>1, <5>1
        <5>4. j # 1
          BY <2>2, <5>2, <5>3
        <5> QED
          BY <2>4, <5>2, <5>4
      <4> QED
        BY <2>2, <4>1, <4>2 DEF Coming
    <3>3. \A m \in Links : InStream("conn", m) => InStream("conn", m)'
      BY <1>1, <2>2, StreamAdd DEF HostTypes
    <3>4. CASE c.op # "setOff"
      BY <2>2, <2>3, <2>9, <3>2, <3>3, <3>4, ResumeSame
    <3>5. CASE c.op = "setOff"
      <4>1. c.t = App /\ Head(todo[App]) = "setOff" /\ todo[App] # <<>>
        BY <2>5, <2>6, <2>7, <3>5
      <4>2. CASE todo[App] = <<"setOff">>
        BY <2>3, <4>2 DEF StepsInv, ResumeInv
      <4>3. CASE todo[App] # <<"setOff">>
        <5>1. 5 \in DOMAIN todo[App] /\ todo[App][5] = "setOn" /\ todo[App][1] # "delete" /\ 5 # 1
          BY <4>1, <4>3, StepPlaces DEF StepsInv
        <5>2. Coming(App)'
          BY <2>2, <5>1 DEF Coming
        <5> QED
          BY <5>2, TaskPairs DEF ResumeInv
      <4> QED
        BY <4>2, <4>3
    <3> QED
      BY <3>4, <3>5
  <2> QED
    BY <2>8, <2>9
<1> QED
  BY <1>4, <1>5, <1>6, <1>7, <1>8, <1>10, <1>11, <1>12, <1>13, <1>14, <1>15, <1>16, <1>17, <1>18, <1>19, <1>20, <1>21
     DEF Next, MainStep, AppStep, TaskStep, LinkStep

LEMMA AdvInit == Init => AdvInv
<1> SUFFICES ASSUME Init PROVE AdvInv
  OBVIOUS
<1>1. \A t \in Tasks : todo[t] = <<>>
  BY DEF Init
<1>2. StepsInv
  <2>1. \A l \in Links : /\ todo[<<"conn", l>>] = <<>> /\ todo[<<"disc", l>>] = <<>>
                         /\ todo[<<"ltk", l>>] = <<>> /\ todo[<<"close", l>>] = <<>>
    BY <1>1, TaskPairs
  <2>2. todo[App] = <<>> /\ <<>> # <<"setOff">>
    BY <1>1, TaskPairs
  <2> QED
    BY <2>1, <2>2 DEF StepsInv, ConnSteps, DiscSteps, AppSteps
<1>3. SetInv
  BY DEF Init, SetInv
<1>4. ResumeInv
  BY DEF Init, ResumeInv
<1> QED
  BY <1>2, <1>3, <1>4 DEF AdvInv

\* When nothing is under way, the table has no more connections than there are
\* links.
LEMMA TableOfLinks ==
  ASSUME HostInv, PromptInv, Quiet
  PROVE  Cardinality(Up) \in Nat /\ NumConns \in Nat /\ NumConns <= Cardinality(Up)
<1>1. \A l \in Links : ~ InStream("disc", l)
  BY DEF Quiet, InStream
<1>2. \A l \in Links : ~ ToDelete(l)
  <2>1. \A l \in Links : todo[<<"disc", l>>] = <<>> \/ Head(todo[<<"disc", l>>]) = "serve"
    BY TaskPairs DEF Quiet, At
  <2> QED
    BY <2>1 DEF ToDelete
<1>3. \A h \in Handles : conns[h] \in Links \cup {NoLink}
  BY DEF HostInv, HostTypes
<1>4. \A h \in Handles : conns[h] # NoLink => conns[h] \in Up
  BY <1>1, <1>2, <1>3 DEF PromptInv, LiveInv, Alive, Up
<1>5. PICK S : S = {h \in Handles : conns[h] # NoLink}
  OBVIOUS
<1>6. PICK f : f = [h \in S |-> conns[h]]
  OBVIOUS
<1>7. f \in [S -> Up] /\ \A h, g \in S : f[h] = f[g] => h = g
  <2>1. f \in [S -> Up]
    BY <1>4, <1>5, <1>6
  <2>2. \A h \in S : f[h] = conns[h] /\ Handle[conns[h]] = h
    BY <1>5, <1>6 DEF HostInv, TableInv
  <2> QED
    BY <2>1, <2>2
<1>8. f \in Injection(S, Up)
  BY <1>7 DEF Injection, IsInjective
<1>9. IsFiniteSet(Up)
  <2>1. Up \in SUBSET Links
    BY DEF Up
  <2> QED
    BY <2>1, HostAssumption, FS_Subset
<1>10. IsFiniteSet(S) /\ Cardinality(S) <= Cardinality(Up)
  BY <1>8, <1>9, FS_Injection
<1>11. Cardinality(S) \in Nat /\ Cardinality(Up) \in Nat
  BY <1>9, <1>10, FS_CardinalityType
<1>12. NumConns = Cardinality(S)
  BY <1>5 DEF NumConns
<1> QED
  BY <1>10, <1>11, <1>12

\* With Prompt, a device that has been told to advertise does when nothing is under
\* way and a connection is free, however links come and go, and whatever their
\* handlers, the application and the controller interleave: setAdvertiseEnable in
\* handleConnection and handleDisconnectionComplete, SendCmdWithAdvOff.
THEOREM AdvertisingResumes == ASSUME Prompt PROVE Spec => []AdvertisingRestored
<1>1. Init => HostInv /\ PromptInv /\ AdvInv
  BY HostInit, PromptInit, AdvInit
<1>2. HostInv /\ PromptInv /\ AdvInv /\ [Next]_vars => (HostInv /\ PromptInv /\ AdvInv)'
  <2>1. SUFFICES ASSUME HostInv, PromptInv, AdvInv, [Next]_vars PROVE (HostInv /\ PromptInv /\ AdvInv)'
    OBVIOUS
  <2>2. OneEnd /\ ReplyInv /\ StepsInv /\ SetInv /\ ResumeInv
    BY <2>1 DEF PromptInv, AdvInv
  <2>3. StepsInv' /\ SetInv' /\ ResumeInv'
    BY <2>1, <2>2, StepsStep, SetStep, ResumeStep
  <2> QED
    BY <2>1, <2>3, HostStep, PromptStep DEF AdvInv
<1>3. HostInv /\ PromptInv /\ AdvInv => AdvertisingRestored
  <2>1. SUFFICES ASSUME HostInv, PromptInv, AdvInv, Quiet, adv, Cardinality(Up) < MaxConn PROVE ctrlAdv
    BY DEF AdvertisingRestored
  <2>2. NumConns < MaxConn
    BY <2>1, TableOfLinks, HostAssumption
  <2>3. \A l \in Links : ~ InStream("conn", l)
    BY <2>1 DEF Quiet, InStream
  <2>4. ASSUME NEW t \in Tasks PROVE ~ Coming(t)
    <3>1. CASE todo[t] = <<>>
      BY <3>1 DEF Coming
    <3>2. CASE todo[t] # <<>>
      <4>1. Head(todo[t]) = "serve"
        BY <2>1, <3>2 DEF Quiet, At
      <4>2. StepsInv
        BY <2>1 DEF AdvInv
      <4>3. \A i \in DOMAIN todo[t] : todo[t][i] # "setOn"
        <5>1. ASSUME NEW l \in Links, t = <<"conn", l>> PROVE \A i \in DOMAIN todo[t] : todo[t][i] # "setOn"
          <6>1. todo[t] \in ConnSteps
            BY <4>2, <5>1 DEF StepsInv
          <6> QED
            BY <3>2, <4>1, <6>1, StepPlaces
        <5>2. ASSUME NEW l \in Links, t = <<"disc", l>> PROVE FALSE
          <6>1. todo[t] \in DiscSteps
            BY <4>2, <5>2 DEF StepsInv
          <6> QED
            BY <3>2, <4>1, <6>1, StepPlaces
        <5>3. ASSUME NEW l \in Links, t \in {<<"ltk", l>>, <<"close", l>>} PROVE FALSE
          <6>1. todo[t] \in {<<"find">>, <<"close">>}
            BY <3>2, <4>2, <5>3 DEF StepsInv
          <6> QED
            BY <4>1, <6>1
        <5>4. CASE t = App
          <6>1. todo[t] \in AppSteps
            BY <4>2, <5>4 DEF StepsInv
          <6> QED
            BY <3>2, <4>1, <6>1, StepPlaces
        <5> QED
          BY <5>1, <5>2, <5>3, <5>4, TaskKinds
      <4> QED
        BY <4>3 DEF Coming
    <3> QED
      BY <3>1, <3>2
  <2> QED
    BY <2>1, <2>2, <2>3, <2>4 DEF AdvInv, ResumeInv
<1> QED
  BY <1>1, <1>2, <1>3, PTL DEF Spec
=============================================================================
