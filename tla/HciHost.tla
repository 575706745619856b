------------------------------- MODULE HciHost -------------------------------
(***************************************************************************)
(* The HCI host (linux/hci.go): the main loop, the goroutines of the       *)
(* events it reads, the table of connections and the advertising state.    *)
(*                                                                         *)
(* mainLoop is the only reader of the socket.  It hands ACL data to the    *)
(* connection itself, holding connsMutex, and starts a goroutine for every *)
(* event, among them the answers to commands.  handleConnection,           *)
(* handleDisconnectionComplete, handleLTKRequest and conn.Close change or  *)
(* read the table under connsMutex; all but the first keep the mutex while *)
(* they wait for the answer to a command, as setAdvertiseEnable keeps      *)
(* advMutex.  The application advertises, stops advertising, connects and  *)
(* cancels connections.                                                    *)
(*                                                                         *)
(* A link is one connection from its beginning to its end, and stands also *)
(* for the conn made for it; links may share a handle, one after the other.*)
(* A goroutine is a task with the steps it has yet to take.  Commands are  *)
(* answered to the task that sent them (module HciCmd), and a conn's loop  *)
(* is the buffer of module L2cap, of which the call of updateConnection in *)
(* handleConnection is one more writer.  The controller is external.       *)
(***************************************************************************)
EXTENDS Naturals, Sequences, FiniteSets

CONSTANTS
  Links,    \* connections, in the order of nothing
  Handle,   \* Handle[l]: the connection handle of l
  Central,  \* the links of which we are the central; of the others, peripheral
  Known,    \* the links whose peer is in HCI.plist
  MaxConn,  \* HCI.maxConn
  DataCap,  \* the capacity of conn.dataCh
  Prompt,   \* links last until the goroutines that set them up have run
  CanClose, \* the links the application may close
  MaxData,  \* bound: ACL packets received on one link
  MaxApp,   \* bound: operations of the application
  NoLink

Kinds == {"conn", "disc", "ltk", "close"}
App == <<"app", NoLink>>
Main == <<"main", NoLink>>
Free == <<"free", NoLink>>
Tasks == (Kinds \X Links) \cup {App}
Handles == {Handle[l] : l \in Links}

ASSUME HostAssumption ==
  /\ NoLink \notin Links /\ IsFiniteSet(Links)
  /\ Central \subseteq Links /\ Known \subseteq Links /\ CanClose \subseteq Links
  /\ MaxConn \in Nat \ {0} /\ DataCap \in Nat /\ Prompt \in BOOLEAN
  /\ MaxData \in Nat /\ MaxApp \in Nat

\* The steps of the goroutines.
Steps == {"insert", "accept", "serve", "delete", "find", "close",
          "flagOn", "flagOff", "setOn", "setOff", "param", "restore", "connect"}
Ops == {"setOn", "setOff", "param", "connect", "disconnect", "ltkneg"}
Packets == [k : {"conn", "disc", "ltk", "acl"}, l : Links]
             \cup [k : {"reply"}, t : Tasks]

VARIABLES
  todo,       \* the steps each task has yet to take
  waiting,    \* the tasks that have sent a command and wait for its answer
  answered,   \* those among them whose answer mainLoop has read
  mpc, mlink, mconn, \* mainLoop: its place, whose data it carries, and to which conn
  connsMutex, \* its holder
  advMutex,   \* its holder
  conns,      \* HCI.conns: the conn of each handle
  closed,     \* the conns whose aclCh is closed
  data,       \* what each conn has received and its reader has not taken
  adv,        \* HCI.adv
  plistStuck, \* plistMutex is held for ever
  links,      \* the links as the controller knows them
  ctrlAdv,    \* the controller advertises
  creating,   \* the links the application has asked for
  cmds,       \* commands the controller has not executed
  stream,     \* packets from the controller that mainLoop has not read
  ndata,      \* ACL packets received on each link
  napp,       \* operations of the application so far
  dropped,    \* links with data or an end that found no connection
  refused     \* the controller has refused advertising parameters

host == <<todo, waiting, answered, connsMutex, advMutex, conns, closed, adv, plistStuck, napp>>
main == <<mpc, mlink, mconn>>
ctrl == <<links, ctrlAdv, creating, cmds, ndata, refused>>
vars == <<host, main, ctrl, data, stream, dropped>>

TypeOK ==
  /\ todo \in [Tasks -> Seq(Steps)]
  /\ answered \subseteq waiting /\ waiting \subseteq {t \in Tasks : todo[t] # <<>>}
  /\ mpc \in {"read", "lock", "send"}
  /\ mlink \in Links \cup {NoLink} /\ mconn \in Links \cup {NoLink}
  /\ connsMutex \in Tasks \cup {Main, Free}
  /\ advMutex \in Tasks \cup {Free}
  /\ conns \in [Handles -> Links \cup {NoLink}]
  /\ closed \subseteq Links
  /\ data \in [Links -> Seq(Links)]
  /\ adv \in BOOLEAN /\ plistStuck \in BOOLEAN
  /\ links \in [Links -> {"none", "up", "down"}]
  /\ ctrlAdv \in BOOLEAN /\ refused \in BOOLEAN
  /\ creating \subseteq Links
  /\ cmds \in Seq([t : Tasks, op : Ops])
  /\ stream \in Seq(Packets)
  /\ ndata \in [Links -> 0 .. MaxData]
  /\ napp \in 0 .. MaxApp
  /\ dropped \subseteq Links

Init ==
  /\ todo = [t \in Tasks |-> <<>>]
  /\ waiting = {} /\ answered = {}
  /\ mpc = "read" /\ mlink = NoLink /\ mconn = NoLink
  /\ connsMutex = Free /\ advMutex = Free
  /\ conns = [h \in Handles |-> NoLink] /\ closed = {}
  /\ data = [l \in Links |-> <<>>]
  /\ adv = FALSE /\ plistStuck = FALSE
  /\ links = [l \in Links |-> "none"] /\ ctrlAdv = FALSE /\ creating = {}
  /\ cmds = <<>> /\ stream = <<>>
  /\ ndata = [l \in Links |-> 0] /\ napp = 0
  /\ dropped = {} /\ refused = FALSE

\* Task t is about to take step s.
At(t, s) == todo[t] # <<>> /\ Head(todo[t]) = s /\ t \notin waiting

\* The connection found under the handle of link l.
Found(l) == conns[Handle[l]]
NumConns == Cardinality({h \in Handles : conns[h] # NoLink})

\* Cmd.Send, up to the wait for the answer.
Send(t, op) == cmds' = Append(cmds, [t |-> t, op |-> op]) /\ waiting' = waiting \cup {t}
Advance(t) == todo' = [todo EXCEPT ![t] = Tail(@)]
-----------------------------------------------------------------------------
(* mainLoop and handlePacket.                                              *)

\* Mutant: advertising is enabled before the connection is in the table.
Program_AdvFirst == [conn |-> <<"setOn", "insert", "accept">>, disc |-> <<"delete", "setOn">>,
                     ltk |-> <<"find">>]

\* The goroutine of an event.
Program == [conn |-> <<"insert", "setOn", "accept">>, disc |-> <<"delete", "setOn">>,
            ltk |-> <<"find">>]

\* go h.event.Dispatch(...)
MainReadEvent ==
  /\ mpc = "read" /\ stream # <<>> /\ Head(stream).k \in DOMAIN Program
  /\ LET p == Head(stream) IN todo' = [todo EXCEPT ![<<p.k, p.l>>] = Program[p.k]]
  /\ stream' = Tail(stream)
  /\ UNCHANGED <<waiting, answered, connsMutex, advMutex, conns, closed, adv, plistStuck,
                 napp, main, ctrl, data, dropped>>

\* The answer to a command; its goroutine meets the task that waits.
MainReadReply ==
  /\ mpc = "read" /\ stream # <<>> /\ Head(stream).k = "reply"
  /\ answered' = answered \cup {Head(stream).t}
  /\ stream' = Tail(stream)
  /\ UNCHANGED <<todo, waiting, connsMutex, advMutex, conns, closed, adv, plistStuck, napp,
                 main, ctrl, data, dropped>>

\* ACL data: handleL2CAP runs in mainLoop itself.
MainReadAcl ==
  /\ mpc = "read" /\ stream # <<>> /\ Head(stream).k = "acl"
  /\ mpc' = "lock" /\ mlink' = Head(stream).l
  /\ stream' = Tail(stream)
  /\ UNCHANGED <<host, mconn, ctrl, data, dropped>>

\* Mutant: the data goes to the first connection of the table.
MainLock_First ==
  /\ mpc = "lock" /\ connsMutex = Free
  /\ IF Found(mlink) = NoLink
     THEN /\ dropped' = dropped \cup {mlink}
          /\ mpc' = "read" /\ mlink' = NoLink
          /\ UNCHANGED <<connsMutex, mconn>>
     ELSE /\ connsMutex' = Main
          /\ mpc' = "send" /\ mconn' = conns[CHOOSE h \in Handles : conns[h] # NoLink]
          /\ UNCHANGED <<mlink, dropped>>
  /\ UNCHANGED <<todo, waiting, answered, advMutex, conns, closed, adv, plistStuck, napp,
                 ctrl, data, stream>>

\* handleL2CAP: the connection is looked up; if there is none the data is lost.
MainLock ==
  /\ mpc = "lock" /\ connsMutex = Free
  /\ IF Found(mlink) = NoLink
     THEN /\ dropped' = dropped \cup {mlink}
          /\ mpc' = "read" /\ mlink' = NoLink
          /\ UNCHANGED <<connsMutex, mconn>>
     ELSE /\ connsMutex' = Main
          /\ mpc' = "send" /\ mconn' = Found(mlink)
          /\ UNCHANGED <<mlink, dropped>>
  /\ UNCHANGED <<todo, waiting, answered, advMutex, conns, closed, adv, plistStuck, napp,
                 ctrl, data, stream>>

\* c.aclCh <- a: conn.loop holds one packet more than dataCh.
MainSend ==
  /\ mpc = "send" /\ Len(data[mconn]) <= DataCap
  /\ data' = [data EXCEPT ![mconn] = Append(@, mlink)]
  /\ mpc' = "read" /\ mlink' = NoLink /\ mconn' = NoLink
  /\ connsMutex' = Free
  /\ UNCHANGED <<todo, waiting, answered, advMutex, conns, closed, adv, plistStuck, napp,
                 ctrl, stream, dropped>>
-----------------------------------------------------------------------------
(* setAdvertiseEnable, and a task that gets its answer.                    *)

\* A deferred unlock when task t returns.
Unlocked(mutex, t) == IF mutex = t THEN Free ELSE mutex

\* Mutant: the last free connection counts as in use.
Skip_OffByOne(en) == en /\ adv /\ NumConns + 1 >= MaxConn

\* All connections are in use: nothing is sent, advertising stays as it is.
Skip(en) == en /\ adv /\ NumConns = MaxConn

setAdvertiseEnable(t) ==
  /\ At(t, "setOn") \/ At(t, "setOff")
  /\ advMutex = Free
  /\ IF Skip(At(t, "setOn"))
     THEN /\ Advance(t) /\ connsMutex' = Unlocked(connsMutex, t)
          /\ UNCHANGED <<waiting, advMutex, cmds>>
     ELSE /\ Send(t, Head(todo[t])) /\ advMutex' = t
          /\ UNCHANGED <<todo, connsMutex>>
  /\ UNCHANGED <<answered, conns, closed, adv, plistStuck, napp, main, links, ctrlAdv,
                 creating, ndata, refused, data, stream, dropped>>

\* Mutant: advMutex is not unlocked.
Return_KeepLock(t) ==
  /\ t \in waiting /\ t \in answered
  /\ waiting' = waiting \ {t} /\ answered' = answered \ {t}
  /\ Advance(t)
  /\ connsMutex' = Unlocked(connsMutex, t) /\ UNCHANGED advMutex
  /\ UNCHANGED <<conns, closed, adv, plistStuck, napp, main, ctrl, data, stream, dropped>>

\* Send returns; the mutexes the task held are released.
Return(t) ==
  /\ t \in waiting /\ t \in answered
  /\ waiting' = waiting \ {t} /\ answered' = answered \ {t}
  /\ Advance(t)
  /\ connsMutex' = Unlocked(connsMutex, t) /\ advMutex' = Unlocked(advMutex, t)
  /\ UNCHANGED <<conns, closed, adv, plistStuck, napp, main, ctrl, data, stream, dropped>>
-----------------------------------------------------------------------------
(* handleConnection.                                                       *)

\* newConn and its entry in the table.
Insert(l) ==
  /\ At(<<"conn", l>>, "insert") /\ connsMutex = Free
  /\ conns' = [conns EXCEPT ![Handle[l]] = l]
  /\ Advance(<<"conn", l>>)
  /\ UNCHANGED <<waiting, answered, connsMutex, advMutex, closed, adv, plistStuck, napp,
                 main, ctrl, data, stream, dropped>>

\* AcceptMasterHandler, or AcceptSlaveHandler when the peer is in plist; if it
\* is not, plistMutex is never unlocked.
Accept(l) ==
  LET t == <<"conn", l>>
  IN /\ At(t, "accept") /\ (l \in Central => ~ plistStuck)
     /\ todo' = [todo EXCEPT ![t] = IF l \notin Central THEN <<"serve", "close">>
                                    ELSE IF l \in Known THEN <<"serve">> ELSE <<>>]
     /\ plistStuck' = (plistStuck \/ (l \in Central /\ l \notin Known))
     /\ UNCHANGED <<waiting, answered, connsMutex, advMutex, conns, closed, adv, napp,
                    main, ctrl, data, stream, dropped>>

\* central.loop and peripheral.loop: Read, until the end of the connection.
Serve(l) ==
  LET t == <<"conn", l>>
  IN /\ At(t, "serve")
     /\ \/ data[l] # <<>> /\ data' = [data EXCEPT ![l] = Tail(@)] /\ UNCHANGED todo
        \/ data[l] = <<>> /\ l \in closed /\ Advance(t) /\ UNCHANGED data
     /\ UNCHANGED <<waiting, answered, connsMutex, advMutex, conns, closed, adv, plistStuck,
                    napp, main, ctrl, stream, dropped>>
-----------------------------------------------------------------------------
(* handleDisconnectionComplete, handleLTKRequest, conn.Close.              *)

\* Mutant: the connection stays in the table.
Delete_Keep(l) ==
  LET t == <<"disc", l>>
  IN /\ At(t, "delete") /\ connsMutex = Free
     /\ IF Found(l) = NoLink
        THEN /\ todo' = [todo EXCEPT ![t] = <<>>]
             /\ dropped' = dropped \cup {l}
             /\ UNCHANGED <<connsMutex, conns, closed>>
        ELSE /\ connsMutex' = t
             /\ closed' = closed \cup {Found(l)}
             /\ Advance(t) /\ UNCHANGED <<conns, dropped>>
     /\ UNCHANGED <<waiting, answered, advMutex, adv, plistStuck, napp, main, ctrl, data, stream>>

\* The connection is deleted and its aclCh closed; connsMutex is kept for
\* setAdvertiseEnable.
Delete(l) ==
  LET t == <<"disc", l>>
  IN /\ At(t, "delete") /\ connsMutex = Free
     /\ IF Found(l) = NoLink
        THEN /\ todo' = [todo EXCEPT ![t] = <<>>]
             /\ dropped' = dropped \cup {l}
             /\ UNCHANGED <<connsMutex, conns, closed>>
        ELSE /\ connsMutex' = t
             /\ conns' = [conns EXCEPT ![Handle[l]] = NoLink]
             /\ closed' = closed \cup {Found(l)}
             /\ Advance(t) /\ UNCHANGED dropped
     /\ UNCHANGED <<waiting, answered, advMutex, adv, plistStuck, napp, main, ctrl, data, stream>>

\* The long term key is refused, with connsMutex kept.
LtkNegReply(l) ==
  LET t == <<"ltk", l>>
  IN /\ At(t, "find") /\ connsMutex = Free
     /\ IF Found(l) = NoLink
        THEN Advance(t) /\ UNCHANGED <<connsMutex, waiting, cmds>>
        ELSE connsMutex' = t /\ Send(t, "ltkneg") /\ UNCHANGED todo
     /\ UNCHANGED <<answered, advMutex, conns, closed, adv, plistStuck, napp, main, links,
                    ctrlAdv, creating, ndata, refused, data, stream, dropped>>

\* conn.Close of the connection of l: a Disconnect command for its handle,
\* if anything is in the table under that handle, with connsMutex kept.
Close(l) ==
  \E t \in {<<"conn", l>>, <<"close", l>>} :
     /\ At(t, "close") /\ connsMutex = Free
     /\ IF Found(l) = NoLink
        THEN Advance(t) /\ UNCHANGED <<connsMutex, waiting, cmds>>
        ELSE connsMutex' = t /\ Send(t, "disconnect") /\ UNCHANGED todo
     /\ UNCHANGED <<answered, advMutex, conns, closed, adv, plistStuck, napp, main, links,
                    ctrlAdv, creating, ndata, refused, data, stream, dropped>>
-----------------------------------------------------------------------------
(* The application.                                                        *)

StartApp(steps) ==
  /\ todo[App] = <<>> /\ napp < MaxApp
  /\ todo' = [todo EXCEPT ![App] = steps] /\ napp' = napp + 1
  /\ UNCHANGED <<waiting, answered, connsMutex, advMutex, conns, closed, adv, plistStuck,
                 main, ctrl, data, stream, dropped>>

\* device.Advertise: update sends the parameters, those of NewDevice or of
\* LnxSetAdvertisingParameters, with advertising off (SendCmdWithAdvOff; the scan
\* response and the data go the same way), then HCI.SetAdvertiseEnable(true).
Advertise == StartApp(<<"setOff", "param", "restore", "flagOn", "setOn">>)

\* HCI.SetAdvertiseEnable(false)
StopAdvertising == StartApp(<<"flagOff", "setOff">>)

\* HCI.Connect
Connect == Central # {} /\ StartApp(<<"connect">>)

\* HCI.CancelConnection of a connection the application has been given.
CancelConnection(l) ==
  LET t == <<"close", l>>
  IN /\ l \in CanClose /\ napp < MaxApp
     /\ At(<<"conn", l>>, "serve") /\ todo[t] = <<>>
     /\ todo' = [todo EXCEPT ![t] = <<"close">>] /\ napp' = napp + 1
     /\ UNCHANGED <<waiting, answered, connsMutex, advMutex, conns, closed, adv, plistStuck,
                    main, ctrl, data, stream, dropped>>

\* HCI.SetAdvertiseEnable: h.adv = en, under advMutex, which is then given
\* back until setAdvertiseEnable takes it.
SetFlag ==
  /\ At(App, "flagOn") \/ At(App, "flagOff")
  /\ advMutex = Free
  /\ adv' = At(App, "flagOn")
  /\ Advance(App)
  /\ UNCHANGED <<waiting, answered, connsMutex, advMutex, conns, closed, plistStuck, napp,
                 main, ctrl, data, stream, dropped>>

\* SendAndCheckResp of the parameters, Send of LECreateConn.
SendCommand ==
  /\ At(App, "param") \/ At(App, "connect")
  /\ Send(App, Head(todo[App]))
  /\ UNCHANGED <<todo, answered, connsMutex, advMutex, conns, closed, adv, plistStuck, napp,
                 main, links, ctrlAdv, creating, ndata, refused, data, stream, dropped>>

\* The end of SendCmdWithAdvOff, which reads h.adv without its mutex.
Restore ==
  /\ At(App, "restore")
  /\ todo' = [todo EXCEPT ![App] = IF adv THEN <<"setOn">> \o Tail(@) ELSE Tail(@)]
  /\ UNCHANGED <<waiting, answered, connsMutex, advMutex, conns, closed, adv, plistStuck,
                 napp, main, ctrl, data, stream, dropped>>
-----------------------------------------------------------------------------
(* The controller and the peers (external).                                *)

InStream(k, l) == \E i \in DOMAIN stream : stream[i].k = k /\ stream[i].l = l
Pending(k, l, s) == InStream(k, l) \/ At(<<k, l>>, s)

\* With Prompt, what follows a link's beginning or end waits for its handler.
Begun(l) == links[l] = "up" /\ (Prompt => ~ Pending("conn", l, "insert"))
Ended(l) == links[l] = "none"
              \/ (links[l] = "down" /\ (Prompt => ~ Pending("disc", l, "delete")))

\* A connection, after which a peripheral stops advertising.
LinkUp(l) ==
  /\ links[l] = "none"
  /\ IF l \in Central THEN l \in creating ELSE ctrlAdv
  /\ \A m \in Links : Handle[m] = Handle[l] => Ended(m)
  /\ links' = [links EXCEPT ![l] = "up"]
  /\ ctrlAdv' = (ctrlAdv /\ l \in Central) /\ creating' = creating \ {l}
  /\ stream' = Append(stream, [k |-> "conn", l |-> l])
  /\ UNCHANGED <<host, main, cmds, ndata, refused, data, dropped>>

\* A peer sends data; none comes while it waits for the long term key.
PeerData(l) ==
  /\ Begun(l) /\ ndata[l] < MaxData
  /\ ~ InStream("ltk", l) /\ todo[<<"ltk", l>>] = <<>>
  /\ stream' = Append(stream, [k |-> "acl", l |-> l])
  /\ ndata' = [ndata EXCEPT ![l] = @ + 1]
  /\ UNCHANGED <<host, main, links, ctrlAdv, creating, cmds, refused, data, dropped>>

\* The central of link l asks for encryption; counted as data.
LtkRequest(l) ==
  /\ Begun(l) /\ l \notin Central /\ ndata[l] < MaxData
  /\ ~ InStream("ltk", l) /\ todo[<<"ltk", l>>] = <<>>
  /\ stream' = Append(stream, [k |-> "ltk", l |-> l])
  /\ ndata' = [ndata EXCEPT ![l] = @ + 1]
  /\ UNCHANGED <<host, main, links, ctrlAdv, creating, cmds, refused, data, dropped>>

LinkDown(l) ==
  /\ Begun(l)
  /\ links' = [links EXCEPT ![l] = "down"]
  /\ stream' = Append(stream, [k |-> "disc", l |-> l])
  /\ UNCHANGED <<host, main, ctrlAdv, creating, cmds, ndata, refused, data, dropped>>

\* A command is executed and answered.  Parameters are refused while
\* advertising, a second connection while one is being made; a Disconnect ends
\* whatever link has the handle.
Exec ==
  LET c == Head(cmds)
      reply == [k |-> "reply", t |-> c.t]
  IN /\ cmds # <<>>
     /\ cmds' = Tail(cmds)
     /\ ctrlAdv' = IF c.op \in {"setOn", "setOff"} THEN c.op = "setOn" ELSE ctrlAdv
     /\ refused' = (refused \/ (c.op = "param" /\ ctrlAdv))
     /\ IF c.op = "connect" /\ creating = {}
        THEN creating' \in {{l} : l \in {m \in Central : links[m] = "none"}} \cup {{}}
        ELSE UNCHANGED creating
     /\ LET ended == {l \in Links : c.op = "disconnect" /\ links[l] = "up"
                                       /\ Handle[l] = Handle[c.t[2]]}
        IN /\ links' = [l \in Links |-> IF l \in ended THEN "down" ELSE links[l]]
           /\ IF ended = {} THEN stream' = Append(stream, reply)
              ELSE \E l \in ended : stream' = stream \o <<reply, [k |-> "disc", l |-> l]>>
     /\ UNCHANGED <<host, main, ndata, data, dropped>>
-----------------------------------------------------------------------------
MainStep == MainReadEvent \/ MainReadReply \/ MainReadAcl \/ MainLock \/ MainSend
AppStep == SetFlag \/ SendCommand \/ Restore
TaskStep(t) == setAdvertiseEnable(t) \/ Return(t)
LinkStep(l) == Insert(l) \/ Accept(l) \/ Serve(l) \/ Delete(l) \/ LtkNegReply(l) \/ Close(l)

Next ==
  \/ MainStep
  \/ AppStep
  \/ \E t \in Tasks : TaskStep(t)
  \/ \E l \in Links : LinkStep(l)
  \/ Advertise \/ StopAdvertising \/ Connect
  \/ \E l \in Links : CancelConnection(l)
  \/ \E l \in Links : LinkUp(l) \/ PeerData(l) \/ LtkRequest(l) \/ LinkDown(l)
  \/ Exec

Spec == Init /\ [][Next]_vars

\* Every goroutine that can run does, and the controller executes commands.
\* No application has to act, no peer has to connect, send or leave.
Fairness ==
  /\ WF_vars(MainStep) /\ WF_vars(AppStep) /\ WF_vars(Exec)
  /\ \A t \in Tasks : WF_vars(TaskStep(t))
  /\ \A l \in Links : /\ WF_vars(Insert(l)) /\ WF_vars(Accept(l)) /\ WF_vars(Serve(l))
                      /\ WF_vars(Delete(l)) /\ WF_vars(LtkNegReply(l)) /\ WF_vars(Close(l))

FairSpec == Spec /\ Fairness
-----------------------------------------------------------------------------
(* Properties.                                                             *)

\* aclCh is never closed twice and nothing is sent on it once it is closed,
\* either of which would panic, in whatever order the goroutines of the events
\* run: mainLoop sends, and handleDisconnectionComplete closes, only what is in
\* the table, under its mutex.
NoPanicOnAclCh ==
  /\ mpc = "send" => mconn \notin closed
  /\ \A h \in Handles : conns[h] \notin closed

\* The data a connection receives is that of its own link, also when a handle
\* is used again.
OwnData == \A c \in Links : \A i \in DOMAIN data[c] : data[c][i] = c

\* Data and the end of a link find the connection they are for (handleL2CAP and
\* handleDisconnectionComplete: "should not happen, just be cautious for now").
NothingDropped == dropped = {}

\* Nothing is under way: the tasks are done or serve a connection.
Quiet ==
  /\ stream = <<>> /\ cmds = <<>> /\ mpc = "read"
  /\ \A t \in Tasks : todo[t] = <<>> \/ (At(t, "serve") /\ t[2] \notin closed)

Up == {l \in Links : links[l] = "up"}

\* When the dust has settled, a device that has been told to advertise does,
\* unless all its connections are in use: it resumes after every connection and
\* disconnection, whatever they interleave with.
AdvertisingRestored == Quiet /\ adv /\ Cardinality(Up) < MaxConn => ctrlAdv

\* ... and a device that has been told to stop does not (StopAdvertising).
StopsAdvertising == Quiet /\ ~ adv => ~ ctrlAdv

\* The controller accepts the advertising parameters, which it does not while
\* it advertises (SendCmdWithAdvOff).
ParamsAccepted == ~ refused

\* conn.Close disconnects no link but its own.
ClosesOwnLink ==
  \A i \in DOMAIN cmds : cmds[i].op = "disconnect" =>
    \A l \in Up : Handle[l] = Handle[cmds[i].t[2]] => l = cmds[i].t[2]

\* mainLoop waits in handleL2CAP for connsMutex, whose holder waits, itself or
\* for advMutex, for an answer that only mainLoop could read.
Behind(mutex) == mutex \in waiting \ answered
MainDeadlocked == mpc = "lock" /\ connsMutex # Free /\ (Behind(connsMutex) \/ Behind(advMutex))

\* Every goroutine comes to its end, or serves its connection, whatever links,
\* applications and events interleave, but for this one deadlock.  (A finite number
\* of operations and packets starts a finite number of goroutines, so that all
\* have ended at once in the end.)
TasksFinish ==
  []<>((\A t \in Tasks : todo[t] = <<>> \/ At(t, "serve")) \/ MainDeadlocked)
=============================================================================
