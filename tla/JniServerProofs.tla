--------------------------- MODULE JniServerProofs ---------------------------
(***************************************************************************)
(* Proofs about JniServer, for any callers, centrals and characteristics   *)
(* and any number of calls, sessions and notifiers.                        *)
(***************************************************************************)
EXTENDS JniServer, TLAPS

Strings == {"checkScan", "startScan", "storeScan", "takeScan", "stopScan", "checkAdv", "startAdv", "storeAdv",
            "openServer", "addServices", "storeServer", "takeAdv", "stopAdv", "addService", "setServices",
            "takeServer", "lockServer", "stopNotifiers", "takeCentrals", "closeCentrals", "deleteRefs",
            "closeServer", "adapterOff"}

\* The steps that may come after each step of a script, and those that may end one.
After(x) ==
  CASE x = "checkScan" -> {"startScan"}
    [] x = "startScan" -> {"storeScan"}
    [] x = "takeScan" -> {"stopScan"}
    [] x = "stopScan" -> {"takeServer"}
    [] x = "checkAdv" -> {"startAdv"}
    [] x = "startAdv" -> {"storeAdv"}
    [] x = "storeAdv" -> {"openServer"}
    [] x \in {"openServer", "addService"} -> {"addServices"}
    [] x = "addServices" -> {"storeServer"}
    [] x = "takeServer" -> {"lockServer"}
    [] x = "lockServer" -> {"stopNotifiers"}
    [] x = "stopNotifiers" -> {"takeCentrals"}
    [] x = "takeCentrals" -> {"closeCentrals"}
    [] x = "closeCentrals" -> {"deleteRefs"}
    [] x = "deleteRefs" -> {"closeServer"}
    [] x = "closeServer" -> {"setServices", "takeAdv"}
    [] x = "takeAdv" -> {"stopAdv"}
    [] x = "stopAdv" -> {"adapterOff"}
    [] OTHER -> {}
Last == {"storeScan", "stopScan", "addServices", "storeServer", "stopAdv", "setServices", "adapterOff"}

\* A rest of a script.
IsScript(s) ==
  /\ s \in Seq(Strings)
  /\ \A p \in DOMAIN s : IF p = Len(s) THEN s[p] \in Last ELSE s[p + 1] \in After(s[p])

ServerRec == [open : BOOLEAN, chars : SUBSET Chars, refs : SUBSET Chars, centrals : [Addr -> {0} \cup Centrals],
              notifiers : [Keys -> {0} \cup Notifiers], mu : BOOLEAN, stopped : BOOLEAN]
IsUser(l) ==
  /\ l = [script |-> l.script, id |-> l.id, gs |-> l.gs, set |-> l.set, ending |-> l.ending]
  /\ IsScript(l.script) /\ l.id \in {0} \cup Sessions /\ l.gs \in {0} \cup Sessions
  /\ l.set \subseteq Chars
IsCallback(b) ==
  /\ b = [pc |-> b.pc, addr |-> b.addr, char |-> b.char, on |-> b.on, c |-> b.c, old |-> b.old, stale |-> b.stale]
  /\ b.pc \in {"idle", "stale", "lookup", "stop", "enter"} /\ b.on \in BOOLEAN
  /\ b.pc \in {"lookup", "stop", "enter"} => b.addr \in Addr /\ b.char \in Chars
  /\ b.pc \in {"stop", "enter"} => b.old \in {0} \cup Notifiers
  /\ b.stale \subseteq Notifiers /\ (b.pc # "stale" => b.stale = {})
IsNotifier(n) ==
  /\ n = [made |-> n.made, c |-> n.c, srv |-> n.srv, key |-> n.key, done |-> n.done, late |-> n.late]
  /\ n.made \in BOOLEAN /\ n.done \in BOOLEAN /\ n.late \in BOOLEAN
  /\ n.made => n.srv \in Sessions /\ n.key \in Keys

Types ==
  /\ services \in SUBSET Chars /\ sessions \in Nat
  /\ scanner \in {0} \cup Sessions /\ advState \in {0} \cup Sessions /\ gattServer \in {0} \cup Sessions
  /\ running \in SUBSET Sessions /\ known \in SUBSET Addr
  /\ user = [u \in Users |-> user[u]] /\ \A u \in Users : IsUser(user[u])
  /\ srv \in [Sessions -> ServerRec]
  /\ cb = [i \in Sessions |-> cb[i]] /\ \A i \in Sessions : IsCallback(cb[i])
  /\ notifier = [n \in Notifiers |-> notifier[n]] /\ \A n \in Notifiers : IsNotifier(notifier[n])
  /\ central \in [Centrals -> [made : BOOLEAN, live : BOOLEAN]]
  /\ writing \in [Notifiers -> {"idle", "value", "device"}]
  /\ up \in [Sessions -> SUBSET Addr] /\ subscribed \in [Sessions -> SUBSET Keys]

\* The mutex of a server is held by the one call that stops its notifiers, and
\* the notifiers are stopped before the centrals and the references go.
CloseInv ==
  /\ \A u \in Users : At(u, "stopNotifiers") => srv[user[u].gs].mu /\ user[u].gs \in Sessions
  /\ \A u, v \in Users : At(u, "stopNotifiers") /\ At(v, "stopNotifiers") /\ user[u].gs = user[v].gs => u = v
  /\ \A u \in Users : At(u, "lockServer") => user[u].gs \in Sessions
  /\ \A u \in Users : At(u, "takeCentrals") \/ At(u, "closeCentrals") \/ At(u, "deleteRefs")
       => user[u].gs \in Sessions /\ srv[user[u].gs].stopped

\* The key of the CCCD write that server i handles.
Key(i) == <<cb[i].char, cb[i].addr>>
Handling(i) == cb[i].pc \in {"lookup", "stop", "enter"}

\* The notifiers in the map of a server, and after its notifiers were stopped
\* only late ones; the references of a server whose notifiers were not stopped.
InMap ==
  \A i \in Sessions : \A k \in Keys : srv[i].notifiers[k] # 0 =>
    LET n == notifier[srv[i].notifiers[k]]
    IN n.made /\ n.srv = i /\ n.key = k /\ k[1] \in srv[i].chars /\ (srv[i].stopped => n.late)
RefsKept == \A i \in Sessions : ~ srv[i].stopped => srv[i].chars \subseteq srv[i].refs
\* The notifiers a callback has popped and has still to stop.
Popped ==
  \A i \in Sessions : \A n \in cb[i].stale :
    notifier[n].made /\ notifier[n].srv = i /\ srv[i].notifiers[notifier[n].key] = 0
PoppedOnce ==
  \A i \in Sessions : \A m, n \in cb[i].stale : notifier[m].key = notifier[n].key => m = n
\* Where a notifier that is not done can be found.
Found ==
  \A n \in Notifiers : notifier[n].made /\ ~ notifier[n].done =>
    srv[notifier[n].srv].notifiers[notifier[n].key] = n \/ n \in cb[notifier[n].srv].stale
\* The notifier a CCCD write has looked up is the only one in the map under its key.
CharKnown == \A i \in Sessions : Handling(i) => cb[i].char \in srv[i].chars
LookedUp ==
  \A i \in Sessions : cb[i].pc \in {"stop", "enter"} =>
    /\ srv[i].notifiers[Key(i)] \in {0, cb[i].old}
    /\ cb[i].old # 0 => notifier[cb[i].old].made /\ notifier[cb[i].old].srv = i /\ notifier[cb[i].old].key = Key(i)
OldStopped == \A i \in Sessions : cb[i].pc = "enter" /\ cb[i].old # 0 => notifier[cb[i].old].done
WriteActive == \A n \in Notifiers : writing[n] # "idle" => notifier[n].made /\ ~ notifier[n].done
NotifierInv ==
  InMap /\ RefsKept /\ Popped /\ PoppedOnce /\ Found /\ CharKnown /\ LookedUp /\ OldStopped /\ WriteActive

\* The notifiers mirror the subscriptions, but for the one that is being changed.
Alive(i, k) == srv[i].notifiers[k] # 0 /\ ~ notifier[srv[i].notifiers[k]].done
SubscribedUp == \A i \in Sessions : \A k \in subscribed[i] : k[2] \in up[i]
Handled == \A i \in Sessions : Handling(i) => (cb[i].on <=> Key(i) \in subscribed[i]) /\ cb[i].addr \in up[i]
Mirror ==
  \A i \in Sessions : ~ srv[i].stopped /\ ~ srv[i].mu =>
    \A k \in Keys : (Handling(i) /\ k = Key(i)) \/ (Alive(i, k) <=> k \in subscribed[i])
MirrorInv == SubscribedUp /\ Handled /\ Mirror

ServerInv == Types /\ CloseInv /\ NotifierInv /\ MirrorInv

\* What is left of a script holds step x.
Has(s, x) == \E p \in DOMAIN s : s[p] = x
Stopping(u) == Has(user[u].script, "adapterOff")

\* The step a call is at.
Pc(u) == IF user[u].script = <<>> THEN "none" ELSE Head(user[u].script)
Closing == {"lockServer", "stopNotifiers", "takeCentrals", "closeCentrals", "deleteRefs", "closeServer"}

\* A call is starting a scan, an advertisement or a server, ...
Starting(u) ==
  \/ Pc(u) \in {"checkScan", "startScan", "storeScan", "checkAdv", "startAdv", "storeAdv", "openServer", "storeServer"}
  \/ Pc(u) = "addServices" /\ Len(user[u].script) > 1
\* ... or has one that it took from the device or has still to store there.
Holds(u, r) ==
  \/ Pc(u) \in {"storeScan", "stopScan", "storeAdv", "stopAdv"} /\ r = user[u].id
  \/ Pc(u) \in Closing \cup {"storeServer"} /\ r = user[u].gs
  \/ Pc(u) = "addServices" /\ Len(user[u].script) > 1 /\ r = user[u].gs

\* With one caller: what runs is in the device or held by the call, and Stop has
\* emptied each field that it has passed.
OneUser == \A u, v \in Users : u = v
CallInv(u) ==
  /\ Starting(u) => adapter /\ ~ Stopping(u)
  /\ Pc(u) \in {"startScan", "storeScan"} => scanner = 0
  /\ Pc(u) \in {"startAdv", "storeAdv"} => advState = 0
  /\ (Pc(u) = "addService" => Len(user[u].script) = 2) /\ (Pc(u) = "checkAdv" => Len(user[u].script) = 6)
  /\ (Pc(u) = "startAdv" => Len(user[u].script) = 5) /\ (Pc(u) = "storeAdv" => Len(user[u].script) = 4)
  /\ Pc(u) = "openServer" => Len(user[u].script) = 3
  /\ Stopping(u) =>
       /\ Has(user[u].script, "takeScan") \/ scanner = 0
       /\ Has(user[u].script, "takeServer") \/ gattServer = 0
       /\ Has(user[u].script, "takeAdv") \/ advState = 0
Off == ~ adapter => scanner = 0 /\ advState = 0 /\ gattServer = 0
AllHeld == \A r \in running : r \in {scanner, advState, gattServer} \/ \E u \in Users : Holds(u, r)
StopInv == Off /\ AllHeld /\ \A u \in Users : CallInv(u)
StopInvOK == replaced \/ StopInv

\* The other callers stay where they are.
Others(u) == user' = [v \in Users |-> user'[v]] /\ \A v \in Users : v # u => user'[v] = user[v]

\* The steps of closeGattServer between taking the server and closing it.
Inside == {"lockServer", "stopNotifiers", "takeCentrals", "closeCentrals", "deleteRefs"}

\* A call makes a step outside closeGattServer.
Plain(u) ==
  \/ Application(u)
  \/ CheckScan(u) \/ StartScan(u) \/ StoreScan(u) \/ TakeScan(u) \/ StopScan(u)
  \/ CheckAdv(u) \/ StartAdv(u) \/ StoreAdv(u) \/ TakeAdv(u) \/ StopAdv(u)
  \/ OpenServer(u) \/ AddServiceStep(u) \/ StoreServer(u)
  \/ SetServicesStep(u) \/ AdapterOff(u) \/ CloseServer(u)

\* What the steps of the calls and of the callbacks depend on.
SameServer(i) ==
  /\ srv'[i].notifiers = srv[i].notifiers /\ srv'[i].chars = srv[i].chars /\ srv'[i].refs = srv[i].refs
  /\ srv'[i].mu = srv[i].mu /\ srv'[i].stopped = srv[i].stopped
SameServers == \A i \in Sessions : SameServer(i)

DeviceTypes ==
  /\ services \in SUBSET Chars /\ sessions \in Nat
  /\ scanner \in {0} \cup Sessions /\ advState \in {0} \cup Sessions /\ gattServer \in {0} \cup Sessions
  /\ running \in SUBSET Sessions /\ known \in SUBSET Addr

\* What a step of server i leaves alone.
Elsewhere(i) ==
  \A j \in Sessions : j # i =>
    srv'[j] = srv[j] /\ cb'[j] = cb[j] /\ up'[j] = up[j] /\ subscribed'[j] = subscribed[j]
SameFlags(i) ==
  /\ srv'[i].chars = srv[i].chars /\ srv'[i].refs = srv[i].refs
  /\ srv'[i].mu = srv[i].mu /\ srv'[i].stopped = srv[i].stopped

(* The rests of scripts, and the steps they begin with. *)
LEMMA TailFacts ==
  ASSUME NEW s, IsScript(s), s # <<>>
  PROVE  /\ IsScript(Tail(s)) /\ Head(s) \in Strings
         /\ Tail(s) = <<>> => Head(s) \in Last
         /\ Tail(s) # <<>> => Head(Tail(s)) \in After(Head(s))
         /\ Len(Tail(s)) + 1 = Len(s)
         /\ \A x : Has(s, x) <=> Head(s) = x \/ Has(Tail(s), x)
<1>1. /\ s \in Seq(Strings) /\ Len(s) \in Nat \ {0} /\ DOMAIN s = 1 .. Len(s) /\ Head(s) = s[1]
      /\ \A p \in 1 .. Len(s) : s[p] \in Strings
  BY DEF IsScript
<1>2. /\ Tail(s) \in Seq(Strings) /\ Len(Tail(s)) = Len(s) - 1 /\ DOMAIN Tail(s) = 1 .. Len(s) - 1
      /\ \A p \in 1 .. Len(s) - 1 : Tail(s)[p] = s[p + 1]
  BY <1>1
<1>3. IsScript(Tail(s))
  <2>1. ASSUME NEW p \in DOMAIN Tail(s)
        PROVE  IF p = Len(Tail(s)) THEN Tail(s)[p] \in Last ELSE Tail(s)[p + 1] \in After(Tail(s)[p])
    <3>1. p + 1 \in DOMAIN s /\ p \in 1 .. Len(s) - 1
      BY <1>1, <1>2
    <3>2. CASE p = Len(Tail(s))
      BY <1>1, <1>2, <3>1, <3>2 DEF IsScript
    <3>3. CASE p # Len(Tail(s))
      <4>1. p + 1 \in 1 .. Len(s) - 1
        BY <1>1, <1>2, <3>1, <3>3
      <4>2. Tail(s)[p + 1] = s[p + 2] /\ Tail(s)[p] = s[p + 1]
        BY <1>2, <3>1, <4>1
      <4>3. p + 1 # Len(s) /\ (p + 1) + 1 = p + 2
        BY <1>1, <4>1
      <4> QED
        BY <3>1, <3>3, <4>2, <4>3 DEF IsScript
    <3> QED
      BY <3>2, <3>3
  <2> QED
    BY <1>2, <2>1 DEF IsScript
<1>4. Tail(s) = <<>> => Head(s) \in Last
  <2>1. Tail(s) = <<>> => Len(s) = 1
    BY <1>1, <1>2
  <2> QED
    BY <1>1, <2>1 DEF IsScript
<1>5. Tail(s) # <<>> => Head(Tail(s)) \in After(Head(s))
  <2> HAVE Tail(s) # <<>>
  <2>1. Len(s) # 1 /\ 1 \in DOMAIN s /\ Head(Tail(s)) = s[2]
    BY <1>1, <1>2
  <2>2. s[1 + 1] \in After(s[1])
    BY <2>1 DEF IsScript
  <2> QED
    BY <1>1, <2>1, <2>2
<1>6. \A x : Has(s, x) <=> Head(s) = x \/ Has(Tail(s), x)
  <2> TAKE x
  <2>1. ASSUME Has(s, x), Head(s) # x PROVE Has(Tail(s), x)
    <3>1. PICK p \in 1 .. Len(s) : s[p] = x
      BY <1>1, <2>1 DEF Has
    <3>2. p - 1 \in 1 .. Len(s) - 1 /\ (p - 1) + 1 = p
      BY <1>1, <2>1, <3>1
    <3>3. Tail(s)[p - 1] = x /\ p - 1 \in DOMAIN Tail(s)
      BY <1>2, <3>1, <3>2
    <3> QED
      BY <3>3 DEF Has
  <2>2. ASSUME Has(Tail(s), x) PROVE Has(s, x)
    <3>1. PICK p \in 1 .. Len(s) - 1 : Tail(s)[p] = x
      BY <1>2, <2>2 DEF Has
    <3>2. p + 1 \in DOMAIN s /\ s[p + 1] = x
      BY <1>1, <1>2, <3>1
    <3> QED
      BY <3>2 DEF Has
  <2>3. Head(s) = x => Has(s, x)
    BY <1>1 DEF Has
  <2> QED
    BY <2>1, <2>2, <2>3
<1> QED
  BY <1>1, <1>2, <1>3, <1>4, <1>5, <1>6

(* Leaving out the first steps of a script. *)
LEMMA DropFacts ==
  ASSUME NEW s \in Seq(Strings), NEW n \in Nat, n > 0, n <= Len(s)
  PROVE  s # <<>> /\ Tail(s) \in Seq(Strings) /\ n - 1 \in Nat /\ n - 1 <= Len(Tail(s))
           /\ SubSeq(s, n + 1, Len(s)) = SubSeq(Tail(s), (n - 1) + 1, Len(Tail(s)))
<1>1. Len(s) \in Nat /\ s # <<>>
  OBVIOUS
<1>2. Len(Tail(s)) = Len(s) - 1 /\ Tail(s) \in Seq(Strings) /\ \A p \in 1 .. Len(s) - 1 : Tail(s)[p] = s[p + 1]
  BY <1>1
<1>3. /\ SubSeq(s, n + 1, Len(s)) = [p \in 1 .. Len(s) - n |-> s[n + p]]
      /\ SubSeq(Tail(s), n, Len(s) - 1) = [p \in 1 .. Len(s) - n |-> Tail(s)[n - 1 + p]]
  BY <1>1, <1>2
<1>4. \A p \in 1 .. Len(s) - n : Tail(s)[n - 1 + p] = s[n + p]
  BY <1>1, <1>2
<1>5. (n - 1) + 1 = n /\ n - 1 <= Len(s) - 1 /\ n - 1 \in Nat
  BY <1>1
<1> QED
  BY <1>1, <1>2, <1>3, <1>4, <1>5

LEMMA DropNone ==
  ASSUME NEW s \in Seq(Strings)
  PROVE  SubSeq(s, 0 + 1, Len(s)) = s
OBVIOUS

(* What StopScanning and StopAdvertising leave out when there is nothing to stop. *)
LEMMA SkipTwo ==
  ASSUME NEW s, IsScript(s), s # <<>>, Head(s) \in {"takeScan", "takeAdv"}
  PROVE  /\ Tail(s) # <<>> /\ SubSeq(s, 2 + 1, Len(s)) = Tail(Tail(s))
         /\ IsScript(Tail(s)) /\ IsScript(Tail(Tail(s)))
         /\ Head(Tail(s)) \in {"stopScan", "stopAdv"}
         /\ Tail(Tail(s)) # <<>> => Head(Tail(Tail(s))) \in {"takeServer", "adapterOff"}
         /\ \A x : Has(s, x) <=> Head(s) = x \/ Head(Tail(s)) = x \/ Has(Tail(Tail(s)), x)
<1>1. Tail(s) # <<>> /\ IsScript(Tail(s)) /\ Len(Tail(s)) + 1 = Len(s) /\ Head(Tail(s)) \in {"stopScan", "stopAdv"}
  BY TailFacts DEF Last, After
<1>2. IsScript(Tail(Tail(s))) /\ Len(Tail(Tail(s))) + 1 = Len(Tail(s))
      /\ (Tail(Tail(s)) # <<>> => Head(Tail(Tail(s))) \in {"takeServer", "adapterOff"})
  BY <1>1, TailFacts DEF Last, After
<1>3. s \in Seq(Strings) /\ Tail(s) \in Seq(Strings) /\ Tail(Tail(s)) \in Seq(Strings)
  BY <1>1, <1>2 DEF IsScript
<1>4. SubSeq(s, 2 + 1, Len(s)) = Tail(Tail(s))
  <2>1. 2 <= Len(s) /\ 1 <= Len(Tail(s)) /\ 2 - 1 = 1 /\ 1 - 1 = 0
    BY <1>1, <1>2, <1>3
  <2>2. SubSeq(s, 2 + 1, Len(s)) = SubSeq(Tail(s), 1 + 1, Len(Tail(s)))
    BY <1>3, <2>1, DropFacts
  <2>3. SubSeq(Tail(s), 1 + 1, Len(Tail(s))) = SubSeq(Tail(Tail(s)), 0 + 1, Len(Tail(Tail(s))))
    BY <1>3, <2>1, DropFacts
  <2> QED
    BY <1>3, <2>2, <2>3, DropNone
<1>5. \A x : (Has(s, x) <=> Head(s) = x \/ Has(Tail(s), x))
            /\ (Has(Tail(s), x) <=> Head(Tail(s)) = x \/ Has(Tail(Tail(s)), x))
  BY <1>1, TailFacts
<1> QED
  BY <1>1, <1>2, <1>4, <1>5

(* What closeGattServer leaves out when there is no server. *)
LEMMA SkipClose ==
  ASSUME NEW s, IsScript(s), s # <<>>, Head(s) = "takeServer"
  PROVE  LET r == SubSeq(s, 7 + 1, Len(s))
         IN /\ IsScript(r) /\ (r # <<>> => Head(r) \in {"setServices", "takeAdv"})
            /\ \A x : Has(s, x) => x \in Closing \cup {"takeServer"} \/ Has(r, x)
            /\ \A x : Has(r, x) => Has(s, x)
<1> DEFINE s1 == Tail(s)
           s2 == Tail(s1)
           s3 == Tail(s2)
           s4 == Tail(s3)
           s5 == Tail(s4)
           s6 == Tail(s5)
           s7 == Tail(s6)
<1>1. IsScript(s1) /\ s1 # <<>> /\ Head(s1) = "lockServer" /\ Len(s1) + 1 = Len(s)
      /\ \A x : Has(s, x) <=> x = "takeServer" \/ Has(s1, x)
  BY TailFacts DEF Last, After
<1>2. IsScript(s2) /\ s2 # <<>> /\ Head(s2) = "stopNotifiers" /\ Len(s2) + 1 = Len(s1)
      /\ \A x : Has(s1, x) <=> x = "lockServer" \/ Has(s2, x)
  BY <1>1, TailFacts DEF Last, After
<1>3. IsScript(s3) /\ s3 # <<>> /\ Head(s3) = "takeCentrals" /\ Len(s3) + 1 = Len(s2)
      /\ \A x : Has(s2, x) <=> x = "stopNotifiers" \/ Has(s3, x)
  BY <1>2, TailFacts DEF Last, After
<1>4. IsScript(s4) /\ s4 # <<>> /\ Head(s4) = "closeCentrals" /\ Len(s4) + 1 = Len(s3)
      /\ \A x : Has(s3, x) <=> x = "takeCentrals" \/ Has(s4, x)
  BY <1>3, TailFacts DEF Last, After
<1>5. IsScript(s5) /\ s5 # <<>> /\ Head(s5) = "deleteRefs" /\ Len(s5) + 1 = Len(s4)
      /\ \A x : Has(s4, x) <=> x = "closeCentrals" \/ Has(s5, x)
  BY <1>4, TailFacts DEF Last, After
<1>6. IsScript(s6) /\ s6 # <<>> /\ Head(s6) = "closeServer" /\ Len(s6) + 1 = Len(s5)
      /\ \A x : Has(s5, x) <=> x = "deleteRefs" \/ Has(s6, x)
  BY <1>5, TailFacts DEF Last, After
<1>7. IsScript(s7) /\ (s7 # <<>> => Head(s7) \in {"setServices", "takeAdv"}) /\ Len(s7) + 1 = Len(s6)
      /\ \A x : Has(s6, x) <=> x = "closeServer" \/ Has(s7, x)
  BY <1>6, TailFacts DEF Last, After
<1> HIDE DEF s1, s2, s3, s4, s5, s6, s7
<1>8. s1 \in Seq(Strings) /\ s2 \in Seq(Strings) /\ s3 \in Seq(Strings) /\ s4 \in Seq(Strings) /\ s5 \in Seq(Strings)
      /\ s6 \in Seq(Strings) /\ s7 \in Seq(Strings) /\ s \in Seq(Strings)
  BY <1>1, <1>2, <1>3, <1>4, <1>5, <1>6, <1>7 DEF IsScript
<1>9. Len(s) >= 7 /\ Len(s1) >= 6 /\ Len(s2) >= 5 /\ Len(s3) >= 4 /\ Len(s4) >= 3 /\ Len(s5) >= 2 /\ Len(s6) >= 1
  <2>1. Len(s) \in Nat /\ Len(s1) \in Nat /\ Len(s2) \in Nat /\ Len(s3) \in Nat /\ Len(s4) \in Nat /\ Len(s5) \in Nat
        /\ Len(s6) \in Nat /\ Len(s7) \in Nat
    BY <1>8
  <2>2. Len(s1) + 1 = Len(s) /\ Len(s2) + 1 = Len(s1) /\ Len(s3) + 1 = Len(s2) /\ Len(s4) + 1 = Len(s3)
        /\ Len(s5) + 1 = Len(s4) /\ Len(s6) + 1 = Len(s5) /\ Len(s7) + 1 = Len(s6)
    BY <1>1, <1>2, <1>3, <1>4, <1>5, <1>6, <1>7
  <2> QED
    BY <2>1, <2>2, SMTT(40)
<1>10. SubSeq(s, 7 + 1, Len(s)) = SubSeq(s1, 6 + 1, Len(s1))
  BY <1>8, <1>9, DropFacts, 7 - 1 = 6 DEF s1
<1>11. SubSeq(s1, 6 + 1, Len(s1)) = SubSeq(s2, 5 + 1, Len(s2))
  BY <1>8, <1>9, DropFacts, 6 - 1 = 5 DEF s2
<1>12. SubSeq(s2, 5 + 1, Len(s2)) = SubSeq(s3, 4 + 1, Len(s3))
  BY <1>8, <1>9, DropFacts, 5 - 1 = 4 DEF s3
<1>13. SubSeq(s3, 4 + 1, Len(s3)) = SubSeq(s4, 3 + 1, Len(s4))
  BY <1>8, <1>9, DropFacts, 4 - 1 = 3 DEF s4
<1>14. SubSeq(s4, 3 + 1, Len(s4)) = SubSeq(s5, 2 + 1, Len(s5))
  BY <1>8, <1>9, DropFacts, 3 - 1 = 2 DEF s5
<1>15. SubSeq(s5, 2 + 1, Len(s5)) = SubSeq(s6, 1 + 1, Len(s6))
  BY <1>8, <1>9, DropFacts, 2 - 1 = 1 DEF s6
<1>16. SubSeq(s6, 1 + 1, Len(s6)) = SubSeq(s7, 0 + 1, Len(s7))
  BY <1>8, <1>9, DropFacts, 1 - 1 = 0 DEF s7
<1>17. SubSeq(s, 7 + 1, Len(s)) = s7
  BY <1>8, <1>10, <1>11, <1>12, <1>13, <1>14, <1>15, <1>16, DropNone
<1> QED
  BY <1>1, <1>2, <1>3, <1>4, <1>5, <1>6, <1>7, <1>17 DEF Closing

(* A call that goes on, returns, or leaves steps out. *)
LEMMA GoOnFacts ==
  ASSUME Types, NEW u \in Users, user[u].script # <<>>, NEW l, IsUser(l), GoOn(u, l)
  PROVE  /\ Others(u) /\ IsUser(user'[u]) /\ user'[u].script = Tail(user[u].script)
         /\ user'[u].id = l.id /\ user'[u].gs = l.gs /\ user'[u].set = l.set
<1>1. IsUser(user[u]) /\ IsScript(Tail(user[u].script))
  BY TailFacts DEF Types, IsUser
<1>2. user = [v \in Users |-> user[v]]
  BY DEF Types
<1>3. Others(u)
  BY <1>2 DEF GoOn, Others
<1>4. user'[u] = [l EXCEPT !.script = Tail(user[u].script)]
  BY <1>2 DEF GoOn
<1>5. user'[u] = [script |-> Tail(user[u].script), id |-> l.id, gs |-> l.gs, set |-> l.set, ending |-> l.ending]
  BY <1>4 DEF IsUser
<1> QED
  BY <1>1, <1>3, <1>5 DEF IsUser

LEMMA FreeFacts == IsUser(Free) /\ Free.script = <<>> /\ IsScript(<<>>)
<1>1. IsScript(<<>>)
  BY DEF IsScript
<1> QED
  BY <1>1 DEF Free, IsUser

LEMMA ReturnFacts ==
  ASSUME Types, NEW u \in Users, Return(u)
  PROVE  Others(u) /\ user'[u] = Free /\ IsUser(user'[u]) /\ user'[u].script = <<>>
<1>1. user = [v \in Users |-> user[v]]
  BY DEF Types
<1> QED
  BY <1>1, FreeFacts DEF Return, Others

LEMMA SkipToFacts ==
  ASSUME Types, NEW u \in Users, NEW n, SkipTo(u, n)
  PROVE  /\ Others(u)
         /\ user'[u] = [script |-> SubSeq(user[u].script, n + 1, Len(user[u].script)), id |-> user[u].id,
                        gs |-> user[u].gs, set |-> user[u].set, ending |-> user[u].ending]
<1>1. user = [v \in Users |-> user[v]] /\ IsUser(user[u])
  BY DEF Types
<1>2. Others(u)
  BY <1>1 DEF SkipTo, Others
<1> QED
  BY <1>1, <1>2 DEF SkipTo, IsUser


(* The locals of a call after an assignment. *)
LEMMA EndingFacts ==
  ASSUME Types, NEW u \in Users, NEW E, NEW l, l = [user[u] EXCEPT !.ending = E]
  PROVE  IsUser(l) /\ l.id = user[u].id /\ l.gs = user[u].gs /\ l.set = user[u].set
<1>1. IsUser(user[u])
  BY DEF Types
<1> QED
  BY <1>1 DEF IsUser

(* The step after x of a call that goes on. *)
LEMMA NextStep ==
  ASSUME Types, NEW u \in Users, NEW x, At(u, x), NEW l, IsUser(l), GoOn(u, l)
  PROVE  /\ Others(u) /\ IsUser(user'[u])
         /\ \A y : At(u, y)' => y \in After(x)
         /\ user'[u].id = l.id /\ user'[u].gs = l.gs /\ user'[u].set = l.set
         /\ user'[u].script = Tail(user[u].script)
<1>1. user[u].script # <<>> /\ Head(user[u].script) = x
  BY DEF At
<1>2. IsScript(user[u].script)
  BY DEF Types, IsUser
<1>3. /\ Others(u) /\ IsUser(user'[u]) /\ user'[u].script = Tail(user[u].script)
      /\ user'[u].id = l.id /\ user'[u].gs = l.gs /\ user'[u].set = l.set
  BY <1>1, GoOnFacts
<1>4. \A y : At(u, y)' => y \in After(x)
  BY <1>1, <1>2, <1>3, TailFacts DEF At
<1> QED
  BY <1>3, <1>4

LEMMA NoStep ==
  ASSUME Types, NEW u \in Users, Return(u)
  PROVE  Others(u) /\ IsUser(user'[u]) /\ user'[u] = Free /\ \A y : ~ At(u, y)'
BY ReturnFacts DEF At

LEMMA SkipStep ==
  ASSUME Types, NEW u \in Users,
         \/ (At(u, "takeScan") \/ At(u, "takeAdv")) /\ SkipTo(u, 2)
         \/ At(u, "takeServer") /\ SkipTo(u, Len(CloseScript))
  PROVE  /\ Others(u) /\ IsUser(user'[u])
         /\ \A y : At(u, y)' => y \in {"takeServer", "setServices", "takeAdv", "adapterOff"}
         /\ user'[u].id = user[u].id /\ user'[u].gs = user[u].gs /\ user'[u].set = user[u].set
<1>1. IsUser(user[u]) /\ IsScript(user[u].script)
  BY DEF Types, IsUser
<1>2. CASE (At(u, "takeScan") \/ At(u, "takeAdv")) /\ SkipTo(u, 2)
  <2>1. user[u].script # <<>> /\ Head(user[u].script) \in {"takeScan", "takeAdv"}
    BY <1>2 DEF At
  <2> DEFINE r == SubSeq(user[u].script, 2 + 1, Len(user[u].script))
  <2>2. IsScript(r) /\ (r # <<>> => Head(r) \in {"takeServer", "adapterOff"})
    BY <1>1, <2>1, SkipTwo
  <2>3. user'[u] = [script |-> r, id |-> user[u].id, gs |-> user[u].gs, set |-> user[u].set, ending |-> user[u].ending]
        /\ Others(u)
    BY <1>2, SkipToFacts
  <2> HIDE DEF r
  <2>4. IsUser(user'[u])
    BY <1>1, <2>2, <2>3 DEF IsUser
  <2> QED
    BY <2>2, <2>3, <2>4 DEF At
<1>3. CASE At(u, "takeServer") /\ SkipTo(u, Len(CloseScript))
  <2>1. user[u].script # <<>> /\ Head(user[u].script) = "takeServer"
    BY <1>3 DEF At
  <2>2. Len(CloseScript) = 7
    BY DEF CloseScript
  <2> DEFINE r == SubSeq(user[u].script, 7 + 1, Len(user[u].script))
  <2>3. IsScript(r) /\ (r # <<>> => Head(r) \in {"setServices", "takeAdv"})
    BY <1>1, <2>1, SkipClose
  <2>4. user'[u] = [script |-> r, id |-> user[u].id, gs |-> user[u].gs, set |-> user[u].set, ending |-> user[u].ending]
        /\ Others(u)
    BY <1>3, <2>2, SkipToFacts
  <2> HIDE DEF r
  <2>5. IsUser(user'[u])
    BY <1>1, <2>3, <2>4 DEF IsUser
  <2> QED
    BY <2>3, <2>4, <2>5 DEF At
<1> QED
  BY <1>2, <1>3

(* The scripts of the calls. *)
LEMMA ConcatFacts ==
  ASSUME NEW s \in Seq(Strings), NEW t \in Seq(Strings), NEW c, c = s \o t
  PROVE  /\ c \in Seq(Strings) /\ Len(c) = Len(s) + Len(t)
         /\ \A p \in 1 .. Len(c) : c[p] = IF p <= Len(s) THEN s[p] ELSE t[p - Len(s)]
OBVIOUS

LEMMA ScriptFacts ==
  LET Begins(s, x) == IsScript(s) /\ s # <<>> /\ Head(s) = x
  IN /\ Begins(ScanScript, "checkScan")
     /\ Begins(StopScanScript, "takeScan")
     /\ Begins(AdvertiseScript, "checkAdv")
     /\ Begins(StopAdvScript, "takeAdv")
     /\ Begins(<<"addService", "addServices">>, "addService")
     /\ Begins(CloseScript \o <<"setServices">>, "takeServer")
     /\ Begins(StopScript, "takeScan")
     /\ \A s \in {ScanScript, StopScanScript, AdvertiseScript, StopAdvScript, <<"addService", "addServices">>,
                  CloseScript \o <<"setServices">>} : ~ Has(s, "adapterOff")
     /\ \A x \in {"takeScan", "takeServer", "takeAdv"} : Has(StopScript, x)
<1>1. IsScript(ScanScript) /\ IsScript(StopScanScript) /\ IsScript(StopAdvScript)
      /\ IsScript(<<"addService", "addServices">>)
  BY DEF IsScript, ScanScript, StopScanScript, StopAdvScript, Strings, Last, After
<1>2. IsScript(AdvertiseScript)
  BY DEF IsScript, AdvertiseScript, Strings, Last, After
<1>3. PICK c : c = CloseScript \o <<"setServices">>
  OBVIOUS
<1>4. PICK k : k = CloseScript
  OBVIOUS
<1>5. PICK z : z = StopScanScript
  OBVIOUS
<1>6. PICK a : a = z \o k
  OBVIOUS
<1>7. PICK b : b = a \o StopAdvScript
  OBVIOUS
<1>8. PICK d : d = b \o <<"adapterOff">>
  OBVIOUS
<1>9. StopScript = d
  BY <1>4, <1>5, <1>6, <1>7, <1>8 DEF StopScript
<1>10. k \in Seq(Strings) /\ Len(k) = 7 /\ k[1] = "takeServer" /\ k[2] = "lockServer" /\ k[3] = "stopNotifiers"
       /\ k[4] = "takeCentrals" /\ k[5] = "closeCentrals" /\ k[6] = "deleteRefs" /\ k[7] = "closeServer"
  BY <1>4 DEF CloseScript, Strings
<1>11. z \in Seq(Strings) /\ Len(z) = 2 /\ z[1] = "takeScan" /\ z[2] = "stopScan"
  BY <1>5 DEF StopScanScript, Strings
<1>12. c \in Seq(Strings) /\ Len(c) = 8 /\ c[1] = "takeServer" /\ c[2] = "lockServer" /\ c[3] = "stopNotifiers"
       /\ c[4] = "takeCentrals" /\ c[5] = "closeCentrals" /\ c[6] = "deleteRefs" /\ c[7] = "closeServer"
          /\ c[8] = "setServices"
  <2>1. PICK t : t = <<"setServices">>
    OBVIOUS
  <2>2. t \in Seq(Strings) /\ Len(t) = 1 /\ t[1] = "setServices"
    BY <2>1 DEF Strings
  <2>3. c = k \o t /\ k \in Seq(Strings) /\ Len(k) = 7 /\ t \in Seq(Strings) /\ Len(t) = 1
    BY <1>3, <1>4, <1>10, <2>1, <2>2
  <2>4. c = k \o t /\ k \in Seq(Strings) /\ t \in Seq(Strings)
    BY <2>3
  <2>5. c \in Seq(Strings) /\ Len(c) = Len(k) + Len(t)
        /\ \A p \in 1 .. Len(c) : c[p] = IF p <= Len(k) THEN k[p] ELSE t[p - Len(k)]
    BY <2>4, ConcatFacts
  <2>6. c \in Seq(Strings) /\ Len(c) = 8
        /\ \A p \in 1 .. 8 : c[p] = IF p <= 7 THEN k[p] ELSE t[p - 7]
    <3>1. Len(k) = 7 /\ Len(c) = 8
      BY <2>3, <2>5
    <3> QED
      BY <3>1, <2>5
  <2>7. c[1] = k[1] /\ c[2] = k[2] /\ c[3] = k[3] /\ c[4] = k[4] /\ c[5] = k[5] /\ c[6] = k[6] /\ c[7] = k[7]
    BY <2>6
  <2>8. c[8] = t[1]
    BY <2>6
  <2> QED
    BY <1>3, <1>4, <1>10, <2>2, <2>6, <2>7, <2>8
<1>13. a \in Seq(Strings) /\ Len(a) = 9 /\ a[1] = "takeScan" /\ a[2] = "stopScan" /\ a[3] = "takeServer"
       /\ a[4] = "lockServer" /\ a[5] = "stopNotifiers" /\ a[6] = "takeCentrals" /\ a[7] = "closeCentrals"
          /\ a[8] = "deleteRefs" /\ a[9] = "closeServer"
  <2>1. PICK t : t = k
    OBVIOUS
  <2>2. t \in Seq(Strings) /\ Len(t) = 7 /\ t[1] = "takeServer" /\ t[2] = "lockServer" /\ t[3] = "stopNotifiers"
        /\ t[4] = "takeCentrals" /\ t[5] = "closeCentrals" /\ t[6] = "deleteRefs" /\ t[7] = "closeServer"
    BY <1>10, <2>1
  <2>3. a = z \o t /\ z \in Seq(Strings) /\ Len(z) = 2 /\ t \in Seq(Strings) /\ Len(t) = 7
    BY <1>6, <1>10, <1>11, <2>1, <2>2
  <2>4. a = z \o t /\ z \in Seq(Strings) /\ t \in Seq(Strings)
    BY <2>3
  <2>5. a \in Seq(Strings) /\ Len(a) = Len(z) + Len(t)
        /\ \A p \in 1 .. Len(a) : a[p] = IF p <= Len(z) THEN z[p] ELSE t[p - Len(z)]
    BY <2>4, ConcatFacts
  <2>6. a \in Seq(Strings) /\ Len(a) = 9
        /\ \A p \in 1 .. 9 : a[p] = IF p <= 2 THEN z[p] ELSE t[p - 2]
    <3>1. Len(z) = 2 /\ Len(a) = 9
      BY <2>3, <2>5
    <3> QED
      BY <3>1, <2>5
  <2>7. a[1] = z[1] /\ a[2] = z[2]
    BY <2>6
  <2>8. a[3] = t[1] /\ a[4] = t[2] /\ a[5] = t[3] /\ a[6] = t[4] /\ a[7] = t[5] /\ a[8] = t[6] /\ a[9] = t[7]
    BY <2>6
  <2> QED
    BY <1>6, <1>10, <1>11, <2>2, <2>6, <2>7, <2>8
<1>14. b \in Seq(Strings) /\ Len(b) = 11 /\ b[1] = "takeScan" /\ b[2] = "stopScan" /\ b[3] = "takeServer"
       /\ b[4] = "lockServer" /\ b[5] = "stopNotifiers" /\ b[6] = "takeCentrals" /\ b[7] = "closeCentrals"
          /\ b[8] = "deleteRefs" /\ b[9] = "closeServer" /\ b[10] = "takeAdv" /\ b[11] = "stopAdv"
  <2>1. PICK t : t = StopAdvScript
    OBVIOUS
  <2>2. t \in Seq(Strings) /\ Len(t) = 2 /\ t[1] = "takeAdv" /\ t[2] = "stopAdv"
    BY <2>1 DEF Strings, StopAdvScript
  <2>3. b = a \o t /\ a \in Seq(Strings) /\ Len(a) = 9 /\ t \in Seq(Strings) /\ Len(t) = 2
    BY <1>7, <1>13, <2>1, <2>2
  <2>4. b = a \o t /\ a \in Seq(Strings) /\ t \in Seq(Strings)
    BY <2>3
  <2>5. b \in Seq(Strings) /\ Len(b) = Len(a) + Len(t)
        /\ \A p \in 1 .. Len(b) : b[p] = IF p <= Len(a) THEN a[p] ELSE t[p - Len(a)]
    BY <2>4, ConcatFacts
  <2>6. b \in Seq(Strings) /\ Len(b) = 11
        /\ \A p \in 1 .. 11 : b[p] = IF p <= 9 THEN a[p] ELSE t[p - 9]
    <3>1. Len(a) = 9 /\ Len(b) = 11
      BY <2>3, <2>5
    <3> QED
      BY <3>1, <2>5
  <2>7. b[1] = a[1] /\ b[2] = a[2] /\ b[3] = a[3] /\ b[4] = a[4] /\ b[5] = a[5] /\ b[6] = a[6] /\ b[7] = a[7]
        /\ b[8] = a[8] /\ b[9] = a[9]
    BY <2>6
  <2>8. b[10] = t[1] /\ b[11] = t[2]
    BY <2>6
  <2> QED
    BY <1>7, <1>13, <2>2, <2>6, <2>7, <2>8
<1>15. d \in Seq(Strings) /\ Len(d) = 12 /\ d[1] = "takeScan" /\ d[2] = "stopScan" /\ d[3] = "takeServer"
       /\ d[4] = "lockServer" /\ d[5] = "stopNotifiers" /\ d[6] = "takeCentrals" /\ d[7] = "closeCentrals"
          /\ d[8] = "deleteRefs" /\ d[9] = "closeServer" /\ d[10] = "takeAdv" /\ d[11] = "stopAdv"
             /\ d[12] = "adapterOff"
  <2>1. PICK t : t = <<"adapterOff">>
    OBVIOUS
  <2>2. t \in Seq(Strings) /\ Len(t) = 1 /\ t[1] = "adapterOff"
    BY <2>1 DEF Strings
  <2>3. d = b \o t /\ b \in Seq(Strings) /\ Len(b) = 11 /\ t \in Seq(Strings) /\ Len(t) = 1
    BY <1>8, <1>14, <2>1, <2>2
  <2>4. d = b \o t /\ b \in Seq(Strings) /\ t \in Seq(Strings)
    BY <2>3
  <2>5. d \in Seq(Strings) /\ Len(d) = Len(b) + Len(t)
        /\ \A p \in 1 .. Len(d) : d[p] = IF p <= Len(b) THEN b[p] ELSE t[p - Len(b)]
    BY <2>4, ConcatFacts
  <2>6. d \in Seq(Strings) /\ Len(d) = 12
        /\ \A p \in 1 .. 12 : d[p] = IF p <= 11 THEN b[p] ELSE t[p - 11]
    <3>1. Len(b) = 11 /\ Len(d) = 12
      BY <2>3, <2>5
    <3> QED
      BY <3>1, <2>5
  <2>7. d[1] = b[1] /\ d[2] = b[2] /\ d[3] = b[3] /\ d[4] = b[4] /\ d[5] = b[5] /\ d[6] = b[6] /\ d[7] = b[7]
        /\ d[8] = b[8] /\ d[9] = b[9] /\ d[10] = b[10] /\ d[11] = b[11]
    BY <2>6
  <2>8. d[12] = t[1]
    BY <2>6
  <2> QED
    BY <1>8, <1>14, <2>2, <2>6, <2>7, <2>8
<1>16. IsScript(c)
  BY <1>12 DEF IsScript, Last, After
<1>17. IsScript(d)
  BY <1>15 DEF IsScript, Last, After
<1>18. \A q \in Seq(Strings) : Len(q) > 0 => q # <<>> /\ Head(q) = q[1]
  OBVIOUS
<1>19. c # <<>> /\ Head(c) = "takeServer"
  <2>1. c \in Seq(Strings) /\ Len(c) > 0 /\ c[1] = "takeServer"
    BY <1>12
  <2> QED
    BY <2>1, <1>18
<1>20. d # <<>> /\ Head(d) = "takeScan"
  <2>1. d \in Seq(Strings) /\ Len(d) > 0 /\ d[1] = "takeScan"
    BY <1>15
  <2> QED
    BY <2>1, <1>18
<1>21. \A s \in {ScanScript, StopScanScript, AdvertiseScript, StopAdvScript, <<"addService", "addServices">>} : ~ Has(s, "adapterOff")
  BY DEF Has, ScanScript, StopScanScript, AdvertiseScript, StopAdvScript
<1>22. ~ Has(c, "adapterOff")
  <2>1. DOMAIN c = 1 .. 8
    BY <1>12
  <2> QED
    BY <1>12, <2>1 DEF Has
<1>23. \A x \in {"takeScan", "takeServer", "takeAdv"} : Has(d, x)
  <2>1. 1 \in DOMAIN d /\ 3 \in DOMAIN d /\ 10 \in DOMAIN d
    BY <1>15
  <2> QED
    BY <1>15, <2>1 DEF Has
<1>24. /\ ScanScript # <<>> /\ Head(ScanScript) = "checkScan" /\ StopScanScript # <<>>
          /\ Head(StopScanScript) = "takeScan"
       /\ AdvertiseScript # <<>> /\ Head(AdvertiseScript) = "checkAdv" /\ StopAdvScript # <<>>
          /\ Head(StopAdvScript) = "takeAdv"
       /\ <<"addService", "addServices">> # <<>> /\ Head(<<"addService", "addServices">>) = "addService"
  BY DEF ScanScript, StopScanScript, AdvertiseScript, StopAdvScript
<1> QED
  BY <1>1, <1>2, <1>3, <1>9, <1>16, <1>17, <1>19, <1>20, <1>21, <1>22, <1>23, <1>24


(* Numbers of sessions. *)
LEMMA SessionFacts ==
  ASSUME Types, sessions < MaxSessions
  PROVE  sessions + 1 \in Sessions /\ sessions + 1 \in Nat
BY JniServerAssumption DEF Types, Sessions

(* A step outside closeGattServer does not lead into it. *)
LEMMA PlainStep ==
  ASSUME Types, NEW u \in Users, Plain(u)
  PROVE  /\ Others(u) /\ IsUser(user'[u]) /\ DeviceTypes'
         /\ \A y \in Inside : ~ At(u, y)'
<1> DEFINE Goal == /\ Others(u) /\ IsUser(user'[u]) /\ DeviceTypes' /\ \A y \in Inside : ~ At(u, y)'
<1>1. IsUser(user[u]) /\ user = [v \in Users |-> user[v]]
  BY DEF Types
<1>2. user[u].id \in {0} \cup Sessions /\ user[u].gs \in {0} \cup Sessions /\ user[u].set \in SUBSET Chars
  BY <1>1 DEF IsUser
<1>3. ASSUME NEW s, NEW x, NEW set \in SUBSET Chars, Invoke(u, s, set), IsScript(s), s # <<>>, Head(s) = x, x \notin Inside
      PROVE  Goal
  <2>1. user'[u] = [Free EXCEPT !.script = s, !.set = set] /\ Others(u)
    BY <1>1, <1>3 DEF Invoke, Others
  <2>2. user'[u] = [script |-> s, id |-> 0, gs |-> 0, set |-> set, ending |-> {}]
    BY <2>1 DEF Free
  <2>3. IsUser(user'[u])
    BY <1>3, <2>2 DEF IsUser
  <2>4. DeviceTypes'
    BY <1>3 DEF Invoke, device, Types, DeviceTypes
  <2>5. \A y \in Inside : ~ At(u, y)'
    BY <1>3, <2>2 DEF At
  <2> QED
    BY <2>1, <2>3, <2>4, <2>5
<1>4. CASE Application(u)
  <2>1. CASE Scan(u)
    BY <1>3, <2>1, ScriptFacts DEF Scan, Inside
  <2>2. CASE StopScanning(u)
    BY <1>3, <2>2, ScriptFacts DEF StopScanning, Inside
  <2>3. CASE Advertise(u)
    BY <1>3, <2>3, ScriptFacts DEF Advertise, Inside
  <2>4. CASE StopAdvertising(u)
    BY <1>3, <2>4, ScriptFacts DEF StopAdvertising, Inside
  <2>5. CASE AddService(u)
    <3>1. PICK c \in Chars : Invoke(u, <<"addService", "addServices">>, {c})
      BY <2>5 DEF AddService
    <3> QED
      BY <1>3, <3>1, ScriptFacts DEF Inside
  <2>6. CASE SetServices(u)
    <3>1. PICK S \in SUBSET Chars : Invoke(u, CloseScript \o <<"setServices">>, S)
      BY <2>6 DEF SetServices
    <3> QED
      BY <1>3, <3>1, ScriptFacts DEF Inside
  <2>7. CASE Stop(u)
    BY <1>3, <2>7, ScriptFacts DEF Stop, Inside
  <2> QED
    BY <1>4, <2>1, <2>2, <2>3, <2>4, <2>5, <2>6, <2>7 DEF Application
<1>5. ASSUME NEW x, NEW n \in {0} \cup Sessions, NEW S \in SUBSET Chars, At(u, x), After(x) \cap Inside = {},
             NEW l, l \in {user[u], [user[u] EXCEPT !.id = n], [user[u] EXCEPT !.gs = n],
                           [user[u] EXCEPT !.gs = n, !.set = S]}, GoOn(u, l)
      PROVE  Others(u) /\ IsUser(user'[u]) /\ \A y \in Inside : ~ At(u, y)'
  <2>1. ASSUME l = [user[u] EXCEPT !.id = n] PROVE IsUser(l)
    BY <1>1, <2>1 DEF IsUser
  <2>2. ASSUME l = [user[u] EXCEPT !.gs = n] PROVE IsUser(l)
    BY <1>1, <2>2 DEF IsUser
  <2>3. ASSUME l = [user[u] EXCEPT !.gs = n, !.set = S] PROVE IsUser(l)
    BY <1>1, <2>3 DEF IsUser
  <2>4. IsUser(l)
    BY <1>1, <1>5, <2>1, <2>2, <2>3
  <2> QED
    BY <1>5, <2>4, NextStep
<1>6. CASE CheckScan(u)
  <2>1. At(u, "checkScan") /\ After("checkScan") \cap Inside = {}
    BY <1>6 DEF CheckScan, After, Inside
  <2>2. DeviceTypes'
    BY <1>6, <1>2 DEF CheckScan, Types, DeviceTypes, device
  <2>3. GoOn(u, user[u]) \/ Return(u)
    BY <1>6 DEF CheckScan
  <2>4. CASE GoOn(u, user[u])
    BY <1>2, <1>5, <2>1, <2>2, <2>4 DEF Types
  <2>5. CASE Return(u)
    BY <2>2, <2>5, NoStep
  <2> QED
    BY <2>3, <2>4, <2>5
<1>7. CASE StartScan(u)
  <2>1. At(u, "startScan") /\ After("startScan") \cap Inside = {}
    BY <1>7 DEF StartScan, After, Inside
  <2>2. DeviceTypes'
    BY <1>7, SessionFacts DEF StartScan, Types, DeviceTypes
  <2>3. (GoOn(u, [user[u] EXCEPT !.id = sessions']) /\ sessions' \in Sessions) \/ Return(u)
    BY <1>7, SessionFacts DEF StartScan
  <2>4. CASE (GoOn(u, [user[u] EXCEPT !.id = sessions']) /\ sessions' \in Sessions)
    BY <1>2, <1>5, <2>1, <2>2, <2>4 DEF Types
  <2>5. CASE Return(u)
    BY <2>2, <2>5, NoStep
  <2> QED
    BY <2>3, <2>4, <2>5
<1>8. CASE StoreScan(u)
  <2>1. At(u, "storeScan") /\ After("storeScan") \cap Inside = {}
    BY <1>8 DEF StoreScan, After, Inside
  <2>2. DeviceTypes'
    BY <1>8, <1>2 DEF StoreScan, Types, DeviceTypes, device
  <2>3. GoOn(u, user[u])
    BY <1>8 DEF StoreScan
  <2>4. CASE GoOn(u, user[u])
    BY <1>2, <1>5, <2>1, <2>2, <2>4 DEF Types
  <2> QED
    BY <2>3, <2>4
<1>9. CASE TakeScan(u)
  <2>1. At(u, "takeScan") /\ After("takeScan") \cap Inside = {}
    BY <1>9 DEF TakeScan, After, Inside
  <2>2. DeviceTypes'
    BY <1>9, <1>2 DEF TakeScan, Types, DeviceTypes, device
  <2>3. GoOn(u, [user[u] EXCEPT !.id = scanner]) \/ SkipTo(u, 2)
    BY <1>9 DEF TakeScan
  <2>4. CASE GoOn(u, [user[u] EXCEPT !.id = scanner])
    BY <1>2, <1>5, <2>1, <2>2, <2>4 DEF Types
  <2>5. CASE SkipTo(u, 2)
    BY <2>1, <2>2, <2>5, SkipStep DEF Inside
  <2> QED
    BY <2>3, <2>4, <2>5
<1>10. CASE StopScan(u)
  <2>1. At(u, "stopScan") /\ After("stopScan") \cap Inside = {}
    BY <1>10 DEF StopScan, After, Inside
  <2>2. DeviceTypes'
    BY <1>10, <1>2 DEF StopScan, Types, DeviceTypes, device
  <2>3. GoOn(u, user[u])
    BY <1>10 DEF StopScan
  <2>4. CASE GoOn(u, user[u])
    BY <1>2, <1>5, <2>1, <2>2, <2>4 DEF Types
  <2> QED
    BY <2>3, <2>4
<1>11. CASE CheckAdv(u)
  <2>1. At(u, "checkAdv") /\ After("checkAdv") \cap Inside = {}
    BY <1>11 DEF CheckAdv, After, Inside
  <2>2. DeviceTypes'
    BY <1>11, <1>2 DEF CheckAdv, Types, DeviceTypes, device
  <2>3. GoOn(u, user[u]) \/ Return(u)
    BY <1>11 DEF CheckAdv
  <2>4. CASE GoOn(u, user[u])
    BY <1>2, <1>5, <2>1, <2>2, <2>4 DEF Types
  <2>5. CASE Return(u)
    BY <2>2, <2>5, NoStep
  <2> QED
    BY <2>3, <2>4, <2>5
<1>12. CASE StartAdv(u)
  <2>1. At(u, "startAdv") /\ After("startAdv") \cap Inside = {}
    BY <1>12 DEF StartAdv, After, Inside
  <2>2. DeviceTypes'
    BY <1>12, SessionFacts DEF StartAdv, Types, DeviceTypes
  <2>3. (GoOn(u, [user[u] EXCEPT !.id = sessions']) /\ sessions' \in Sessions) \/ Return(u)
    BY <1>12, SessionFacts DEF StartAdv
  <2>4. CASE (GoOn(u, [user[u] EXCEPT !.id = sessions']) /\ sessions' \in Sessions)
    BY <1>2, <1>5, <2>1, <2>2, <2>4 DEF Types
  <2>5. CASE Return(u)
    BY <2>2, <2>5, NoStep
  <2> QED
    BY <2>3, <2>4, <2>5
<1>13. CASE StoreAdv(u)
  <2>1. At(u, "storeAdv") /\ After("storeAdv") \cap Inside = {}
    BY <1>13 DEF StoreAdv, After, Inside
  <2>2. DeviceTypes'
    BY <1>13, <1>2 DEF StoreAdv, Types, DeviceTypes, device
  <2>3. GoOn(u, user[u]) \/ Return(u)
    BY <1>13 DEF StoreAdv
  <2>4. CASE GoOn(u, user[u])
    BY <1>2, <1>5, <2>1, <2>2, <2>4 DEF Types
  <2>5. CASE Return(u)
    BY <2>2, <2>5, NoStep
  <2> QED
    BY <2>3, <2>4, <2>5
<1>14. CASE TakeAdv(u)
  <2>1. At(u, "takeAdv") /\ After("takeAdv") \cap Inside = {}
    BY <1>14 DEF TakeAdv, After, Inside
  <2>2. DeviceTypes'
    BY <1>14, <1>2 DEF TakeAdv, Types, DeviceTypes, device
  <2>3. GoOn(u, [user[u] EXCEPT !.id = advState]) \/ SkipTo(u, 2)
    BY <1>14 DEF TakeAdv
  <2>4. CASE GoOn(u, [user[u] EXCEPT !.id = advState])
    BY <1>2, <1>5, <2>1, <2>2, <2>4 DEF Types
  <2>5. CASE SkipTo(u, 2)
    BY <2>1, <2>2, <2>5, SkipStep DEF Inside
  <2> QED
    BY <2>3, <2>4, <2>5
<1>15. CASE StopAdv(u)
  <2>1. At(u, "stopAdv") /\ After("stopAdv") \cap Inside = {}
    BY <1>15 DEF StopAdv, After, Inside
  <2>2. DeviceTypes'
    BY <1>15, <1>2 DEF StopAdv, Types, DeviceTypes, device
  <2>3. GoOn(u, user[u])
    BY <1>15 DEF StopAdv
  <2>4. CASE GoOn(u, user[u])
    BY <1>2, <1>5, <2>1, <2>2, <2>4 DEF Types
  <2> QED
    BY <2>3, <2>4
<1>16. CASE OpenServer(u)
  <2>1. At(u, "openServer") /\ After("openServer") \cap Inside = {}
    BY <1>16 DEF OpenServer, After, Inside
  <2>2. DeviceTypes'
    BY <1>16, SessionFacts DEF OpenServer, Types, DeviceTypes
  <2>3. (GoOn(u, [user[u] EXCEPT !.gs = sessions', !.set = services]) /\ sessions' \in Sessions) \/ Return(u)
    BY <1>16, SessionFacts DEF OpenServer
  <2>4. CASE (GoOn(u, [user[u] EXCEPT !.gs = sessions', !.set = services]) /\ sessions' \in Sessions)
    BY <1>2, <1>5, <2>1, <2>2, <2>4 DEF Types
  <2>5. CASE Return(u)
    BY <2>2, <2>5, NoStep
  <2> QED
    BY <2>3, <2>4, <2>5
<1>17. CASE AddServiceStep(u)
  <2>1. At(u, "addService") /\ After("addService") \cap Inside = {}
    BY <1>17 DEF AddServiceStep, After, Inside
  <2>2. DeviceTypes'
    BY <1>17, <1>2 DEF AddServiceStep, Types, DeviceTypes, device
  <2>3. GoOn(u, [user[u] EXCEPT !.gs = gattServer]) \/ Return(u)
    BY <1>17 DEF AddServiceStep
  <2>4. CASE GoOn(u, [user[u] EXCEPT !.gs = gattServer])
    BY <1>2, <1>5, <2>1, <2>2, <2>4 DEF Types
  <2>5. CASE Return(u)
    BY <2>2, <2>5, NoStep
  <2> QED
    BY <2>3, <2>4, <2>5
<1>18. CASE StoreServer(u)
  <2>1. At(u, "storeServer") /\ After("storeServer") \cap Inside = {}
    BY <1>18 DEF StoreServer, After, Inside
  <2>2. DeviceTypes'
    BY <1>18, <1>2 DEF StoreServer, Types, DeviceTypes, device
  <2>3. GoOn(u, user[u])
    BY <1>18 DEF StoreServer
  <2>4. CASE GoOn(u, user[u])
    BY <1>2, <1>5, <2>1, <2>2, <2>4 DEF Types
  <2> QED
    BY <2>3, <2>4
<1>19. CASE SetServicesStep(u)
  <2>1. At(u, "setServices") /\ After("setServices") \cap Inside = {}
    BY <1>19 DEF SetServicesStep, After, Inside
  <2>2. DeviceTypes'
    BY <1>19, <1>2 DEF SetServicesStep, Types, DeviceTypes, device
  <2>3. GoOn(u, user[u])
    BY <1>19 DEF SetServicesStep
  <2>4. CASE GoOn(u, user[u])
    BY <1>2, <1>5, <2>1, <2>2, <2>4 DEF Types
  <2> QED
    BY <2>3, <2>4
<1>20. CASE AdapterOff(u)
  <2>1. At(u, "adapterOff") /\ After("adapterOff") \cap Inside = {}
    BY <1>20 DEF AdapterOff, After, Inside
  <2>2. DeviceTypes'
    BY <1>20, <1>2 DEF AdapterOff, Types, DeviceTypes, device
  <2>3. GoOn(u, user[u])
    BY <1>20 DEF AdapterOff
  <2>4. CASE GoOn(u, user[u])
    BY <1>2, <1>5, <2>1, <2>2, <2>4 DEF Types
  <2> QED
    BY <2>3, <2>4
<1>21. CASE CloseServer(u)
  <2>1. At(u, "closeServer") /\ After("closeServer") \cap Inside = {}
    BY <1>21 DEF CloseServer, After, Inside
  <2>2. DeviceTypes'
    BY <1>21, <1>2 DEF CloseServer, Types, DeviceTypes, device
  <2>3. GoOn(u, user[u])
    BY <1>21 DEF CloseServer
  <2>4. CASE GoOn(u, user[u])
    BY <1>2, <1>5, <2>1, <2>2, <2>4 DEF Types
  <2> QED
    BY <2>3, <2>4
<1> QED
  BY <1>4, <1>6, <1>7, <1>8, <1>9, <1>10, <1>11, <1>12, <1>13, <1>14, <1>15, <1>16, <1>17, <1>18, <1>19, <1>20, <1>21
     DEF Plain


(* Making centrals and notifiers. *)
LEMMA FreshFacts == \A S : MayMake(S) => Fresh(S) \in DOMAIN S /\ ~ S[Fresh(S)].made
<1> TAKE S
<1> HAVE MayMake(S)
<1>1. \E x : x \in {y \in DOMAIN S : ~ S[y].made}
  BY DEF MayMake
<1>2. Fresh(S) \in {y \in DOMAIN S : ~ S[y].made}
  BY <1>1 DEF Fresh
<1> QED
  BY <1>2

LEMMA RestFacts ==
  /\ IsCallback(Resting) /\ Resting.pc = "idle" /\ Resting.stale = {}
  /\ Resting = [pc |-> "idle", addr |-> "none", char |-> "none", on |-> FALSE, c |-> 0, old |-> 0, stale |-> {}]
BY DEF IsCallback, Resting

LEMMA StaleFacts ==
  ASSUME NEW o, NEW S \in SUBSET Notifiers, NEW b,
         b = [pc |-> "stale", addr |-> "none", char |-> "none", on |-> FALSE, c |-> 0, old |-> o, stale |-> S]
  PROVE  IsCallback(b) /\ b.pc = "stale" /\ b.stale = S
<1>1. b.pc = "stale" /\ b.stale = S
  OBVIOUS
<1>2. b.on \in BOOLEAN
  OBVIOUS
<1>3. b = [pc |-> b.pc, addr |-> b.addr, char |-> b.char, on |-> b.on, c |-> b.c, old |-> b.old, stale |-> b.stale]
  OBVIOUS
<1> QED
  BY <1>1, <1>2, <1>3 DEF IsCallback

(* The notifiers of a central. *)
LEMMA PopFacts ==
  ASSUME Types, NEW i \in Sessions, NEW a \in Addr
  PROVE  /\ Without(i, a) \in [Keys -> {0} \cup Notifiers]
         /\ \A k \in Keys : Without(i, a)[k] = IF k[2] = a THEN 0 ELSE srv[i].notifiers[k]
         /\ PoppedFor(i, a) \in SUBSET Notifiers
         /\ \A n : n \in PoppedFor(i, a) <=> n # 0 /\ \E k \in Keys : k[2] = a /\ srv[i].notifiers[k] = n
<1>1. srv[i].notifiers \in [Keys -> {0} \cup Notifiers]
  BY DEF Types, ServerRec
<1> QED
  BY <1>1 DEF Without, PoppedFor

(* What the callbacks of a central do. *)
LEMMA FindFacts ==
  ASSUME Types, NEW i \in Sessions, NEW a \in Addr, FindCentral(i, a)
  PROVE  /\ srv' \in [Sessions -> ServerRec] /\ central' \in [Centrals -> [made : BOOLEAN, live : BOOLEAN]]
         /\ SameServers /\ \A j \in Sessions : j # i => srv'[j] = srv[j]
<1>1. srv \in [Sessions -> ServerRec] /\ central \in [Centrals -> [made : BOOLEAN, live : BOOLEAN]]
  BY DEF Types
<1>2. CASE srv[i].centrals[a] # 0
  BY <1>1, <1>2 DEF FindCentral, SameServers, SameServer
<1>3. CASE srv[i].centrals[a] = 0
  <2>1. PICK f : f = Fresh(central)
    OBVIOUS
  <2>2. f \in Centrals
    BY <1>1, <1>3, <2>1, FreshFacts DEF FindCentral
  <2>3. central' = [central EXCEPT ![f] = [made |-> TRUE, live |-> TRUE]] /\ srv' = [srv EXCEPT ![i].centrals[a] = f]
    BY <1>3, <2>1 DEF FindCentral
  <2> QED
    BY <1>1, <2>2, <2>3, ZenonT(60) DEF ServerRec, SameServers, SameServer
<1> QED
  BY <1>2, <1>3

LEMMA ConnectedFacts ==
  ASSUME Types, NEW i \in Sessions, NEW a \in Addr, OnConnected(i, a)
  PROVE  /\ srv' \in [Sessions -> ServerRec] /\ central' \in [Centrals -> [made : BOOLEAN, live : BOOLEAN]]
         /\ Elsewhere(i) /\ SameFlags(i)
         /\ cb' = [j \in Sessions |-> cb'[j]] /\ IsCallback(cb'[i])
         /\ \/ cb'[i] = Resting /\ srv'[i].notifiers = srv[i].notifiers
            \/ cb'[i].pc = "stale" /\ cb'[i].stale = PoppedFor(i, a) /\ srv'[i].notifiers = Without(i, a)
         /\ up' \in [Sessions -> SUBSET Addr] /\ up'[i] = up[i] \cup {a} /\ a \notin up[i]
         /\ subscribed' = subscribed /\ cb[i].pc = "idle"
<1>1. srv \in [Sessions -> ServerRec] /\ central \in [Centrals -> [made : BOOLEAN, live : BOOLEAN]]
      /\ cb = [j \in Sessions |-> cb[j]] /\ up \in [Sessions -> SUBSET Addr]
  BY DEF Types
<1>2. PICK f : f = Fresh(central)
  OBVIOUS
<1>3. f \in Centrals
  BY <1>1, <1>2, FreshFacts DEF OnConnected
<1>4. PICK m : m = IF srv[i].centrals[a] = 0 THEN srv[i].notifiers ELSE Without(i, a)
  OBVIOUS
<1>5. m \in [Keys -> {0} \cup Notifiers]
  BY <1>1, <1>4, PopFacts DEF ServerRec
<1>6. srv' = [srv EXCEPT ![i].centrals[a] = f, ![i].notifiers = m]
  BY <1>1, <1>2, <1>4 DEF OnConnected
<1>7. srv' \in [Sessions -> ServerRec] /\ srv'[i].notifiers = m /\ SameFlags(i)
      /\ \A j \in Sessions : j # i => srv'[j] = srv[j]
  BY <1>1, <1>3, <1>5, <1>6, ZenonT(60) DEF ServerRec, SameFlags
<1>8. central' \in [Centrals -> [made : BOOLEAN, live : BOOLEAN]]
  BY <1>1, <1>2, <1>3 DEF OnConnected
<1>9. PICK b : b = IF srv[i].centrals[a] = 0 THEN Resting
                   ELSE [Resting EXCEPT !.pc = "stale", !.old = srv[i].centrals[a], !.stale = PoppedFor(i, a)]
  OBVIOUS
<1>10. /\ IsCallback(b) /\ (srv[i].centrals[a] = 0 => b = Resting)
       /\ srv[i].centrals[a] # 0 => b.pc = "stale" /\ b.stale = PoppedFor(i, a)
  <2>1. PoppedFor(i, a) \in SUBSET Notifiers
    BY PopFacts
  <2>2. CASE srv[i].centrals[a] = 0
    BY <1>9, <2>2, RestFacts
  <2>3. CASE srv[i].centrals[a] # 0
    <3>1. b = [pc |-> "stale", addr |-> "none", char |-> "none", on |-> FALSE, c |-> 0, old |-> srv[i].centrals[a], stale |-> PoppedFor(i, a)]
      BY <1>9, <2>3 DEF Resting
    <3> QED
      BY <2>1, <2>3, <3>1, StaleFacts
  <2> QED
    BY <2>2, <2>3
<1>11. cb' = [cb EXCEPT ![i] = b]
  BY <1>9 DEF OnConnected
<1>12. /\ up' = [up EXCEPT ![i] = @ \cup {a}] /\ a \notin up[i] /\ subscribed' = subscribed /\ cb[i].pc = "idle"
  BY DEF OnConnected, Called
<1>13. Elsewhere(i) /\ cb' = [j \in Sessions |-> cb'[j]] /\ cb'[i] = b
  BY <1>1, <1>7, <1>11, <1>12 DEF Elsewhere
<1>14. up' \in [Sessions -> SUBSET Addr] /\ up'[i] = up[i] \cup {a}
  BY <1>1, <1>12
<1>15. CASE srv[i].centrals[a] = 0
  BY <1>4, <1>7, <1>8, <1>10, <1>12, <1>13, <1>14, <1>15
<1>16. CASE srv[i].centrals[a] # 0
  BY <1>4, <1>7, <1>8, <1>10, <1>12, <1>13, <1>14, <1>16
<1> QED
  BY <1>15, <1>16

LEMMA DisconnectedFacts ==
  ASSUME Types, NEW i \in Sessions, NEW a \in Addr, OnDisconnected(i, a)
  PROVE  /\ srv' \in [Sessions -> ServerRec]
         /\ Elsewhere(i) /\ SameFlags(i)
         /\ cb' = [j \in Sessions |-> cb'[j]] /\ IsCallback(cb'[i])
         /\ cb'[i].pc = "stale" /\ cb'[i].stale = PoppedFor(i, a) /\ srv'[i].notifiers = Without(i, a)
         /\ up' \in [Sessions -> SUBSET Addr] /\ up'[i] = up[i] \ {a}
         /\ subscribed' \in [Sessions -> SUBSET Keys]
         /\ subscribed'[i] = {k \in subscribed[i] : k[2] # a} /\ cb[i].pc = "idle"
<1>1. srv \in [Sessions -> ServerRec] /\ cb = [j \in Sessions |-> cb[j]] /\ up \in [Sessions -> SUBSET Addr]
      /\ subscribed \in [Sessions -> SUBSET Keys]
  BY DEF Types
<1>2. PICK m : m = Without(i, a)
  OBVIOUS
<1>3. m \in [Keys -> {0} \cup Notifiers]
  BY <1>2, PopFacts
<1>4. PICK z : z = 0
  OBVIOUS
<1>5. z \in {0} \cup Centrals
  BY <1>4
<1>6. srv' = [srv EXCEPT ![i].centrals[a] = z, ![i].notifiers = m]
  BY <1>2, <1>4 DEF OnDisconnected
<1>7. srv' \in [Sessions -> ServerRec] /\ srv'[i].notifiers = m /\ SameFlags(i)
      /\ \A j \in Sessions : j # i => srv'[j] = srv[j]
  <2>1. srv' \in [Sessions -> ServerRec]
    <3>1. PICK cs : cs = [srv[i].centrals EXCEPT ![a] = z]
      OBVIOUS
    <3>2. cs \in [Addr -> {0} \cup Centrals]
      BY <1>1, <1>5, <3>1 DEF ServerRec
    <3>3. PICK r : r = [srv[i] EXCEPT !.centrals = cs]
      OBVIOUS
    <3>4. r \in ServerRec
      BY <1>1, <3>2, <3>3, ZenonT(60) DEF ServerRec
    <3>5. PICK q : q = [r EXCEPT !.notifiers = m]
      OBVIOUS
    <3>6. q \in ServerRec
      BY <1>3, <3>4, <3>5 DEF ServerRec
    <3>7. srv' = [srv EXCEPT ![i] = q]
      BY <1>1, <1>6, <3>1, <3>3, <3>5
    <3> QED
      BY <1>1, <3>6, <3>7
  <2>2. srv'[i].notifiers = m /\ SameFlags(i)
    BY <1>1, <1>6 DEF ServerRec, SameFlags
  <2>3. \A j \in Sessions : j # i => srv'[j] = srv[j]
    BY <1>1, <1>6
  <2> QED
    BY <2>1, <2>2, <2>3
<1>8. PICK b : b = [Resting EXCEPT !.pc = "stale", !.old = srv[i].centrals[a], !.stale = PoppedFor(i, a)]
  OBVIOUS
<1>9. IsCallback(b) /\ b.pc = "stale" /\ b.stale = PoppedFor(i, a)
  <2>1. PoppedFor(i, a) \in SUBSET Notifiers
    BY PopFacts
  <2> QED
    <3>1. b = [pc |-> "stale", addr |-> "none", char |-> "none", on |-> FALSE, c |-> 0, old |-> srv[i].centrals[a], stale |-> PoppedFor(i, a)]
      BY <1>8 DEF Resting
    <3> QED
      BY <2>1, <3>1, StaleFacts
<1>10. cb' = [cb EXCEPT ![i] = b] /\ up' = [up EXCEPT ![i] = @ \ {a}] /\ cb[i].pc = "idle"
      /\ subscribed' = [subscribed EXCEPT ![i] = {k \in @ : k[2] # a}]
  BY <1>8 DEF OnDisconnected, Called
<1>11. Elsewhere(i) /\ cb' = [j \in Sessions |-> cb'[j]] /\ cb'[i] = b
  BY <1>1, <1>7, <1>10 DEF Elsewhere
<1>12. up' \in [Sessions -> SUBSET Addr] /\ up'[i] = up[i] \ {a}
  BY <1>1, <1>10
<1>13. subscribed' \in [Sessions -> SUBSET Keys] /\ subscribed'[i] = {k \in subscribed[i] : k[2] # a}
  BY <1>1, <1>10
<1> QED
  BY <1>2, <1>7, <1>9, <1>10, <1>11, <1>12, <1>13


LEMMA CCCDFacts ==
  ASSUME Types, NEW i \in Sessions, NEW a \in Addr, NEW c \in Chars, NEW on \in BOOLEAN, OnCCCDWrite(i, a, c, on)
  PROVE  /\ srv' \in [Sessions -> ServerRec] /\ central' \in [Centrals -> [made : BOOLEAN, live : BOOLEAN]]
         /\ SameServers /\ Elsewhere(i)
         /\ cb' = [j \in Sessions |-> cb'[j]] /\ IsCallback(cb'[i]) /\ cb'[i].stale = {}
         /\ cb'[i].pc = "lookup" /\ cb'[i].addr = a /\ cb'[i].char = c /\ cb'[i].on = on
         /\ subscribed' \in [Sessions -> SUBSET Keys]
         /\ subscribed'[i] = IF on THEN subscribed[i] \cup {<<c, a>>} ELSE subscribed[i] \ {<<c, a>>}
         /\ a \in up[i] /\ up' = up /\ c \in srv[i].chars /\ cb[i].pc = "idle"
<1>1. cb = [j \in Sessions |-> cb[j]] /\ subscribed \in [Sessions -> SUBSET Keys]
  BY DEF Types
<1>2. /\ srv' \in [Sessions -> ServerRec] /\ central' \in [Centrals -> [made : BOOLEAN, live : BOOLEAN]]
      /\ SameServers /\ \A j \in Sessions : j # i => srv'[j] = srv[j]
  BY FindFacts DEF OnCCCDWrite
<1>3. PICK b : b = [Resting EXCEPT !.pc = "lookup", !.addr = a, !.char = c, !.on = on, !.c = srv'[i].centrals[a]]
  OBVIOUS
<1>4. cb' = [cb EXCEPT ![i] = b]
  BY <1>3 DEF OnCCCDWrite
<1>5. b = [pc |-> "lookup", addr |-> a, char |-> c, on |-> on, c |-> srv'[i].centrals[a], old |-> 0, stale |-> {}]
  BY <1>3 DEF Resting
<1>6. b.pc = "lookup" /\ b.addr = a /\ b.char = c /\ b.stale = {}
  BY <1>5
<1>7. b.on = on
  BY <1>5
<1>8. b = [pc |-> b.pc, addr |-> b.addr, char |-> b.char, on |-> b.on, c |-> b.c, old |-> b.old, stale |-> b.stale]
  BY <1>5
<1>9. IsCallback(b)
  BY <1>6, <1>7, <1>8 DEF IsCallback
<1>10. subscribed' = [subscribed EXCEPT ![i] = IF on THEN @ \cup {<<c, a>>} ELSE @ \ {<<c, a>>}]
       /\ a \in up[i] /\ up' = up /\ c \in srv[i].chars /\ cb[i].pc = "idle"
  BY DEF OnCCCDWrite, Called
<1>11. cb' = [j \in Sessions |-> cb'[j]] /\ cb'[i] = b /\ \A j \in Sessions : j # i => cb'[j] = cb[j]
  BY <1>1, <1>4
<1>12. <<c, a>> \in Keys
  BY DEF Keys
<1>13. /\ subscribed' \in [Sessions -> SUBSET Keys]
       /\ subscribed'[i] = IF on THEN subscribed[i] \cup {<<c, a>>} ELSE subscribed[i] \ {<<c, a>>}
       /\ \A j \in Sessions : j # i => subscribed'[j] = subscribed[j]
  BY <1>1, <1>10, <1>12
<1>14. Elsewhere(i)
  BY <1>2, <1>10, <1>11, <1>13 DEF Elsewhere
<1> QED
  BY <1>2, <1>6, <1>7, <1>9, <1>10, <1>11, <1>13, <1>14

(* Setting done of a notifier. *)
LEMMA DoneFacts ==
  ASSUME Types, NEW n \in Notifiers, notifier' = [notifier EXCEPT ![n].done = TRUE]
  PROVE  /\ notifier' = [m \in Notifiers |-> notifier'[m]] /\ \A m \in Notifiers : IsNotifier(notifier'[m])
         /\ \A m \in Notifiers : m # n => notifier'[m] = notifier[m]
         /\ notifier'[n].done /\ notifier'[n].made = notifier[n].made /\ notifier'[n].srv = notifier[n].srv
         /\ notifier'[n].key = notifier[n].key /\ notifier'[n].late = notifier[n].late
<1>1. notifier = [m \in Notifiers |-> notifier[m]] /\ \A m \in Notifiers : IsNotifier(notifier[m])
  BY DEF Types
<1>2. notifier' = [m \in Notifiers |-> notifier'[m]] /\ \A m \in Notifiers : m # n => notifier'[m] = notifier[m]
  BY <1>1
<1>3. PICK o : o = notifier[n]
  OBVIOUS
<1>4. PICK r : r = [o EXCEPT !.done = TRUE]
  OBVIOUS
<1>5. notifier'[n] = r
  BY <1>1, <1>3, <1>4
<1>6. o = [made |-> o.made, c |-> o.c, srv |-> o.srv, key |-> o.key, done |-> o.done, late |-> o.late]
      /\ IsNotifier(o)
  BY <1>1, <1>3 DEF IsNotifier
<1>7. r = [made |-> o.made, c |-> o.c, srv |-> o.srv, key |-> o.key, done |-> TRUE, late |-> o.late]
  BY <1>4, <1>6, Zenon
<1>8. r.made = o.made /\ r.c = o.c /\ r.srv = o.srv /\ r.key = o.key /\ r.late = o.late
  BY <1>7
<1>9. r.done = TRUE
  BY <1>7
<1>10. r = [made |-> r.made, c |-> r.c, srv |-> r.srv, key |-> r.key, done |-> r.done, late |-> r.late]
  BY <1>7
<1>11. IsNotifier(r)
  BY <1>6, <1>8, <1>9, <1>10 DEF IsNotifier
<1> QED
  BY <1>1, <1>2, <1>3, <1>5, <1>8, <1>9, <1>11


(* Steps that leave the notifiers and the subscriptions alone. *)
LEMMA SameStep ==
  ASSUME Types, NotifierInv, MirrorInv, SameServers, UNCHANGED <<notifier, cb, up, subscribed, writing>>
  PROVE  NotifierInv' /\ MirrorInv'
<1>1. \A i \in Sessions : (Handling(i) <=> Handling(i)') /\ Key(i)' = Key(i)
  BY DEF Handling, Key
<1>2. InMap' /\ RefsKept' /\ Popped' /\ PoppedOnce'
  BY DEF NotifierInv, InMap, RefsKept, Popped, PoppedOnce, SameServers, SameServer
<1>3. OldStopped' /\ WriteActive'
  BY DEF NotifierInv, OldStopped, WriteActive
<1>4. CharKnown' /\ LookedUp'
  BY <1>1 DEF NotifierInv, CharKnown, LookedUp, SameServers, SameServer
<1>5. SubscribedUp' /\ Handled'
  BY <1>1 DEF MirrorInv, SubscribedUp, Handled
<1>6. Mirror'
  BY <1>1 DEF MirrorInv, Mirror, Alive, SameServers, SameServer
<1>7. Found'
  <2>1. \A n \in Notifiers : notifier[n].made => notifier[n].srv \in Sessions
    BY DEF Types, IsNotifier
  <2> QED
    BY <2>1 DEF NotifierInv, Found, SameServers, SameServer
<1> QED
  BY <1>2, <1>3, <1>4, <1>5, <1>6, <1>7 DEF NotifierInv, MirrorInv

LEMMA CloseSame ==
  ASSUME CloseInv, UNCHANGED user,
         \A i \in Sessions : srv'[i].mu = srv[i].mu /\ srv'[i].stopped = srv[i].stopped
  PROVE  CloseInv'
BY DEF CloseInv, At

(* A call makes a step outside closeGattServer. *)
LEMMA PlainServers ==
  ASSUME Types, NEW u \in Users, Plain(u)
  PROVE  /\ SameServers /\ srv' \in [Sessions -> ServerRec]
         /\ UNCHANGED <<notifier, cb, up, subscribed, writing, central>>
<1>1. srv \in [Sessions -> ServerRec]
  BY DEF Types
<1>2. ASSUME NEW i, NEW b \in BOOLEAN, srv' = [srv EXCEPT ![i].open = b]
      PROVE  SameServers /\ srv' \in [Sessions -> ServerRec]
  BY <1>1, <1>2, ZenonT(60) DEF ServerRec, SameServers, SameServer
<1>3. ASSUME UNCHANGED srv PROVE SameServers /\ srv' \in [Sessions -> ServerRec]
  BY <1>1, <1>3 DEF SameServers, SameServer
<1>4. CASE Application(u)
  <2>1. UNCHANGED <<server, writing>>
    BY <1>4 DEF Application, Scan, StopScanning, Advertise, StopAdvertising, AddService, SetServices, Stop, Invoke
  <2> QED
    BY <1>3, <2>1 DEF server
<1>5. CASE CheckScan(u) \/ StartScan(u) \/ StoreScan(u) \/ TakeScan(u) \/ StopScan(u)
  BY <1>3, <1>5 DEF CheckScan, StartScan, StoreScan, TakeScan, StopScan, server
<1>6. CASE CheckAdv(u) \/ StartAdv(u) \/ StoreAdv(u) \/ TakeAdv(u) \/ StopAdv(u)
  BY <1>3, <1>6 DEF CheckAdv, StartAdv, StoreAdv, TakeAdv, StopAdv, server
<1>7. CASE AddServiceStep(u) \/ StoreServer(u) \/ SetServicesStep(u) \/ AdapterOff(u)
  BY <1>3, <1>7 DEF AddServiceStep, StoreServer, SetServicesStep, AdapterOff, server
<1>8. CASE OpenServer(u)
  <2>1. srv' = [srv EXCEPT ![sessions'].open = TRUE] \/ UNCHANGED srv
    BY <1>8 DEF OpenServer
  <2>2. UNCHANGED <<notifier, cb, up, subscribed, writing, central>>
    BY <1>8 DEF OpenServer
  <2> QED
    BY <1>2, <1>3, <2>1, <2>2
<1>9. CASE CloseServer(u)
  <2>1. srv' = [srv EXCEPT ![user[u].gs].open = FALSE]
    BY <1>9 DEF CloseServer
  <2>2. UNCHANGED <<notifier, cb, up, subscribed, writing, central>>
    BY <1>9 DEF CloseServer
  <2> QED
    BY <1>2, <2>1, <2>2
<1> QED
  BY <1>4, <1>5, <1>6, <1>7, <1>8, <1>9 DEF Plain

(* A step of a call outside the part of closeGattServer that CloseInv is about. *)
LEMMA CloseOutside ==
  ASSUME CloseInv, NEW u \in Users, Others(u), \A y \in Inside : ~ At(u, y)',
         \A i \in Sessions : srv'[i].mu = srv[i].mu /\ srv'[i].stopped = srv[i].stopped
  PROVE  CloseInv'
<1>1. \A v \in Users, y \in Inside : At(v, y)' => v # u /\ At(v, y) /\ user'[v] = user[v]
  BY DEF Others, At
<1> QED
  BY <1>1 DEF CloseInv, Inside

LEMMA PlainKeeps ==
  ASSUME ServerInv, NEW u \in Users, Plain(u)
  PROVE  ServerInv'
<1>1. Types /\ CloseInv /\ NotifierInv /\ MirrorInv
  BY DEF ServerInv
<1>2. Others(u) /\ IsUser(user'[u]) /\ DeviceTypes' /\ \A y \in Inside : ~ At(u, y)'
  BY <1>1, PlainStep
<1>3. /\ SameServers /\ srv' \in [Sessions -> ServerRec]
      /\ UNCHANGED <<notifier, cb, up, subscribed, writing, central>>
  BY <1>1, PlainServers
<1>4. Types'
  BY <1>1, <1>2, <1>3 DEF Types, DeviceTypes, Others
<1>5. CloseInv'
  BY <1>1, <1>2, <1>3, CloseOutside DEF SameServers, SameServer
<1> QED
  BY <1>1, <1>3, <1>4, <1>5, SameStep DEF ServerInv

(* The steps of closeGattServer. *)
LEMMA TakeServerKeeps ==
  ASSUME ServerInv, NEW u \in Users, TakeServer(u)
  PROVE  ServerInv'
<1>1. Types /\ CloseInv /\ NotifierInv /\ MirrorInv
  BY DEF ServerInv
<1>2. At(u, "takeServer") /\ UNCHANGED <<server, writing>> /\ DeviceTypes'
  BY <1>1 DEF TakeServer, DeviceTypes, Types
<1>3. SameServers /\ UNCHANGED <<srv, notifier, cb, up, subscribed, writing, central>>
  BY <1>2 DEF server, SameServers, SameServer
<1>4. /\ Others(u) /\ IsUser(user'[u])
      /\ \A y : At(u, y)' => y \in {"lockServer", "takeServer", "setServices", "takeAdv", "adapterOff"}
      /\ At(u, "lockServer")' => user'[u].gs \in Sessions
  <2>1. CASE gattServer = 0
    <3>1. SkipTo(u, Len(CloseScript))
      BY <2>1 DEF TakeServer
    <3> QED
      BY <1>1, <1>2, <3>1, SkipStep
  <2>2. CASE gattServer # 0
    <3>1. PICK l : l = [user[u] EXCEPT !.gs = gattServer]
      OBVIOUS
    <3>2. GoOn(u, l) /\ gattServer \in Sessions
      BY <1>1, <2>2, <3>1 DEF TakeServer, Types
    <3>3. IsUser(l) /\ l.gs = gattServer
      BY <1>1, <3>1, <3>2 DEF Types, IsUser
    <3>4. Others(u) /\ IsUser(user'[u]) /\ (\A y : At(u, y)' => y \in After("takeServer")) /\ user'[u].gs = l.gs
      BY <1>1, <1>2, <3>2, <3>3, NextStep
    <3> QED
      BY <3>2, <3>3, <3>4 DEF After
  <2> QED
    BY <2>1, <2>2
<1>5. Types'
  BY <1>1, <1>2, <1>3, <1>4 DEF Types, DeviceTypes, Others
<1>6. CloseInv'
  <2>1. \A v \in Users : \A y : v # u => (At(v, y)' <=> At(v, y)) /\ user'[v] = user[v]
    BY <1>4 DEF Others, At
  <2>2. ~ At(u, "stopNotifiers")' /\ ~ At(u, "takeCentrals")' /\ ~ At(u, "closeCentrals")' /\ ~ At(u, "deleteRefs")'
    BY <1>4
  <2> QED
    BY <1>1, <1>3, <1>4, <2>1, <2>2 DEF CloseInv
<1> QED
  BY <1>1, <1>3, <1>5, <1>6, SameStep DEF ServerInv

LEMMA LockServerKeeps ==
  ASSUME ServerInv, NEW u \in Users, LockServer(u)
  PROVE  ServerInv'
<1>1. Types /\ CloseInv /\ NotifierInv /\ MirrorInv
  BY DEF ServerInv
<1>2. At(u, "lockServer") /\ UNCHANGED <<device, central, notifier, cb, up, subscribed, writing>> /\ GoOn(u, user[u])
  BY DEF LockServer
<1>3. PICK i : i = user[u].gs
  OBVIOUS
<1>4. i \in Sessions /\ ~ srv[i].mu /\ srv \in [Sessions -> ServerRec] /\ srv' = [srv EXCEPT ![i].mu = TRUE]
  BY <1>1, <1>2, <1>3 DEF LockServer, Types, CloseInv
<1>5. srv' \in [Sessions -> ServerRec] /\ srv'[i].mu
  BY <1>4, ZenonT(60) DEF ServerRec
<1>6. /\ \A j \in Sessions : /\ srv'[j].notifiers = srv[j].notifiers /\ srv'[j].chars = srv[j].chars
                              /\ srv'[j].refs = srv[j].refs /\ srv'[j].stopped = srv[j].stopped
      /\ \A j \in Sessions : j # i => srv'[j] = srv[j]
  BY <1>4 DEF ServerRec
<1>7. Others(u) /\ IsUser(user'[u]) /\ (\A y : At(u, y)' => y \in {"stopNotifiers"}) /\ user'[u].gs = i
  <2>1. IsUser(user[u])
    BY <1>1 DEF Types
  <2> QED
    BY <1>1, <1>2, <1>3, <2>1, NextStep DEF After
<1>8. Types'
  BY <1>1, <1>2, <1>5, <1>7 DEF Types, Others, device
<1>9. CloseInv'
  <2>1. \A v \in Users : \A y : v # u => (At(v, y)' <=> At(v, y)) /\ user'[v] = user[v]
    BY <1>7 DEF Others, At
  <2>2. ~ At(u, "lockServer")' /\ ~ At(u, "takeCentrals")' /\ ~ At(u, "closeCentrals")' /\ ~ At(u, "deleteRefs")'
    BY <1>7
  <2>3. \A v \in Users : At(v, "stopNotifiers") => user[v].gs # i
    BY <1>1, <1>4 DEF CloseInv
  <2> QED
    BY <1>1, <1>4, <1>5, <1>6, <1>7, <2>1, <2>2, <2>3 DEF CloseInv
<1>10. NotifierInv'
  <2>1. \A j \in Sessions : (Handling(j) <=> Handling(j)') /\ Key(j)' = Key(j)
    BY <1>2 DEF Handling, Key
  <2>2. InMap' /\ RefsKept' /\ Popped' /\ PoppedOnce' /\ OldStopped' /\ WriteActive'
    BY <1>1, <1>2, <1>6 DEF NotifierInv, InMap, RefsKept, Popped, PoppedOnce, OldStopped, WriteActive
  <2>3. CharKnown' /\ LookedUp'
    BY <1>1, <1>2, <1>6, <2>1 DEF NotifierInv, CharKnown, LookedUp
  <2>4. Found'
    BY <1>1, <1>2, <1>6 DEF NotifierInv, Found, Types, IsNotifier
  <2> QED
    BY <2>2, <2>3, <2>4 DEF NotifierInv
<1>11. MirrorInv'
  <2>1. \A j \in Sessions : (Handling(j) <=> Handling(j)') /\ Key(j)' = Key(j)
    BY <1>2 DEF Handling, Key
  <2>2. SubscribedUp' /\ Handled'
    BY <1>1, <1>2, <2>1 DEF MirrorInv, SubscribedUp, Handled
  <2>3. Mirror'
    BY <1>1, <1>2, <1>5, <1>6, <2>1 DEF MirrorInv, Mirror, Alive
  <2> QED
    BY <2>2, <2>3 DEF MirrorInv
<1> QED
  BY <1>8, <1>9, <1>10, <1>11 DEF ServerInv

(* A notifier is stopped. *)
LEMMA DoneKeeps ==
  ASSUME Types, NotifierInv, NEW n \in Notifiers, notifier' = [notifier EXCEPT ![n].done = TRUE],
         writing[n] = "idle", UNCHANGED <<srv, writing>>
  PROVE  /\ InMap' /\ RefsKept' /\ WriteActive'
         /\ \A m \in Notifiers : /\ notifier'[m].made = notifier[m].made /\ notifier'[m].srv = notifier[m].srv
                                 /\ notifier'[m].key = notifier[m].key
                                 /\ (notifier[m].done => notifier'[m].done)
                                 /\ (m # n => notifier'[m] = notifier[m])
         /\ \A j \in Sessions, k \in Keys : srv[j].notifiers[k] # n => (Alive(j, k)' <=> Alive(j, k))
<1>1. /\ \A m \in Notifiers : m # n => notifier'[m] = notifier[m]
      /\ notifier'[n].done /\ notifier'[n].made = notifier[n].made /\ notifier'[n].srv = notifier[n].srv
      /\ notifier'[n].key = notifier[n].key /\ notifier'[n].late = notifier[n].late
  BY DoneFacts
<1>2. \A j \in Sessions, k \in Keys : srv[j].notifiers[k] \in {0} \cup Notifiers
  BY DEF Types, ServerRec
<1>3. InMap'
  BY <1>1, <1>2 DEF NotifierInv, InMap
<1>4. RefsKept' /\ WriteActive'
  BY <1>1 DEF NotifierInv, RefsKept, WriteActive
<1>5. \A j \in Sessions, k \in Keys : srv[j].notifiers[k] # n => (Alive(j, k)' <=> Alive(j, k))
  BY <1>1, <1>2 DEF Alive
<1> QED
  BY <1>1, <1>3, <1>4, <1>5

LEMMA StopOneKeeps ==
  ASSUME ServerInv, NEW u \in Users, StopNotifiers(u), Active(user[u].gs) # {}
  PROVE  ServerInv'
<1>1. Types /\ CloseInv /\ NotifierInv /\ MirrorInv
  BY DEF ServerInv
<1>2. PICK i : i = user[u].gs
  OBVIOUS
<1>3. At(u, "stopNotifiers") /\ UNCHANGED <<device, central, cb, up, subscribed, writing, srv, user>>
  BY DEF StopNotifiers
<1>4. PICK n \in Active(i) : Stoppable(n) /\ notifier' = [notifier EXCEPT ![n].done = TRUE]
  BY <1>2 DEF StopNotifiers
<1>5. i \in Sessions /\ srv[i].mu
  BY <1>1, <1>2, <1>3 DEF CloseInv
<1>6. n \in Notifiers /\ writing[n] = "idle" /\ notifier[n].srv = i
  <2>1. srv[i].notifiers \in [Keys -> {0} \cup Notifiers]
    BY <1>1, <1>5 DEF Types, ServerRec
  <2>2. PICK k \in Keys : srv[i].notifiers[k] = n /\ n # 0
    BY <1>4, <2>1 DEF Active, Range
  <2> QED
    BY <1>1, <1>4, <1>5, <2>1, <2>2 DEF Stoppable, NotifierInv, InMap
<1>7. /\ InMap' /\ RefsKept' /\ WriteActive'
      /\ \A m \in Notifiers : /\ notifier'[m].made = notifier[m].made /\ notifier'[m].srv = notifier[m].srv
                              /\ notifier'[m].key = notifier[m].key
                              /\ (notifier[m].done => notifier'[m].done)
                              /\ (m # n => notifier'[m] = notifier[m])
      /\ \A j \in Sessions, k \in Keys : srv[j].notifiers[k] # n => (Alive(j, k)' <=> Alive(j, k))
  BY <1>1, <1>3, <1>4, <1>6, DoneKeeps
<1>8. notifier' = [m \in Notifiers |-> notifier'[m]] /\ \A m \in Notifiers : IsNotifier(notifier'[m])
  BY <1>1, <1>4, <1>6, DoneFacts
<1>9. Types'
  BY <1>1, <1>3, <1>8 DEF Types, device
<1>10. CloseInv'
  BY <1>1, <1>3, CloseSame
<1>11. \A j \in Sessions : (Handling(j) <=> Handling(j)') /\ Key(j)' = Key(j)
  BY <1>3 DEF Handling, Key
<1>12. NotifierInv'
  <2>1. \A j \in Sessions : cb[j].stale \subseteq Notifiers
        /\ (cb[j].pc \in {"stop", "enter"} => cb[j].old \in {0} \cup Notifiers)
    BY <1>1 DEF Types, IsCallback
  <2>2. Popped' /\ PoppedOnce'
    BY <1>1, <1>3, <1>7, <2>1 DEF NotifierInv, Popped, PoppedOnce
  <2>3. Found'
    BY <1>1, <1>3, <1>7 DEF NotifierInv, Found
  <2>4. CharKnown' /\ OldStopped'
    BY <1>1, <1>3, <1>7, <1>11, <2>1 DEF NotifierInv, CharKnown, OldStopped
  <2>5. LookedUp'
    BY <1>1, <1>3, <1>7, <1>11, <2>1 DEF NotifierInv, LookedUp
  <2> QED
    BY <1>7, <2>2, <2>3, <2>4, <2>5 DEF NotifierInv
<1>13. MirrorInv'
  <2>1. SubscribedUp' /\ Handled'
    BY <1>1, <1>3, <1>11 DEF MirrorInv, SubscribedUp, Handled
  <2>2. \A j \in Sessions, k \in Keys : j # i => srv[j].notifiers[k] # n
    <3>1. 0 \notin Notifiers
      BY DEF Notifiers
    <3> QED
      BY <1>1, <1>6, <3>1 DEF NotifierInv, InMap
  <2>3. Mirror'
    BY <1>1, <1>3, <1>5, <1>7, <1>11, <2>2 DEF MirrorInv, Mirror
  <2> QED
    BY <2>1, <2>3 DEF MirrorInv
<1> QED
  BY <1>9, <1>10, <1>12, <1>13 DEF ServerInv

LEMMA StopAllKeeps ==
  ASSUME ServerInv, NEW u \in Users, StopNotifiers(u), Active(user[u].gs) = {}
  PROVE  ServerInv'
<1>1. Types /\ CloseInv /\ NotifierInv /\ MirrorInv
  BY DEF ServerInv
<1>2. PICK i : i = user[u].gs
  OBVIOUS
<1>3. At(u, "stopNotifiers") /\ UNCHANGED <<device, central, notifier, cb, up, subscribed, writing>>
      /\ GoOn(u, user[u])
  BY DEF StopNotifiers
<1>4. PICK z : z = NoServer.notifiers
  OBVIOUS
<1>5. z \in [Keys -> {0} \cup Notifiers] /\ \A k \in Keys : z[k] = 0
  BY <1>4 DEF NoServer
<1>6. i \in Sessions /\ srv[i].mu
  BY <1>1, <1>2, <1>3 DEF CloseInv
<1>7. srv \in [Sessions -> ServerRec] /\ srv' = [srv EXCEPT ![i].notifiers = z, ![i].mu = FALSE, ![i].stopped = TRUE]
  BY <1>1, <1>2, <1>4 DEF StopNotifiers, Types
<1>8. /\ srv' \in [Sessions -> ServerRec] /\ \A j \in Sessions : j # i => srv'[j] = srv[j]
      /\ srv'[i].notifiers = z /\ srv'[i].chars = srv[i].chars /\ srv'[i].refs = srv[i].refs
      /\ srv'[i].stopped
  <2>1. PICK r : r = [srv[i] EXCEPT !.notifiers = z]
    OBVIOUS
  <2>2. r \in ServerRec /\ r.notifiers = z /\ r.chars = srv[i].chars /\ r.refs = srv[i].refs
    BY <1>5, <1>6, <1>7, <2>1 DEF ServerRec
  <2>3. PICK q : q = [r EXCEPT !.mu = FALSE]
    OBVIOUS
  <2>4. q \in ServerRec /\ q.notifiers = z /\ q.chars = srv[i].chars /\ q.refs = srv[i].refs
    BY <2>2, <2>3 DEF ServerRec
  <2>5. PICK p : p = [q EXCEPT !.stopped = TRUE]
    OBVIOUS
  <2>6. p \in ServerRec /\ p.notifiers = z /\ p.chars = srv[i].chars /\ p.refs = srv[i].refs
    BY <2>4, <2>5 DEF ServerRec
  <2>7. p.stopped
    BY <2>4, <2>5 DEF ServerRec
  <2>8. srv' = [srv EXCEPT ![i] = p]
    BY <1>6, <1>7, <2>1, <2>3, <2>5
  <2>9. srv' \in [Sessions -> ServerRec] /\ srv'[i] = p /\ \A j \in Sessions : j # i => srv'[j] = srv[j]
    <3>1. srv \in [Sessions -> ServerRec] /\ p \in ServerRec
      BY <1>7, <2>6
    <3> QED
      BY <1>6, <2>8, <3>1
  <2>10. srv'[i].stopped
    BY <2>7, <2>9, Zenon
  <2> QED
    BY <2>6, <2>9, <2>10
<1>9. /\ Others(u) /\ IsUser(user'[u]) /\ (\A y : At(u, y)' => y \in {"takeCentrals"}) /\ user'[u].gs = i
  <2>1. IsUser(user[u])
    BY <1>1 DEF Types
  <2> QED
    BY <1>1, <1>2, <1>3, <2>1, NextStep DEF After
<1>10. Types'
  BY <1>1, <1>3, <1>8, <1>9 DEF Types, Others, device
<1>11. CloseInv'
  <2>1. \A v \in Users : \A y : v # u => (At(v, y)' <=> At(v, y)) /\ user'[v] = user[v]
    BY <1>9 DEF Others, At
  <2>2. ~ At(u, "lockServer")' /\ ~ At(u, "stopNotifiers")' /\ ~ At(u, "closeCentrals")' /\ ~ At(u, "deleteRefs")'
    BY <1>9
  <2>3. \A v \in Users : v # u /\ At(v, "stopNotifiers") => user[v].gs # i
    BY <1>1, <1>2, <1>3 DEF CloseInv
  <2> QED
    BY <1>1, <1>6, <1>8, <1>9, <2>1, <2>2, <2>3 DEF CloseInv
<1>12. \A j \in Sessions : (Handling(j) <=> Handling(j)') /\ Key(j)' = Key(j)
  BY <1>3 DEF Handling, Key
<1>13. \A j \in Sessions : Handling(j) => Key(j) \in Keys
  BY <1>1 DEF Types, IsCallback, Handling, Key, Keys
<1>14. \A n \in Notifiers : notifier[n].made => notifier[n].srv \in Sessions /\ notifier[n].key \in Keys
  BY <1>1 DEF Types, IsNotifier
<1>15. NotifierInv'
  <2>1. InMap' /\ RefsKept' /\ WriteActive' /\ OldStopped' /\ PoppedOnce'
    BY <1>1, <1>3, <1>5, <1>8 DEF NotifierInv, InMap, RefsKept, WriteActive, OldStopped, PoppedOnce
  <2>2. Popped'
    <3>1. \A j \in Sessions : cb[j].stale \subseteq Notifiers
      BY <1>1 DEF Types, IsCallback
    <3> QED
      BY <1>1, <1>3, <1>5, <1>8, <1>14, <3>1 DEF NotifierInv, Popped
  <2>3. Found'
    <3>1. \A n \in Notifiers : notifier[n].made /\ ~ notifier[n].done /\ notifier[n].srv = i => n \in cb[i].stale
      <4>1. SUFFICES ASSUME NEW n \in Notifiers, notifier[n].made, ~ notifier[n].done, notifier[n].srv = i, n \notin cb[i].stale
                     PROVE  FALSE
        OBVIOUS
      <4>2. srv[i].notifiers[notifier[n].key] = n /\ notifier[n].key \in Keys /\ n # 0
        BY <1>1, <1>14, <4>1 DEF NotifierInv, Found, Notifiers
      <4>3. srv[i].notifiers \in [Keys -> {0} \cup Notifiers]
        BY <1>1, <1>6 DEF Types, ServerRec
      <4>4. n \in Active(i)
        BY <4>1, <4>2, <4>3 DEF Active, Range
      <4> QED
        BY <1>2, <4>4
    <3> QED
      BY <1>1, <1>3, <1>8, <1>14, <3>1 DEF NotifierInv, Found
  <2>4. CharKnown'
    BY <1>1, <1>3, <1>8, <1>12 DEF NotifierInv, CharKnown
  <2>5. LookedUp'
    BY <1>1, <1>3, <1>5, <1>8, <1>12, <1>13 DEF NotifierInv, LookedUp, Handling
  <2> QED
    BY <2>1, <2>2, <2>3, <2>4, <2>5 DEF NotifierInv
<1>16. MirrorInv'
  <2>1. SubscribedUp' /\ Handled'
    BY <1>1, <1>3, <1>12 DEF MirrorInv, SubscribedUp, Handled
  <2>2. Mirror'
    BY <1>1, <1>3, <1>8, <1>12 DEF MirrorInv, Mirror, Alive
  <2> QED
    BY <2>1, <2>2 DEF MirrorInv
<1> QED
  BY <1>10, <1>11, <1>15, <1>16 DEF ServerInv

LEMMA TakeCentralsKeeps ==
  ASSUME ServerInv, NEW u \in Users, TakeCentrals(u)
  PROVE  ServerInv'
<1>1. Types /\ CloseInv /\ NotifierInv /\ MirrorInv
  BY DEF ServerInv
<1>2. PICK i : i = user[u].gs
  OBVIOUS
<1>3. PICK l : l = [user[u] EXCEPT !.ending = Range(srv[i].centrals) \ {0}]
  OBVIOUS
<1>4. At(u, "takeCentrals") /\ UNCHANGED <<device, central, notifier, cb, up, subscribed, writing>> /\ GoOn(u, l)
  BY <1>2, <1>3 DEF TakeCentrals
<1>5. IsUser(l) /\ l.gs = i
  BY <1>1, <1>2, <1>3, EndingFacts
<1>6. i \in Sessions /\ srv[i].stopped
  BY <1>1, <1>2, <1>4 DEF CloseInv
<1>7. PICK z : z = NoServer.centrals
  OBVIOUS
<1>8. z \in [Addr -> {0} \cup Centrals]
  BY <1>7 DEF NoServer
<1>9. srv \in [Sessions -> ServerRec] /\ srv' = [srv EXCEPT ![i].centrals = z]
  BY <1>1, <1>2, <1>7 DEF TakeCentrals, Types
<1>10. SameServers /\ srv' \in [Sessions -> ServerRec]
  BY <1>6, <1>8, <1>9 DEF ServerRec, SameServers, SameServer
<1>11. Others(u) /\ IsUser(user'[u]) /\ (\A y : At(u, y)' => y \in {"closeCentrals"}) /\ user'[u].gs = i
  BY <1>1, <1>4, <1>5, NextStep DEF After
<1>12. Types'
  BY <1>1, <1>4, <1>10, <1>11 DEF Types, Others, device
<1>13. CloseInv'
  <2>1. \A v \in Users : \A y : v # u => (At(v, y)' <=> At(v, y)) /\ user'[v] = user[v]
    BY <1>11 DEF Others, At
  <2>2. ~ At(u, "lockServer")' /\ ~ At(u, "stopNotifiers")' /\ ~ At(u, "takeCentrals")' /\ ~ At(u, "deleteRefs")'
    BY <1>11
  <2> QED
    BY <1>1, <1>6, <1>10, <1>11, <2>1, <2>2 DEF CloseInv, SameServers, SameServer
<1> QED
  BY <1>1, <1>4, <1>10, <1>12, <1>13, SameStep DEF ServerInv

LEMMA CloseCentralFacts ==
  ASSUME Types, NEW c, CloseCentral(c)
  PROVE  central' \in [Centrals -> [made : BOOLEAN, live : BOOLEAN]]
BY DEF Types, CloseCentral

LEMMA CloseCentralsKeeps ==
  ASSUME ServerInv, NEW u \in Users, CloseCentrals(u)
  PROVE  ServerInv'
<1>1. Types /\ CloseInv /\ NotifierInv /\ MirrorInv
  BY DEF ServerInv
<1>2. PICK i : i = user[u].gs
  OBVIOUS
<1>3. At(u, "closeCentrals") /\ UNCHANGED <<device, srv, notifier, cb, up, subscribed, writing>>
  BY DEF CloseCentrals
<1>4. i \in Sessions /\ srv[i].stopped
  BY <1>1, <1>2, <1>3 DEF CloseInv
<1>5. SameServers /\ srv' \in [Sessions -> ServerRec]
  BY <1>1, <1>3 DEF Types, SameServers, SameServer
<1>6. central' \in [Centrals -> [made : BOOLEAN, live : BOOLEAN]]
  BY <1>1, CloseCentralFacts DEF CloseCentrals, Types
<1>7. Others(u) /\ IsUser(user'[u]) /\ (\A y : At(u, y)' => y \in {"closeCentrals", "deleteRefs"}) /\ user'[u].gs = i
  <2>1. IsUser(user[u]) /\ user = [v \in Users |-> user[v]]
    BY <1>1 DEF Types
  <2>2. CASE user[u].ending # {}
    <3>1. PICK c : user' = [user EXCEPT ![u].ending = @ \ {c}]
      BY <2>2 DEF CloseCentrals
    <3>2. PICK l : l = [user[u] EXCEPT !.ending = user[u].ending \ {c}]
      OBVIOUS
    <3>3. user' = [user EXCEPT ![u] = l]
      BY <3>1, <3>2
    <3>4. l.script = user[u].script
      BY <2>1, <3>2 DEF IsUser
    <3>5. IsUser(l) /\ l.gs = i
      BY <1>1, <1>2, <3>2, EndingFacts
    <3>6. user'[u] = l /\ Others(u)
      BY <2>1, <3>3 DEF Others
    <3>7. \A y : At(u, y)' => y \in {"closeCentrals"}
      BY <1>3, <3>4, <3>6 DEF At
    <3> QED
      BY <3>5, <3>6, <3>7
  <2>3. CASE user[u].ending = {}
    <3>1. GoOn(u, user[u])
      BY <2>3 DEF CloseCentrals
    <3> QED
      BY <1>1, <1>2, <1>3, <2>1, <3>1, NextStep DEF After
  <2> QED
    BY <2>2, <2>3
<1>8. Types'
  BY <1>1, <1>3, <1>5, <1>6, <1>7 DEF Types, Others, device
<1>9. CloseInv'
  <2>1. \A v \in Users : \A y : v # u => (At(v, y)' <=> At(v, y)) /\ user'[v] = user[v]
    BY <1>7 DEF Others, At
  <2>2. ~ At(u, "lockServer")' /\ ~ At(u, "stopNotifiers")' /\ ~ At(u, "takeCentrals")'
    BY <1>7
  <2> QED
    BY <1>1, <1>3, <1>4, <1>7, <2>1, <2>2 DEF CloseInv
<1> QED
  BY <1>1, <1>3, <1>5, <1>8, <1>9, SameStep DEF ServerInv

LEMMA DeleteRefsKeeps ==
  ASSUME ServerInv, NEW u \in Users, DeleteRefs(u)
  PROVE  ServerInv'
<1>1. Types /\ CloseInv /\ NotifierInv /\ MirrorInv
  BY DEF ServerInv
<1>2. PICK i : i = user[u].gs
  OBVIOUS
<1>3. At(u, "deleteRefs") /\ UNCHANGED <<device, central, notifier, cb, up, subscribed, writing>> /\ GoOn(u, user[u])
  BY DEF DeleteRefs
<1>4. i \in Sessions /\ srv[i].stopped
  BY <1>1, <1>2, <1>3 DEF CloseInv
<1>5. srv \in [Sessions -> ServerRec] /\ srv' = [srv EXCEPT ![i].refs = {}]
  BY <1>1, <1>2 DEF DeleteRefs, Types
<1>6. srv' \in [Sessions -> ServerRec]
  BY <1>4, <1>5, ZenonT(60) DEF ServerRec
<1>7. /\ \A j \in Sessions : /\ srv'[j].notifiers = srv[j].notifiers /\ srv'[j].chars = srv[j].chars
                              /\ srv'[j].mu = srv[j].mu /\ srv'[j].stopped = srv[j].stopped
      /\ \A j \in Sessions : j # i => srv'[j] = srv[j]
  BY <1>4, <1>5 DEF ServerRec
<1>8. Others(u) /\ IsUser(user'[u]) /\ \A y : At(u, y)' => y \in {"closeServer"}
  <2>1. IsUser(user[u])
    BY <1>1 DEF Types
  <2> QED
    BY <1>1, <1>3, <2>1, NextStep DEF After
<1>9. Types'
  BY <1>1, <1>3, <1>6, <1>8 DEF Types, Others, device
<1>10. CloseInv'
  <2>1. \A y \in Inside : ~ At(u, y)'
    BY <1>8 DEF Inside
  <2> QED
    BY <1>1, <1>7, <1>8, <2>1, CloseOutside
<1>11. \A j \in Sessions : (Handling(j) <=> Handling(j)') /\ Key(j)' = Key(j)
  BY <1>3 DEF Handling, Key
<1>12. NotifierInv'
  <2>1. InMap' /\ Popped' /\ PoppedOnce' /\ OldStopped' /\ WriteActive'
    BY <1>1, <1>3, <1>7 DEF NotifierInv, InMap, Popped, PoppedOnce, OldStopped, WriteActive
  <2>2. RefsKept'
    BY <1>1, <1>4, <1>7 DEF NotifierInv, RefsKept
  <2>3. CharKnown' /\ LookedUp'
    BY <1>1, <1>3, <1>7, <1>11 DEF NotifierInv, CharKnown, LookedUp
  <2>4. Found'
    BY <1>1, <1>3, <1>7 DEF NotifierInv, Found, Types, IsNotifier
  <2> QED
    BY <2>1, <2>2, <2>3, <2>4 DEF NotifierInv
<1>13. MirrorInv'
  <2>1. SubscribedUp' /\ Handled'
    BY <1>1, <1>3, <1>11 DEF MirrorInv, SubscribedUp, Handled
  <2>2. Mirror'
    BY <1>1, <1>3, <1>7, <1>11 DEF MirrorInv, Mirror, Alive
  <2> QED
    BY <2>1, <2>2 DEF MirrorInv
<1> QED
  BY <1>9, <1>10, <1>12, <1>13 DEF ServerInv

(* A service is added to a server. *)
LEMMA AddedFacts ==
  ASSUME Types, NEW u \in Users, AddServiceToGattServer(u)
  PROVE  /\ Others(u) /\ IsUser(user'[u]) /\ srv' \in [Sessions -> ServerRec] /\ running' \in SUBSET Sessions
         /\ \A y : At(u, y)' => y \in {"addServices", "storeServer"}
         /\ \A j \in Sessions :
              /\ srv'[j].notifiers = srv[j].notifiers /\ srv'[j].mu = srv[j].mu /\ srv'[j].stopped = srv[j].stopped
              /\ srv[j].chars \subseteq srv'[j].chars
              /\ \E S : srv'[j].chars = srv[j].chars \cup S /\ srv'[j].refs = srv[j].refs \cup S
<1> DEFINE Ok(s, j) == /\ s.notifiers = srv[j].notifiers /\ s.mu = srv[j].mu /\ s.stopped = srv[j].stopped
                       /\ srv[j].chars \subseteq s.chars
                       /\ \E S : s.chars = srv[j].chars \cup S /\ s.refs = srv[j].refs \cup S
<1>1. srv \in [Sessions -> ServerRec] /\ IsUser(user[u]) /\ user = [v \in Users |-> user[v]]
      /\ running \in SUBSET Sessions /\ user[u].set \subseteq Chars
  BY DEF Types, IsUser
<1>2. At(u, "addServices")
  BY DEF AddServiceToGattServer
<1>3. PICK i : i = user[u].gs
  OBVIOUS
<1>4. \A j \in Sessions : Ok(srv[j], j)
  <2> TAKE j \in Sessions
  <2>1. srv[j].chars = srv[j].chars \cup {} /\ srv[j].refs = srv[j].refs \cup {}
    BY <1>1 DEF ServerRec
  <2> QED
    BY <2>1
<1>5. \A c \in Chars : \A s \in CreateJavaCharacteristic(i, c) : i \in Sessions => s \in ServerRec /\ Ok(s, i)
  <2> TAKE c \in Chars
  <2> TAKE s \in CreateJavaCharacteristic(i, c)
  <2> HAVE i \in Sessions
  <2>1. CASE s = srv[i]
    BY <1>1, <1>4, <2>1
  <2>2. CASE s = [srv[i] EXCEPT !.chars = @ \cup {c}, !.refs = @ \cup {c}]
    <3>1. s \in ServerRec /\ s.notifiers = srv[i].notifiers /\ s.mu = srv[i].mu /\ s.stopped = srv[i].stopped
      BY <1>1, <2>2 DEF ServerRec
    <3>2. s.chars = srv[i].chars \cup {c} /\ s.refs = srv[i].refs \cup {c}
      BY <1>1, <2>2 DEF ServerRec
    <3> QED
      BY <3>1, <3>2
  <2> QED
    BY <2>1, <2>2 DEF CreateJavaCharacteristic
<1>6. ASSUME NEW s, i \in Sessions => s \in ServerRec /\ Ok(s, i), srv' = [srv EXCEPT ![i] = s]
      PROVE  srv' \in [Sessions -> ServerRec] /\ \A j \in Sessions : Ok(srv'[j], j)
  <2>1. \A j \in Sessions : srv'[j] = IF j = i THEN s ELSE srv[j]
    BY <1>1, <1>6
  <2>2. srv' \in [Sessions -> ServerRec]
    BY <1>1, <1>6, <2>1
  <2>3. \A j \in Sessions : Ok(srv'[j], j)
    BY <1>4, <1>6, <2>1
  <2> QED
    BY <2>2, <2>3
<1> HIDE DEF Ok
<1>7. CASE user[u].set = {} /\ GoOn(u, user[u]) /\ UNCHANGED <<srv, running>>
  <2>1. Others(u) /\ IsUser(user'[u]) /\ \A y : At(u, y)' => y \in {"storeServer"}
    BY <1>1, <1>2, <1>7, NextStep DEF After
  <2> QED
    BY <1>1, <1>4, <1>7, <2>1 DEF Ok
<1>8. ASSUME NEW c \in user[u].set, NEW s \in CreateJavaCharacteristic(i, c), srv' = [srv EXCEPT ![i] = s],
             user' = [user EXCEPT ![u].set = @ \ {c}], UNCHANGED running
      PROVE  /\ Others(u) /\ IsUser(user'[u]) /\ \A y : At(u, y)' => y \in {"addServices"}
             /\ srv' \in [Sessions -> ServerRec] /\ running' \in SUBSET Sessions /\ \A j \in Sessions : Ok(srv'[j], j)
  <2>1. PICK l : l = [user[u] EXCEPT !.set = user[u].set \ {c}]
    OBVIOUS
  <2>2. user' = [user EXCEPT ![u] = l]
    BY <1>8, <2>1
  <2>3. IsUser(l) /\ l.script = user[u].script
    BY <1>1, <2>1 DEF IsUser
  <2>4. user'[u] = l /\ Others(u)
    BY <1>1, <2>2 DEF Others
  <2>5. \A y : At(u, y)' => y \in {"addServices"}
    BY <1>2, <2>3, <2>4 DEF At
  <2>6. srv' \in [Sessions -> ServerRec] /\ \A j \in Sessions : Ok(srv'[j], j)
    BY <1>1, <1>5, <1>6, <1>8
  <2> QED
    BY <1>1, <1>8, <2>3, <2>4, <2>5, <2>6
<1>9. ASSUME NEW c \in user[u].set, NEW s \in CreateJavaCharacteristic(i, c), Return(u),
             \/ running' = running \ {i} /\ srv' = [srv EXCEPT ![i] = [s EXCEPT !.open = FALSE]]
             \/ UNCHANGED running /\ srv' = [srv EXCEPT ![i] = s]
      PROVE  /\ Others(u) /\ IsUser(user'[u]) /\ \A y : ~ At(u, y)'
             /\ srv' \in [Sessions -> ServerRec] /\ running' \in SUBSET Sessions /\ \A j \in Sessions : Ok(srv'[j], j)
  <2>1. Others(u) /\ IsUser(user'[u]) /\ \A y : ~ At(u, y)'
    BY <1>9, NoStep
  <2>2. PICK r : r = [s EXCEPT !.open = FALSE]
    OBVIOUS
  <2>3. i \in Sessions => s \in ServerRec /\ Ok(s, i)
    BY <1>1, <1>5, <1>9
  <2>4. s \in ServerRec => /\ r \in ServerRec /\ r.notifiers = s.notifiers /\ r.mu = s.mu /\ r.stopped = s.stopped
                           /\ r.chars = s.chars /\ r.refs = s.refs
    BY <2>2 DEF ServerRec
  <2>5. i \in Sessions => r \in ServerRec /\ Ok(r, i)
    BY <2>3, <2>4 DEF Ok
  <2>6. srv' = [srv EXCEPT ![i] = r] \/ srv' = [srv EXCEPT ![i] = s]
    BY <1>9, <2>2
  <2>7. srv' \in [Sessions -> ServerRec] /\ \A j \in Sessions : Ok(srv'[j], j)
    BY <1>6, <2>3, <2>5, <2>6
  <2> QED
    BY <1>1, <1>9, <2>1, <2>7
<1>10. \/ user[u].set = {} /\ GoOn(u, user[u]) /\ UNCHANGED <<srv, running>>
       \/ \E c \in user[u].set : \E s \in CreateJavaCharacteristic(i, c) :
            \/ srv' = [srv EXCEPT ![i] = s] /\ user' = [user EXCEPT ![u].set = @ \ {c}] /\ UNCHANGED running
            \/ /\ Return(u)
               /\ \/ running' = running \ {i} /\ srv' = [srv EXCEPT ![i] = [s EXCEPT !.open = FALSE]]
                  \/ UNCHANGED running /\ srv' = [srv EXCEPT ![i] = s]
  BY <1>3 DEF AddServiceToGattServer
<1> QED
  BY <1>7, <1>8, <1>9, <1>10 DEF Ok

LEMMA AddServiceKeeps ==
  ASSUME ServerInv, NEW u \in Users, AddServiceToGattServer(u)
  PROVE  ServerInv'
<1>1. Types /\ CloseInv /\ NotifierInv /\ MirrorInv
  BY DEF ServerInv
<1>2. /\ Others(u) /\ IsUser(user'[u]) /\ srv' \in [Sessions -> ServerRec] /\ running' \in SUBSET Sessions
      /\ \A y : At(u, y)' => y \in {"addServices", "storeServer"}
      /\ \A j \in Sessions :
           /\ srv'[j].notifiers = srv[j].notifiers /\ srv'[j].mu = srv[j].mu /\ srv'[j].stopped = srv[j].stopped
           /\ srv[j].chars \subseteq srv'[j].chars
           /\ \E S : srv'[j].chars = srv[j].chars \cup S /\ srv'[j].refs = srv[j].refs \cup S
  BY <1>1, AddedFacts
<1>3. UNCHANGED <<adapter, services, scanner, advState, gattServer, known, sessions, central, notifier, cb, up, subscribed, writing>>
  BY DEF AddServiceToGattServer
<1>4. Types'
  BY <1>1, <1>2, <1>3 DEF Types, Others
<1>5. CloseInv'
  <2>1. \A y \in Inside : ~ At(u, y)'
    BY <1>2 DEF Inside
  <2> QED
    BY <1>1, <1>2, <2>1, CloseOutside
<1>6. \A j \in Sessions : (Handling(j) <=> Handling(j)') /\ Key(j)' = Key(j)
  BY <1>3 DEF Handling, Key
<1>7. NotifierInv'
  <2>1. InMap' /\ Popped' /\ PoppedOnce' /\ OldStopped' /\ WriteActive'
    BY <1>1, <1>2, <1>3 DEF NotifierInv, InMap, Popped, PoppedOnce, OldStopped, WriteActive
  <2>2. RefsKept'
    BY <1>1, <1>2 DEF NotifierInv, RefsKept
  <2>3. CharKnown' /\ LookedUp'
    BY <1>1, <1>2, <1>3, <1>6 DEF NotifierInv, CharKnown, LookedUp
  <2>4. Found'
    BY <1>1, <1>2, <1>3 DEF NotifierInv, Found, Types, IsNotifier
  <2> QED
    BY <2>1, <2>2, <2>3, <2>4 DEF NotifierInv
<1>8. MirrorInv'
  <2>1. SubscribedUp' /\ Handled'
    BY <1>1, <1>3, <1>6 DEF MirrorInv, SubscribedUp, Handled
  <2>2. Mirror'
    BY <1>1, <1>2, <1>3, <1>6 DEF MirrorInv, Mirror, Alive
  <2> QED
    BY <2>1, <2>2 DEF MirrorInv
<1> QED
  BY <1>4, <1>5, <1>7, <1>8 DEF ServerInv

(* What the other servers are in, a callback of server i leaves alone. *)
LEMMA ElsewhereFacts ==
  ASSUME NEW i \in Sessions, Elsewhere(i)
  PROVE  \A j \in Sessions : j # i =>
           /\ srv'[j] = srv[j] /\ cb'[j] = cb[j] /\ up'[j] = up[j] /\ subscribed'[j] = subscribed[j]
           /\ Key(j)' = Key(j) /\ (Handling(j)' <=> Handling(j))
BY DEF Elsewhere, Key, Handling

(* Notifiers are popped from the map of a server for the central that goes. *)
LEMMA PopKeeps ==
  ASSUME ServerInv, NEW i \in Sessions, NEW a \in Addr, Elsewhere(i), SameFlags(i), UNCHANGED <<notifier, writing>>,
         cb[i].pc = "idle", cb'[i].pc = "stale", cb'[i].stale = PoppedFor(i, a), srv'[i].notifiers = Without(i, a),
         up[i] \ {a} \subseteq up'[i], subscribed'[i] = {k \in subscribed[i] : k[2] # a}
  PROVE  NotifierInv' /\ MirrorInv'
<1>1. Types /\ NotifierInv /\ MirrorInv
  BY DEF ServerInv
<1>2. \A j \in Sessions : j # i =>
        /\ srv'[j] = srv[j] /\ cb'[j] = cb[j] /\ up'[j] = up[j] /\ subscribed'[j] = subscribed[j]
        /\ Key(j)' = Key(j) /\ (Handling(j)' <=> Handling(j))
  BY ElsewhereFacts
<1>3. ~ Handling(i) /\ ~ Handling(i)' /\ cb[i].stale = {}
  BY <1>1 DEF Handling, Types, IsCallback
<1>4. /\ \A k \in Keys : Without(i, a)[k] = IF k[2] = a THEN 0 ELSE srv[i].notifiers[k]
      /\ PoppedFor(i, a) \in SUBSET Notifiers
      /\ \A n : n \in PoppedFor(i, a) <=> n # 0 /\ \E k \in Keys : k[2] = a /\ srv[i].notifiers[k] = n
  BY <1>1, PopFacts
<1>5. \A n \in Notifiers : notifier[n].made => notifier[n].srv \in Sessions /\ notifier[n].key \in Keys
  BY <1>1 DEF Types, IsNotifier
<1>6. \A n \in PoppedFor(i, a) : /\ notifier[n].made /\ notifier[n].srv = i /\ notifier[n].key \in Keys
                                 /\ notifier[n].key[2] = a /\ srv[i].notifiers[notifier[n].key] = n
  BY <1>1, <1>4 DEF NotifierInv, InMap
<1>7. InMap' /\ RefsKept'
  BY <1>1, <1>2, <1>4 DEF NotifierInv, InMap, RefsKept, SameFlags
<1>8. Popped'
  BY <1>1, <1>2, <1>4, <1>6 DEF NotifierInv, Popped
<1>9. PoppedOnce'
  BY <1>1, <1>2, <1>6 DEF NotifierInv, PoppedOnce
<1>10. Found'
  <2>1. SUFFICES ASSUME NEW n \in Notifiers, notifier[n].made, ~ notifier[n].done
                 PROVE  \/ srv'[notifier[n].srv].notifiers[notifier[n].key] = n
                        \/ n \in cb'[notifier[n].srv].stale
    BY DEF Found
  <2>2. srv[notifier[n].srv].notifiers[notifier[n].key] = n \/ n \in cb[notifier[n].srv].stale
    BY <1>1, <2>1 DEF NotifierInv, Found
  <2>3. CASE notifier[n].srv # i
    BY <1>2, <1>5, <2>1, <2>2, <2>3
  <2>4. CASE notifier[n].srv = i
    <3>1. srv[i].notifiers[notifier[n].key] = n /\ n # 0 /\ notifier[n].key \in Keys
      BY <1>3, <1>5, <2>1, <2>2, <2>4 DEF Notifiers
    <3> QED
      BY <1>4, <2>4, <3>1
  <2> QED
    BY <2>3, <2>4
<1>11. CharKnown' /\ WriteActive'
  BY <1>1, <1>2, <1>3 DEF NotifierInv, CharKnown, WriteActive
<1>12. LookedUp' /\ OldStopped'
  BY <1>1, <1>2, <1>3 DEF NotifierInv, LookedUp, OldStopped
<1>13. SubscribedUp' /\ Handled'
  BY <1>1, <1>2, <1>3 DEF MirrorInv, SubscribedUp, Handled
<1>14. Mirror'
  <2>1. SUFFICES ASSUME NEW j \in Sessions, ~ srv'[j].stopped, ~ srv'[j].mu, NEW k \in Keys
                 PROVE  (Handling(j)' /\ k = Key(j)') \/ (Alive(j, k)' <=> k \in subscribed'[j])
    BY DEF Mirror
  <2>2. CASE j # i
    BY <1>1, <1>2, <2>1, <2>2 DEF MirrorInv, Mirror, Alive
  <2>3. CASE j = i
    BY <1>1, <1>3, <1>4, <2>1, <2>3 DEF MirrorInv, Mirror, Alive, SameFlags
  <2> QED
    BY <2>2, <2>3
<1> QED
  BY <1>7, <1>8, <1>9, <1>10, <1>11, <1>12, <1>13, <1>14 DEF NotifierInv, MirrorInv

(* The rest of the state that callbacks and writers leave alone. *)
LEMMA AppKeeps ==
  ASSUME Types, CloseInv, UNCHANGED <<device, app>>,
         \A i \in Sessions : srv'[i].mu = srv[i].mu /\ srv'[i].stopped = srv[i].stopped
  PROVE  /\ CloseInv' /\ UNCHANGED user /\ DeviceTypes'
         /\ user' = [u \in Users |-> user'[u]] /\ \A u \in Users : IsUser(user'[u])
<1>1. UNCHANGED user
  BY DEF app
<1>2. CloseInv'
  BY <1>1, CloseSame
<1> QED
  BY <1>1, <1>2 DEF Types, DeviceTypes, device

LEMMA ConnectedKeeps ==
  ASSUME ServerInv, NEW i \in Sessions, NEW a \in Addr, OnConnected(i, a)
  PROVE  ServerInv'
<1>1. Types /\ CloseInv /\ NotifierInv /\ MirrorInv
  BY DEF ServerInv
<1>2. /\ srv' \in [Sessions -> ServerRec] /\ central' \in [Centrals -> [made : BOOLEAN, live : BOOLEAN]]
      /\ Elsewhere(i) /\ SameFlags(i)
      /\ cb' = [j \in Sessions |-> cb'[j]] /\ IsCallback(cb'[i])
      /\ \/ cb'[i] = Resting /\ srv'[i].notifiers = srv[i].notifiers
         \/ cb'[i].pc = "stale" /\ cb'[i].stale = PoppedFor(i, a) /\ srv'[i].notifiers = Without(i, a)
      /\ up' \in [Sessions -> SUBSET Addr] /\ up'[i] = up[i] \cup {a} /\ a \notin up[i]
      /\ subscribed' = subscribed /\ cb[i].pc = "idle"
  BY <1>1, ConnectedFacts
<1>3. UNCHANGED <<device, app, notifier, writing>>
  BY DEF OnConnected
<1>4. \A j \in Sessions : srv'[j].mu = srv[j].mu /\ srv'[j].stopped = srv[j].stopped
  BY <1>2 DEF Elsewhere, SameFlags
<1>5. /\ CloseInv' /\ UNCHANGED user /\ DeviceTypes'
      /\ user' = [u \in Users |-> user'[u]] /\ \A u \in Users : IsUser(user'[u])
  BY <1>1, <1>3, <1>4, AppKeeps
<1>6. Types'
  BY <1>1, <1>2, <1>3, <1>5 DEF Types, DeviceTypes, Elsewhere
<1>7. \A k \in subscribed[i] : k[2] # a
  BY <1>1, <1>2 DEF MirrorInv, SubscribedUp
<1>8. CASE cb'[i].pc = "stale" /\ cb'[i].stale = PoppedFor(i, a) /\ srv'[i].notifiers = Without(i, a)
  <2>1. subscribed'[i] = {k \in subscribed[i] : k[2] # a} /\ up[i] \ {a} \subseteq up'[i]
    BY <1>2, <1>7
  <2>2. NotifierInv' /\ MirrorInv'
    BY <1>2, <1>3, <1>8, <2>1, PopKeeps
  <2> QED
    BY <1>5, <1>6, <2>2 DEF ServerInv
<1>9. CASE cb'[i] = Resting /\ srv'[i].notifiers = srv[i].notifiers
  <2>1. \A j \in Sessions : j # i =>
          /\ srv'[j] = srv[j] /\ cb'[j] = cb[j] /\ up'[j] = up[j] /\ subscribed'[j] = subscribed[j]
          /\ Key(j)' = Key(j) /\ (Handling(j)' <=> Handling(j))
    BY <1>2, ElsewhereFacts
  <2>2. ~ Handling(i) /\ ~ Handling(i)' /\ cb[i].stale = {} /\ cb'[i].stale = {} /\ cb'[i].pc = "idle"
    BY <1>1, <1>2, <1>9, RestFacts DEF Handling, Types, IsCallback
  <2>3. SameServers
    BY <1>2, <1>9, <2>1 DEF SameServers, SameServer, SameFlags
  <2>4. InMap' /\ RefsKept' /\ WriteActive'
    BY <1>1, <1>3, <2>3 DEF NotifierInv, InMap, RefsKept, WriteActive, SameServers, SameServer
  <2>5. Popped' /\ PoppedOnce'
    BY <1>1, <1>3, <2>1, <2>2 DEF NotifierInv, Popped, PoppedOnce
  <2>6. Found'
    BY <1>1, <1>3, <1>9, <2>1, <2>2 DEF NotifierInv, Found, Types, IsNotifier
  <2>7. CharKnown' /\ OldStopped'
    BY <1>1, <1>3, <2>1, <2>2 DEF NotifierInv, CharKnown, OldStopped
  <2>8. LookedUp'
    BY <1>1, <1>3, <2>1, <2>2 DEF NotifierInv, LookedUp
  <2>9. SubscribedUp' /\ Handled'
    BY <1>1, <1>2, <2>1, <2>2 DEF MirrorInv, SubscribedUp, Handled
  <2>10. Mirror'
    BY <1>1, <1>2, <1>3, <2>1, <2>2, <2>3 DEF MirrorInv, Mirror, Alive, SameServers, SameServer
  <2> QED
    BY <1>5, <1>6, <2>4, <2>5, <2>6, <2>7, <2>8, <2>9, <2>10 DEF ServerInv, NotifierInv, MirrorInv
<1> QED
  BY <1>2, <1>8, <1>9

LEMMA DisconnectedKeeps ==
  ASSUME ServerInv, NEW i \in Sessions, NEW a \in Addr, OnDisconnected(i, a)
  PROVE  ServerInv'
<1>1. Types /\ CloseInv /\ NotifierInv /\ MirrorInv
  BY DEF ServerInv
<1>2. /\ srv' \in [Sessions -> ServerRec]
      /\ Elsewhere(i) /\ SameFlags(i)
      /\ cb' = [j \in Sessions |-> cb'[j]] /\ IsCallback(cb'[i])
      /\ cb'[i].pc = "stale" /\ cb'[i].stale = PoppedFor(i, a) /\ srv'[i].notifiers = Without(i, a)
      /\ up' \in [Sessions -> SUBSET Addr] /\ up'[i] = up[i] \ {a}
      /\ subscribed' \in [Sessions -> SUBSET Keys]
      /\ subscribed'[i] = {k \in subscribed[i] : k[2] # a} /\ cb[i].pc = "idle"
  BY <1>1, DisconnectedFacts
<1>3. UNCHANGED <<device, app, central, notifier, writing>>
  BY DEF OnDisconnected
<1>4. \A j \in Sessions : srv'[j].mu = srv[j].mu /\ srv'[j].stopped = srv[j].stopped
  BY <1>2 DEF Elsewhere, SameFlags
<1>5. /\ CloseInv' /\ UNCHANGED user /\ DeviceTypes'
      /\ user' = [u \in Users |-> user'[u]] /\ \A u \in Users : IsUser(user'[u])
  BY <1>1, <1>3, <1>4, AppKeeps
<1>6. Types'
  BY <1>1, <1>2, <1>3, <1>5 DEF Types, DeviceTypes, Elsewhere
<1>7. up[i] \ {a} \subseteq up'[i]
  BY <1>2
<1>8. NotifierInv' /\ MirrorInv'
  BY <1>2, <1>3, <1>7, PopKeeps
<1> QED
  BY <1>5, <1>6, <1>8 DEF ServerInv

LEMMA RequestKeeps ==
  ASSUME ServerInv, NEW i \in Sessions, NEW a \in Addr, OnRequest(i, a)
  PROVE  ServerInv'
<1>1. Types /\ CloseInv /\ NotifierInv /\ MirrorInv
  BY DEF ServerInv
<1>2. FindCentral(i, a) /\ UNCHANGED <<device, app, notifier, cb, up, subscribed, writing>>
  BY DEF OnRequest
<1>3. /\ srv' \in [Sessions -> ServerRec] /\ central' \in [Centrals -> [made : BOOLEAN, live : BOOLEAN]]
      /\ SameServers
  BY <1>1, <1>2, FindFacts
<1>4. \A j \in Sessions : srv'[j].mu = srv[j].mu /\ srv'[j].stopped = srv[j].stopped
  BY <1>3 DEF SameServers, SameServer
<1>5. /\ CloseInv' /\ UNCHANGED user /\ DeviceTypes'
      /\ user' = [u \in Users |-> user'[u]] /\ \A u \in Users : IsUser(user'[u])
  BY <1>1, <1>2, <1>4, AppKeeps
<1>6. Types'
  BY <1>1, <1>2, <1>3, <1>5 DEF Types, DeviceTypes
<1> QED
  BY <1>1, <1>2, <1>3, <1>5, <1>6, SameStep DEF ServerInv

LEMMA CCCDKeeps ==
  ASSUME ServerInv, NEW i \in Sessions, NEW a \in Addr, NEW c \in Chars, NEW on \in BOOLEAN, OnCCCDWrite(i, a, c, on)
  PROVE  ServerInv'
<1>1. Types /\ CloseInv /\ NotifierInv /\ MirrorInv
  BY DEF ServerInv
<1>2. /\ srv' \in [Sessions -> ServerRec] /\ central' \in [Centrals -> [made : BOOLEAN, live : BOOLEAN]]
      /\ SameServers /\ Elsewhere(i)
      /\ cb' = [j \in Sessions |-> cb'[j]] /\ IsCallback(cb'[i]) /\ cb'[i].stale = {}
      /\ cb'[i].pc = "lookup" /\ cb'[i].addr = a /\ cb'[i].char = c /\ cb'[i].on = on
      /\ subscribed' \in [Sessions -> SUBSET Keys]
      /\ subscribed'[i] = IF on THEN subscribed[i] \cup {<<c, a>>} ELSE subscribed[i] \ {<<c, a>>}
      /\ a \in up[i] /\ up' = up /\ c \in srv[i].chars /\ cb[i].pc = "idle"
  BY <1>1, CCCDFacts
<1>3. UNCHANGED <<device, app, notifier, writing>>
  BY DEF OnCCCDWrite
<1>4. \A j \in Sessions : srv'[j].mu = srv[j].mu /\ srv'[j].stopped = srv[j].stopped
  BY <1>2 DEF SameServers, SameServer
<1>5. /\ CloseInv' /\ UNCHANGED user /\ DeviceTypes'
      /\ user' = [u \in Users |-> user'[u]] /\ \A u \in Users : IsUser(user'[u])
  BY <1>1, <1>3, <1>4, AppKeeps
<1>6. Types'
  BY <1>1, <1>2, <1>3, <1>5 DEF Types, DeviceTypes, Elsewhere
<1>7. \A j \in Sessions : j # i =>
        /\ srv'[j] = srv[j] /\ cb'[j] = cb[j] /\ up'[j] = up[j] /\ subscribed'[j] = subscribed[j]
        /\ Key(j)' = Key(j) /\ (Handling(j)' <=> Handling(j))
  BY <1>2, ElsewhereFacts
<1>8. Handling(i)' /\ Key(i)' = <<c, a>> /\ ~ Handling(i) /\ cb[i].stale = {}
  BY <1>1, <1>2 DEF Handling, Key, Types, IsCallback
<1>9. SameServers
  BY <1>2
<1>10. InMap' /\ RefsKept' /\ WriteActive'
  BY <1>1, <1>3, <1>9 DEF NotifierInv, InMap, RefsKept, WriteActive, SameServers, SameServer
<1>11. Popped' /\ PoppedOnce'
  BY <1>1, <1>2, <1>3, <1>7 DEF NotifierInv, Popped, PoppedOnce
<1>12. Found'
  BY <1>1, <1>2, <1>3, <1>7, <1>8, SMTT(40) DEF NotifierInv, Found, Types, IsNotifier, SameServers, SameServer
<1>13. CharKnown' /\ OldStopped'
  BY <1>1, <1>2, <1>3, <1>7 DEF NotifierInv, CharKnown, OldStopped, SameServers, SameServer
<1>14. LookedUp'
  BY <1>1, <1>2, <1>3, <1>7 DEF NotifierInv, LookedUp
<1>15. SubscribedUp'
  <2>1. \A k \in subscribed'[i] : k \in subscribed[i] \/ k = <<c, a>>
    BY <1>2
  <2> QED
    BY <1>1, <1>2, <1>7, <2>1 DEF MirrorInv, SubscribedUp
<1>16. Handled'
  <2>1. on <=> <<c, a>> \in subscribed'[i]
    BY <1>2
  <2>2. cb'[i].on <=> <<c, a>> \in subscribed'[i]
    BY <1>2, <2>1, Zenon
  <2> QED
    BY <1>1, <1>2, <1>7, <1>8, <2>2 DEF MirrorInv, Handled
<1>17. Mirror'
  <2>1. SUFFICES ASSUME NEW j \in Sessions, ~ srv'[j].stopped, ~ srv'[j].mu, NEW k \in Keys
                 PROVE  (Handling(j)' /\ k = Key(j)') \/ (Alive(j, k)' <=> k \in subscribed'[j])
    BY DEF Mirror
  <2>2. CASE j # i
    BY <1>1, <1>3, <1>7, <2>1, <2>2 DEF MirrorInv, Mirror, Alive
  <2>3. CASE j = i
    <3>1. k = <<c, a>> \/ (k \in subscribed'[i] <=> k \in subscribed[i])
      BY <1>2
    <3>2. Alive(i, k)' <=> Alive(i, k)
      BY <1>2, <1>3 DEF Alive, SameServers, SameServer
    <3>3. ~ srv[i].stopped /\ ~ srv[i].mu
      BY <1>4, <2>1, <2>3
    <3>4. Alive(i, k) <=> k \in subscribed[i]
      BY <1>1, <1>8, <3>3 DEF MirrorInv, Mirror
    <3> QED
      BY <1>8, <2>3, <3>1, <3>2, <3>4
  <2> QED
    BY <2>2, <2>3
<1> QED
  BY <1>5, <1>6, <1>10, <1>11, <1>12, <1>13, <1>14, <1>15, <1>16, <1>17 DEF ServerInv, NotifierInv, MirrorInv

LEMMA StopStaleKeeps ==
  ASSUME ServerInv, NEW i \in Sessions, StopStale(i)
  PROVE  ServerInv'
<1>1. Types /\ CloseInv /\ NotifierInv /\ MirrorInv
  BY DEF ServerInv
<1>2. cb[i].pc = "stale" /\ UNCHANGED <<device, app, srv, up, subscribed, writing>>
  BY DEF StopStale
<1>3. /\ CloseInv' /\ UNCHANGED user /\ DeviceTypes'
      /\ user' = [u \in Users |-> user'[u]] /\ \A u \in Users : IsUser(user'[u])
  BY <1>1, <1>2, AppKeeps
<1>4. cb = [j \in Sessions |-> cb[j]] /\ IsCallback(cb[i]) /\ cb[i].stale \subseteq Notifiers
  BY <1>1 DEF Types, IsCallback
<1>5. ASSUME cb[i].stale # {} PROVE ServerInv'
  <2>1. PICK n \in cb[i].stale : /\ Stoppable(n) /\ notifier' = [notifier EXCEPT ![n].done = TRUE]
                                 /\ cb' = [cb EXCEPT ![i].stale = @ \ {n}] /\ UNCHANGED central
    BY <1>5 DEF StopStale
  <2>2. n \in Notifiers /\ writing[n] = "idle"
    BY <1>4, <2>1 DEF Stoppable
  <2>3. PICK b : b = [cb[i] EXCEPT !.stale = cb[i].stale \ {n}]
    OBVIOUS
  <2>4. cb' = [cb EXCEPT ![i] = b]
    BY <2>1, <2>3
  <2>5. IsCallback(b) /\ b.pc = "stale" /\ b.stale = cb[i].stale \ {n}
    <3>1. b.pc = "stale" /\ b.stale = cb[i].stale \ {n}
      BY <1>2, <1>4, <2>3 DEF IsCallback
    <3>2. b.on = cb[i].on
      BY <1>4, <2>3 DEF IsCallback
    <3>3. b = [pc |-> b.pc, addr |-> b.addr, char |-> b.char, on |-> b.on, c |-> b.c, old |-> b.old, stale |-> b.stale]
      BY <1>4, <2>3 DEF IsCallback
    <3> QED
      BY <1>4, <3>1, <3>2, <3>3 DEF IsCallback
  <2>6. cb' = [j \in Sessions |-> cb'[j]] /\ cb'[i] = b /\ \A j \in Sessions : j # i => cb'[j] = cb[j]
    BY <1>4, <2>4
  <2>7. notifier' = [m \in Notifiers |-> notifier'[m]] /\ \A m \in Notifiers : IsNotifier(notifier'[m])
    BY <1>1, <2>1, <2>2, DoneFacts
  <2>8. Types'
    BY <1>1, <1>2, <1>3, <2>1, <2>5, <2>6, <2>7 DEF Types, DeviceTypes
  <2>9. /\ InMap' /\ RefsKept' /\ WriteActive'
        /\ \A m \in Notifiers : /\ notifier'[m].made = notifier[m].made /\ notifier'[m].srv = notifier[m].srv
                                /\ notifier'[m].key = notifier[m].key
                                /\ (notifier[m].done => notifier'[m].done)
                                /\ (m # n => notifier'[m] = notifier[m])
        /\ \A j \in Sessions, k \in Keys : srv[j].notifiers[k] # n => (Alive(j, k)' <=> Alive(j, k))
    BY <1>1, <1>2, <2>1, <2>2, DoneKeeps
  <2>10. \A j \in Sessions : Key(j)' = Key(j) /\ (Handling(j)' <=> Handling(j))
    <3>1. ~ Handling(i) /\ ~ Handling(i)'
      BY <1>2, <2>5, <2>6 DEF Handling
    <3>2. b.char = cb[i].char /\ b.addr = cb[i].addr
      BY <1>4, <2>3 DEF IsCallback
    <3> QED
      BY <2>6, <3>1, <3>2 DEF Handling, Key
  <2>11. \A j \in Sessions : cb'[j].stale \subseteq cb[j].stale /\ cb[j].stale \subseteq Notifiers
    BY <1>1, <2>5, <2>6 DEF Types, IsCallback
  <2>12. Popped' /\ PoppedOnce'
    BY <1>1, <1>2, <2>9, <2>11 DEF NotifierInv, Popped, PoppedOnce
  <2>13. \A m \in Notifiers : m # n /\ m \in cb[notifier[m].srv].stale /\ notifier[m].srv \in Sessions
            => m \in cb'[notifier[m].srv].stale
    BY <2>5, <2>6
  <2>14. Found'
    <3>1. notifier'[n].done
      BY <1>1, <2>1, <2>2, DoneFacts
    <3>2. \A m \in Notifiers : notifier[m].made => notifier[m].srv \in Sessions
      BY <1>1 DEF Types, IsNotifier
    <3> QED
      BY <1>1, <1>2, <2>9, <2>13, <3>1, <3>2 DEF NotifierInv, Found
  <2>15. CharKnown'
    BY <1>1, <1>2, <2>6, <2>10 DEF NotifierInv, CharKnown, Handling
  <2>16. \A j \in Sessions : cb'[j].pc \in {"stop", "enter"} => cb'[j] = cb[j] /\ cb[j].old \in {0} \cup Notifiers
    BY <1>1, <2>5, <2>6 DEF Types, IsCallback
  <2>17. LookedUp'
    BY <1>1, <1>2, <2>9, <2>10, <2>16 DEF NotifierInv, LookedUp
  <2>18. OldStopped'
    BY <1>1, <2>9, <2>16 DEF NotifierInv, OldStopped
  <2>19. SubscribedUp'
    BY <1>1, <1>2 DEF MirrorInv, SubscribedUp
  <2>20. Handled'
    <3>1. ~ Handling(i)'
      BY <2>5, <2>6 DEF Handling
    <3> QED
      BY <1>1, <1>2, <2>6, <2>10, <3>1 DEF MirrorInv, Handled
  <2>21. \A j \in Sessions, k \in Keys : srv[j].notifiers[k] # n
    <3>1. n # 0 /\ notifier[n].srv = i /\ srv[i].notifiers[notifier[n].key] = 0
      BY <1>1, <2>1, <2>2 DEF NotifierInv, Popped, Notifiers
    <3> QED
      BY <1>1, <3>1 DEF NotifierInv, InMap
  <2>22. Mirror'
    BY <1>1, <1>2, <2>9, <2>10, <2>21 DEF MirrorInv, Mirror
  <2> QED
    BY <1>3, <2>8, <2>9, <2>12, <2>14, <2>15, <2>17, <2>18, <2>19, <2>20, <2>22 DEF ServerInv, NotifierInv, MirrorInv
<1>6. ASSUME cb[i].stale = {} PROVE ServerInv'
  <2>1. cb' = [cb EXCEPT ![i] = Resting] /\ UNCHANGED notifier
    BY <1>6 DEF StopStale
  <2>2. central' \in [Centrals -> [made : BOOLEAN, live : BOOLEAN]]
    BY <1>1, <1>6, CloseCentralFacts DEF StopStale, Types
  <2>3. cb' = [j \in Sessions |-> cb'[j]] /\ cb'[i] = Resting /\ \A j \in Sessions : j # i => cb'[j] = cb[j]
    BY <1>4, <2>1
  <2>4. Types'
    BY <1>1, <1>2, <1>3, <2>1, <2>2, <2>3, RestFacts DEF Types, DeviceTypes
  <2>5. /\ \A j \in Sessions : (Handling(j)' <=> Handling(j)) /\ cb'[j].stale = cb[j].stale
        /\ \A j \in Sessions : Handling(j) => cb'[j] = cb[j] /\ Key(j)' = Key(j)
        /\ \A j \in Sessions : cb'[j].pc \in {"stop", "enter"} => Handling(j) /\ cb'[j] = cb[j]
    BY <1>2, <1>6, <2>3, RestFacts DEF Handling, Key
  <2>6. InMap' /\ RefsKept' /\ WriteActive' /\ Popped' /\ PoppedOnce'
    BY <1>1, <1>2, <2>1, <2>5 DEF NotifierInv, InMap, RefsKept, WriteActive, Popped, PoppedOnce
  <2>7. Found'
    BY <1>1, <1>2, <2>1, <2>5 DEF NotifierInv, Found, Types, IsNotifier
  <2>8. CharKnown' /\ LookedUp' /\ OldStopped'
    BY <1>1, <1>2, <2>1, <2>5 DEF NotifierInv, CharKnown, LookedUp, OldStopped
  <2>9. SubscribedUp' /\ Handled'
    BY <1>1, <1>2, <2>5 DEF MirrorInv, SubscribedUp, Handled
  <2>10. Mirror'
    BY <1>1, <1>2, <2>1, <2>5 DEF MirrorInv, Mirror, Alive
  <2> QED
    BY <1>3, <2>4, <2>6, <2>7, <2>8, <2>9, <2>10 DEF ServerInv, NotifierInv, MirrorInv
<1> QED
  BY <1>5, <1>6

(* The next step of the CCCD write that server i handles. *)
LEMMA HandledFacts ==
  ASSUME Types, NEW i \in Sessions, NEW pc \in {"stop", "enter"}, NEW old \in {0} \cup Notifiers,
         Handling(i), cb' = [cb EXCEPT ![i].pc = pc, ![i].old = old]
  PROVE  /\ cb' = [j \in Sessions |-> cb'[j]] /\ \A j \in Sessions : IsCallback(cb'[j])
         /\ cb'[i].pc = pc /\ cb'[i].old = old
         /\ \A j \in Sessions : j # i => cb'[j] = cb[j]
         /\ \A j \in Sessions : (Handling(j)' <=> Handling(j)) /\ Key(j)' = Key(j) /\ cb'[j].stale = cb[j].stale
                               /\ (cb'[j].on <=> cb[j].on) /\ cb'[j].addr = cb[j].addr /\ cb'[j].char = cb[j].char
<1>1. cb = [j \in Sessions |-> cb[j]] /\ \A j \in Sessions : IsCallback(cb[j])
  BY DEF Types
<1>2. PICK b : b = cb[i]
  OBVIOUS
<1>3. PICK r : r = [b EXCEPT !.pc = pc, !.old = old]
  OBVIOUS
<1>4. cb' = [cb EXCEPT ![i] = r]
  BY <1>2, <1>3
<1>5. b = [pc |-> b.pc, addr |-> b.addr, char |-> b.char, on |-> b.on, c |-> b.c, old |-> b.old, stale |-> b.stale]
      /\ b.on \in BOOLEAN /\ b.addr \in Addr /\ b.char \in Chars /\ b.stale = {}
  BY <1>1, <1>2 DEF IsCallback, Handling
<1>6. r = [pc |-> pc, addr |-> b.addr, char |-> b.char, on |-> b.on, c |-> b.c, old |-> old, stale |-> b.stale]
  BY <1>3, <1>5
<1>7. r.pc = pc /\ r.addr = b.addr /\ r.char = b.char /\ r.stale = b.stale /\ r.old = old
  BY <1>6
<1>8. r.on = b.on
  BY <1>6
<1>9. r = [pc |-> r.pc, addr |-> r.addr, char |-> r.char, on |-> r.on, c |-> r.c, old |-> r.old, stale |-> r.stale]
  BY <1>6
<1>10. IsCallback(r)
  BY <1>5, <1>7, <1>8, <1>9 DEF IsCallback
<1>11. cb' = [j \in Sessions |-> cb'[j]] /\ cb'[i] = r /\ \A j \in Sessions : j # i => cb'[j] = cb[j]
  BY <1>1, <1>4
<1>12. \A j \in Sessions : IsCallback(cb'[j])
  BY <1>1, <1>10, <1>11
<1>13. Handling(i)' /\ Key(i)' = Key(i)
  BY <1>2, <1>7, <1>11 DEF Handling, Key
<1>14. cb'[i].on <=> cb[i].on
  BY <1>2, <1>8, <1>11, Zenon
<1>15. \A j \in Sessions : j # i => (Handling(j)' <=> Handling(j)) /\ Key(j)' = Key(j)
  BY <1>11 DEF Handling, Key
<1>16. \A j \in Sessions : cb'[j].stale = cb[j].stale /\ cb'[j].addr = cb[j].addr /\ cb'[j].char = cb[j].char
  BY <1>2, <1>7, <1>11
<1>17. \A j \in Sessions : cb'[j].on <=> cb[j].on
  BY <1>11, <1>14, Zenon
<1> QED
  BY <1>7, <1>11, <1>12, <1>13, <1>15, <1>16, <1>17

LEMMA LookUpKeeps ==
  ASSUME ServerInv, NEW i \in Sessions, LookUp(i)
  PROVE  ServerInv'
<1>1. Types /\ CloseInv /\ NotifierInv /\ MirrorInv
  BY DEF ServerInv
<1>2. PICK old : old = srv[i].notifiers[Key(i)]
  OBVIOUS
<1>3. Handling(i) /\ cb' = [cb EXCEPT ![i].pc = "stop", ![i].old = old]
  BY <1>2 DEF LookUp, Handling, Key
<1>4. UNCHANGED <<device, app, srv, central, notifier, up, subscribed, writing>>
  BY DEF LookUp
<1>5. Key(i) \in Keys
  BY <1>1, <1>3 DEF Types, IsCallback, Handling, Key, Keys
<1>6. old \in {0} \cup Notifiers
  BY <1>1, <1>2, <1>5 DEF Types, ServerRec
<1>7. /\ cb' = [j \in Sessions |-> cb'[j]] /\ \A j \in Sessions : IsCallback(cb'[j])
      /\ cb'[i].pc = "stop" /\ cb'[i].old = old
      /\ \A j \in Sessions : j # i => cb'[j] = cb[j]
      /\ \A j \in Sessions : (Handling(j)' <=> Handling(j)) /\ Key(j)' = Key(j) /\ cb'[j].stale = cb[j].stale
                            /\ (cb'[j].on <=> cb[j].on) /\ cb'[j].addr = cb[j].addr /\ cb'[j].char = cb[j].char
  BY <1>1, <1>3, <1>6, HandledFacts
<1>8. /\ CloseInv' /\ UNCHANGED user /\ DeviceTypes'
      /\ user' = [u \in Users |-> user'[u]] /\ \A u \in Users : IsUser(user'[u])
  BY <1>1, <1>4, AppKeeps
<1>9. Types'
  BY <1>1, <1>4, <1>7, <1>8 DEF Types, DeviceTypes
<1>10. InMap' /\ RefsKept' /\ WriteActive' /\ Popped' /\ PoppedOnce'
  BY <1>1, <1>4, <1>7 DEF NotifierInv, InMap, RefsKept, WriteActive, Popped, PoppedOnce
<1>11. Found'
  BY <1>1, <1>4, <1>7 DEF NotifierInv, Found, Types, IsNotifier
<1>12. CharKnown' /\ OldStopped'
  BY <1>1, <1>4, <1>7 DEF NotifierInv, CharKnown, OldStopped
<1>13. LookedUp'
  <2>1. old # 0 => notifier[old].made /\ notifier[old].srv = i /\ notifier[old].key = Key(i)
    BY <1>1, <1>2, <1>5 DEF NotifierInv, InMap
  <2> QED
    BY <1>1, <1>2, <1>4, <1>7, <2>1 DEF NotifierInv, LookedUp
<1>14. SubscribedUp' /\ Handled'
  BY <1>1, <1>4, <1>7 DEF MirrorInv, SubscribedUp, Handled
<1>15. Mirror'
  BY <1>1, <1>4, <1>7 DEF MirrorInv, Mirror, Alive
<1> QED
  BY <1>8, <1>9, <1>10, <1>11, <1>12, <1>13, <1>14, <1>15 DEF ServerInv, NotifierInv, MirrorInv

LEMMA StopExistingKeeps ==
  ASSUME ServerInv, NEW i \in Sessions, StopExisting(i)
  PROVE  ServerInv'
<1>1. Types /\ CloseInv /\ NotifierInv /\ MirrorInv
  BY DEF ServerInv
<1>2. PICK old : old = cb[i].old
  OBVIOUS
<1>3. /\ cb[i].pc = "stop" /\ cb' = [cb EXCEPT ![i].pc = "enter"]
      /\ IF old = 0 THEN UNCHANGED notifier
           ELSE Stoppable(old) /\ notifier' = [notifier EXCEPT ![old].done = TRUE]
  BY <1>2 DEF StopExisting
<1>4. UNCHANGED <<device, app, srv, central, up, subscribed, writing>>
  BY DEF StopExisting
<1>5. Handling(i) /\ IsCallback(cb[i]) /\ old \in {0} \cup Notifiers
  BY <1>1, <1>2, <1>3 DEF Types, IsCallback, Handling
<1>6. cb' = [cb EXCEPT ![i].pc = "enter", ![i].old = old]
  <2>1. PICK b : b = cb[i]
    OBVIOUS
  <2>2. b = [pc |-> b.pc, addr |-> b.addr, char |-> b.char, on |-> b.on, c |-> b.c, old |-> b.old, stale |-> b.stale]
    BY <1>5, <2>1 DEF IsCallback
  <2>3. PICK r : r = [b EXCEPT !.pc = "enter"]
    OBVIOUS
  <2>4. r = [pc |-> "enter", addr |-> b.addr, char |-> b.char, on |-> b.on, c |-> b.c, old |-> b.old, stale |-> b.stale]
    BY <2>2, <2>3
  <2>5. PICK q : q = [b EXCEPT !.pc = "enter", !.old = old]
    OBVIOUS
  <2>6. q = [pc |-> "enter", addr |-> b.addr, char |-> b.char, on |-> b.on, c |-> b.c, old |-> old, stale |-> b.stale]
    BY <2>2, <2>5
  <2>7. old = b.old
    BY <1>2, <2>1
  <2>8. r = q
    BY <2>4, <2>6, <2>7
  <2> QED
    BY <1>3, <2>1, <2>3, <2>5, <2>8
<1>7. /\ cb' = [j \in Sessions |-> cb'[j]] /\ \A j \in Sessions : IsCallback(cb'[j])
      /\ cb'[i].pc = "enter" /\ cb'[i].old = old
      /\ \A j \in Sessions : j # i => cb'[j] = cb[j]
      /\ \A j \in Sessions : (Handling(j)' <=> Handling(j)) /\ Key(j)' = Key(j) /\ cb'[j].stale = cb[j].stale
                            /\ (cb'[j].on <=> cb[j].on) /\ cb'[j].addr = cb[j].addr /\ cb'[j].char = cb[j].char
  BY <1>1, <1>5, <1>6, HandledFacts
<1>8. /\ CloseInv' /\ UNCHANGED user /\ DeviceTypes'
      /\ user' = [u \in Users |-> user'[u]] /\ \A u \in Users : IsUser(user'[u])
  BY <1>1, <1>4, AppKeeps
<1>9. old # 0 => notifier[old].srv = i /\ notifier[old].key = Key(i)
  BY <1>1, <1>2, <1>3 DEF NotifierInv, LookedUp
<1>10. /\ InMap' /\ RefsKept' /\ WriteActive'
       /\ \A m \in Notifiers : /\ notifier'[m].made = notifier[m].made /\ notifier'[m].srv = notifier[m].srv
                               /\ notifier'[m].key = notifier[m].key
                               /\ (notifier[m].done => notifier'[m].done)
       /\ \A j \in Sessions, k \in Keys : (j = i /\ k = Key(i)) \/ (Alive(j, k)' <=> Alive(j, k))
       /\ notifier' = [m \in Notifiers |-> notifier'[m]] /\ \A m \in Notifiers : IsNotifier(notifier'[m])
       /\ old # 0 => notifier'[old].done
  <2>1. CASE old = 0
    <3>1. UNCHANGED notifier
      BY <1>3, <2>1
    <3>2. InMap' /\ RefsKept' /\ WriteActive'
      BY <1>1, <1>4, <3>1 DEF NotifierInv, InMap, RefsKept, WriteActive
    <3>3. \A j \in Sessions, k \in Keys : Alive(j, k)' <=> Alive(j, k)
      BY <1>4, <3>1 DEF Alive
    <3> QED
      BY <1>1, <2>1, <3>1, <3>2, <3>3 DEF Types
  <2>2. CASE old # 0
    <3>1. old \in Notifiers /\ writing[old] = "idle" /\ notifier' = [notifier EXCEPT ![old].done = TRUE]
      BY <1>3, <1>5, <2>2 DEF Stoppable
    <3>2. /\ InMap' /\ RefsKept' /\ WriteActive'
          /\ \A m \in Notifiers : /\ notifier'[m].made = notifier[m].made /\ notifier'[m].srv = notifier[m].srv
                                  /\ notifier'[m].key = notifier[m].key
                                  /\ (notifier[m].done => notifier'[m].done)
                                  /\ (m # old => notifier'[m] = notifier[m])
          /\ \A j \in Sessions, k \in Keys : srv[j].notifiers[k] # old => (Alive(j, k)' <=> Alive(j, k))
      BY <1>1, <1>4, <3>1, DoneKeeps
    <3>3. notifier' = [m \in Notifiers |-> notifier'[m]] /\ (\A m \in Notifiers : IsNotifier(notifier'[m]))
          /\ notifier'[old].done
      BY <1>1, <3>1, DoneFacts
    <3>4. \A j \in Sessions, k \in Keys : srv[j].notifiers[k] = old => j = i /\ k = Key(i)
      BY <1>1, <1>9, <2>2 DEF NotifierInv, InMap
    <3> QED
      BY <3>2, <3>3, <3>4
  <2> QED
    BY <2>1, <2>2
<1>11. Types'
  BY <1>1, <1>4, <1>7, <1>8, <1>10 DEF Types, DeviceTypes
<1>12. \A j \in Sessions : cb[j].stale \subseteq Notifiers
  BY <1>1 DEF Types, IsCallback
<1>13. Popped' /\ PoppedOnce'
  BY <1>1, <1>4, <1>7, <1>10, <1>12 DEF NotifierInv, Popped, PoppedOnce
<1>14. Found'
  BY <1>1, <1>4, <1>7, <1>10 DEF NotifierInv, Found, Types, IsNotifier
<1>15. CharKnown'
  BY <1>1, <1>4, <1>7 DEF NotifierInv, CharKnown
<1>16. \A j \in Sessions : cb'[j].pc \in {"stop", "enter"} => cb[j].pc \in {"stop", "enter"} /\ cb'[j].old = cb[j].old
                             /\ cb[j].old \in {0} \cup Notifiers
  BY <1>1, <1>2, <1>3, <1>7 DEF Types, IsCallback
<1>17. LookedUp'
  BY <1>1, <1>4, <1>7, <1>10, <1>16 DEF NotifierInv, LookedUp
<1>18. OldStopped'
  BY <1>1, <1>7, <1>10, <1>16 DEF NotifierInv, OldStopped
<1>19. SubscribedUp' /\ Handled'
  BY <1>1, <1>4, <1>7 DEF MirrorInv, SubscribedUp, Handled
<1>20. Mirror'
  BY <1>1, <1>4, <1>5, <1>7, <1>10 DEF MirrorInv, Mirror
<1> QED
  BY <1>8, <1>10, <1>11, <1>13, <1>14, <1>15, <1>17, <1>18, <1>19, <1>20 DEF ServerInv, NotifierInv, MirrorInv

(* The notifier of the CCCD write is deleted, or replaced by a new one. *)
LEMMA EnterKeeps ==
  ASSUME ServerInv, NEW i \in Sessions, EnterNotifier(i)
  PROVE  ServerInv'
<1>1. Types /\ CloseInv /\ NotifierInv /\ MirrorInv
  BY DEF ServerInv
<1>2. cb[i].pc = "enter" /\ ~ srv[i].mu /\ cb' = [cb EXCEPT ![i] = Resting]
      /\ UNCHANGED <<device, app, central, up, subscribed, writing>>
  BY DEF EnterNotifier
<1>3. PICK key : key = Key(i)
  OBVIOUS
<1>4. Handling(i) /\ key \in Keys /\ key[1] \in srv[i].chars /\ cb[i].stale = {} /\ cb[i].old \in {0} \cup Notifiers
  <2>1. IsCallback(cb[i]) /\ Handling(i)
    BY <1>1, <1>2 DEF Types, Handling
  <2>2. cb[i].char \in Chars /\ cb[i].addr \in Addr /\ cb[i].stale = {} /\ cb[i].old \in {0} \cup Notifiers
    BY <1>2, <2>1 DEF IsCallback
  <2>3. key = <<cb[i].char, cb[i].addr>>
    BY <1>3 DEF Key
  <2>4. key \in Keys /\ key[1] = cb[i].char
    BY <2>2, <2>3 DEF Keys
  <2>5. cb[i].char \in srv[i].chars
    BY <1>1, <2>1 DEF NotifierInv, CharKnown
  <2> QED
    BY <2>1, <2>2, <2>4, <2>5
<1>5. cb' = [j \in Sessions |-> cb'[j]] /\ cb'[i] = Resting /\ \A j \in Sessions : j # i => cb'[j] = cb[j]
  BY <1>1, <1>2 DEF Types
<1>6. srv[i].notifiers[key] = 0 \/ notifier[srv[i].notifiers[key]].done
  BY <1>1, <1>2, <1>3 DEF NotifierInv, LookedUp, OldStopped
<1>7. PICK v \in {0} \cup Notifiers : /\ srv' = [srv EXCEPT ![i].notifiers[key] = v]
        /\ \/ ~ cb[i].on /\ v = 0 /\ UNCHANGED notifier
           \/ /\ cb[i].on /\ v \in Notifiers /\ ~ notifier[v].made
              /\ notifier' = [notifier EXCEPT ![v] = [made |-> TRUE, c |-> cb[i].c, srv |-> i, key |-> key,
                                                      done |-> FALSE, late |-> srv[i].stopped]]
  <2>1. CASE cb[i].on
    <3>1. PICK n : n = Fresh(notifier)
      OBVIOUS
    <3>2. MayMake(notifier)
      BY <2>1 DEF EnterNotifier
    <3>3. n \in Notifiers /\ ~ notifier[n].made
      BY <1>1, <3>1, <3>2, FreshFacts DEF Types
    <3>4. /\ notifier' = [notifier EXCEPT ![n] = [made |-> TRUE, c |-> cb[i].c, srv |-> i, key |-> key,
                                                      done |-> FALSE, late |-> srv[i].stopped]]
          /\ srv' = [srv EXCEPT ![i].notifiers[key] = n]
      BY <1>3, <2>1, <3>1, Zenon DEF EnterNotifier, Key
    <3> QED
      BY <2>1, <3>3, <3>4, Zenon
  <2>2. CASE ~ cb[i].on
    <3>1. PICK n : n = IF cb[i].old = 0 THEN srv[i].notifiers[key] ELSE 0
      OBVIOUS
    <3>2. n = 0
      BY <1>1, <1>2, <1>3, <3>1 DEF NotifierInv, LookedUp
    <3>3. srv \in [Sessions -> ServerRec] /\ srv[i].notifiers \in [Keys -> {0} \cup Notifiers]
      BY <1>1 DEF Types, ServerRec
    <3>4. srv' = [srv EXCEPT ![i].notifiers[key] = IF cb[i].old = 0 THEN @ ELSE 0] /\ UNCHANGED notifier
      BY <1>3, <2>2, Zenon DEF EnterNotifier, Key
    <3>5. srv' = [srv EXCEPT ![i].notifiers[key] = n]
      BY <1>4, <3>1, <3>3, <3>4
    <3> QED
      BY <2>2, <3>2, <3>4, <3>5
  <2> QED
    BY <2>1, <2>2
<1>8. srv \in [Sessions -> ServerRec]
  BY <1>1 DEF Types
<1>9. /\ srv' \in [Sessions -> ServerRec] /\ \A j \in Sessions : j # i => srv'[j] = srv[j]
      /\ SameFlags(i) /\ srv'[i].notifiers[key] = v
      /\ \A k \in Keys : k # key => srv'[i].notifiers[k] = srv[i].notifiers[k]
  <2>1. PICK ns : ns = [srv[i].notifiers EXCEPT ![key] = v]
    OBVIOUS
  <2>2. /\ ns \in [Keys -> {0} \cup Notifiers] /\ ns[key] = v
        /\ \A k \in Keys : k # key => ns[k] = srv[i].notifiers[k]
    BY <1>4, <1>8, <2>1 DEF ServerRec
  <2>3. srv' = [srv EXCEPT ![i].notifiers = ns]
    BY <1>7, <2>1
  <2>4. srv' \in [Sessions -> ServerRec] /\ (\A j \in Sessions : j # i => srv'[j] = srv[j]) /\ SameFlags(i)
        /\ srv'[i].notifiers = ns
    BY <1>8, <2>2, <2>3 DEF ServerRec, SameFlags
  <2> QED
    BY <2>2, <2>4
<1>10. /\ notifier' = [m \in Notifiers |-> notifier'[m]] /\ \A m \in Notifiers : IsNotifier(notifier'[m])
       /\ \A m \in Notifiers : m # v => notifier'[m] = notifier[m]
       /\ v # 0 => /\ ~ notifier[v].made /\ v \in Notifiers /\ cb[i].on /\ ~ notifier'[v].done
                   /\ notifier'[v].made /\ notifier'[v].srv = i /\ notifier'[v].key = key
                   /\ notifier'[v].late = srv[i].stopped
       /\ v = 0 => ~ cb[i].on
  <2>1. notifier = [m \in Notifiers |-> notifier[m]] /\ \A m \in Notifiers : IsNotifier(notifier[m])
    BY <1>1 DEF Types
  <2>2. 0 \notin Notifiers
    BY DEF Notifiers
  <2>3. CASE v = 0
    BY <1>7, <2>1, <2>2, <2>3
  <2>4. CASE v # 0
    <3>1. PICK r : r = [made |-> TRUE, c |-> cb[i].c, srv |-> i, key |-> key, done |-> FALSE, late |-> srv[i].stopped]
      OBVIOUS
    <3>2. notifier' = [notifier EXCEPT ![v] = r] /\ v \in Notifiers /\ ~ notifier[v].made /\ cb[i].on
      BY <1>7, <2>4, <3>1, Zenon
    <3>3. r.srv = i /\ r.key = key
      BY <3>1
    <3>4. r.made = TRUE
      BY <3>1
    <3>5. r.done = FALSE
      BY <3>1
    <3>6. r.late = srv[i].stopped
      BY <3>1
    <3>7. r = [made |-> r.made, c |-> r.c, srv |-> r.srv, key |-> r.key, done |-> r.done, late |-> r.late]
      BY <3>1
    <3>8. srv[i].stopped \in BOOLEAN
      BY <1>8 DEF ServerRec
    <3>9. IsNotifier(r)
      BY <1>4, <3>3, <3>4, <3>5, <3>6, <3>7, <3>8 DEF IsNotifier
    <3>10. notifier' = [m \in Notifiers |-> notifier'[m]] /\ notifier'[v] = r
           /\ \A m \in Notifiers : m # v => notifier'[m] = notifier[m]
      BY <2>1, <3>2
    <3>11. \A m \in Notifiers : IsNotifier(notifier'[m])
      BY <2>1, <3>9, <3>10
    <3>12. ~ notifier'[v].done /\ notifier'[v].made /\ notifier'[v].late = srv[i].stopped
      BY <3>4, <3>5, <3>6, <3>10, Zenon
    <3>13. notifier'[v].srv = i /\ notifier'[v].key = key
      BY <3>3, <3>10
    <3> QED
      BY <2>4, <3>2, <3>10, <3>11, <3>12, <3>13, Zenon
  <2> QED
    BY <2>3, <2>4
<1>11. \A j \in Sessions : srv'[j].mu = srv[j].mu /\ srv'[j].stopped = srv[j].stopped
                          /\ srv'[j].chars = srv[j].chars /\ srv'[j].refs = srv[j].refs
  BY <1>9 DEF SameFlags
<1>12. /\ CloseInv' /\ UNCHANGED user /\ DeviceTypes'
       /\ user' = [u \in Users |-> user'[u]] /\ \A u \in Users : IsUser(user'[u])
  BY <1>1, <1>2, <1>11, AppKeeps
<1>13. Types'
  BY <1>1, <1>2, <1>5, <1>9, <1>10, <1>12, RestFacts DEF Types, DeviceTypes
<1>14. /\ \A j \in Sessions : cb'[j].stale = cb[j].stale
       /\ \A j \in Sessions : Handling(j)' => j # i /\ Handling(j) /\ cb'[j] = cb[j] /\ Key(j)' = Key(j)
       /\ \A j \in Sessions : j # i /\ Handling(j) => Handling(j)'
       /\ \A j \in Sessions : cb'[j].pc \in {"stop", "enter"} => Handling(j)' /\ j # i /\ cb'[j] = cb[j]
  BY <1>4, <1>5, RestFacts DEF Handling, Key
<1>15. \A j \in Sessions, k \in Keys : /\ (j # i \/ k # key) => srv'[j].notifiers[k] = srv[j].notifiers[k]
                                       /\ srv[j].notifiers[k] \in {0} \cup Notifiers
  BY <1>8, <1>9 DEF ServerRec
<1>16. v \in Notifiers => v # 0
  BY DEF Notifiers
<1>17. \A j \in Sessions, k \in Keys : srv[j].notifiers[k] # 0 => srv[j].notifiers[k] # v
  BY <1>1, <1>10 DEF NotifierInv, InMap
<1>18. InMap'
  <2>1. SUFFICES ASSUME NEW j \in Sessions, NEW k \in Keys, srv'[j].notifiers[k] # 0
                 PROVE  /\ notifier'[srv'[j].notifiers[k]].made /\ notifier'[srv'[j].notifiers[k]].srv = j
                        /\ notifier'[srv'[j].notifiers[k]].key = k /\ k[1] \in srv'[j].chars
                        /\ srv'[j].stopped => notifier'[srv'[j].notifiers[k]].late
    BY DEF InMap
  <2>2. CASE j = i /\ k = key
    BY <1>4, <1>9, <1>10, <1>11, <2>1, <2>2
  <2>3. CASE j # i \/ k # key
    <3>1. srv'[j].notifiers[k] = srv[j].notifiers[k] /\ srv[j].notifiers[k] # 0
          /\ notifier'[srv[j].notifiers[k]] = notifier[srv[j].notifiers[k]]
      BY <1>10, <1>15, <1>17, <2>1, <2>3
    <3> QED
      BY <1>1, <1>11, <3>1 DEF NotifierInv, InMap
  <2> QED
    BY <2>2, <2>3
<1>19. RefsKept'
  BY <1>1, <1>11 DEF NotifierInv, RefsKept
<1>20. WriteActive'
  <2>1. \A n \in Notifiers : notifier[n].made => notifier'[n] = notifier[n]
    BY <1>10, <1>16
  <2>2. writing' = writing
    BY <1>2
  <2> QED
    BY <1>1, <2>1, <2>2 DEF NotifierInv, WriteActive
<1>21. \A j \in Sessions : \A n \in cb[j].stale : n \in Notifiers /\ n # v /\ j # i /\ notifier'[n] = notifier[n]
  <2>1. \A j \in Sessions : \A n \in cb[j].stale : n \in Notifiers /\ notifier[n].made
    BY <1>1 DEF NotifierInv, Popped, Types, IsCallback
  <2>2. \A n \in Notifiers : notifier[n].made => n # v
    BY <1>10, <1>16
  <2> QED
    BY <1>4, <1>10, <2>1, <2>2
<1>22. Popped' /\ PoppedOnce'
  BY <1>1, <1>9, <1>14, <1>21 DEF NotifierInv, Popped, PoppedOnce
<1>23. Found'
  <2>1. SUFFICES ASSUME NEW n \in Notifiers, notifier'[n].made, ~ notifier'[n].done
                 PROVE  \/ srv'[notifier'[n].srv].notifiers[notifier'[n].key] = n
                        \/ n \in cb'[notifier'[n].srv].stale
    BY DEF Found
  <2>2. CASE n = v
    BY <1>9, <1>10, <1>16, <2>2
  <2>3. CASE n # v
    <3>1. notifier'[n] = notifier[n] /\ notifier[n].srv \in Sessions /\ notifier[n].key \in Keys
      BY <1>1, <1>10, <2>1, <2>3 DEF Types, IsNotifier
    <3>2. srv[notifier[n].srv].notifiers[notifier[n].key] = n \/ n \in cb[notifier[n].srv].stale
      BY <1>1, <2>1, <3>1 DEF NotifierInv, Found
    <3>3. CASE notifier[n].srv = i /\ notifier[n].key = key
      <4>1. n # 0
        BY DEF Notifiers
      <4> QED
        BY <1>4, <1>6, <2>1, <3>1, <3>2, <3>3, <4>1
    <3>4. CASE notifier[n].srv # i \/ notifier[n].key # key
      BY <1>14, <1>15, <3>1, <3>2, <3>4
    <3> QED
      BY <3>3, <3>4
  <2> QED
    BY <2>2, <2>3
<1>24. CharKnown'
  BY <1>1, <1>11, <1>14 DEF NotifierInv, CharKnown
<1>25. \A j \in Sessions : cb'[j].pc \in {"stop", "enter"} =>
         /\ cb[j].pc \in {"stop", "enter"} /\ cb'[j].old = cb[j].old /\ Key(j)' = Key(j) /\ srv'[j] = srv[j]
         /\ (cb[j].old # 0 => notifier'[cb[j].old] = notifier[cb[j].old])
  <2>1. \A j \in Sessions : cb[j].pc \in {"stop", "enter"} /\ cb[j].old # 0 => cb[j].old \in Notifiers
        /\ notifier[cb[j].old].made
    BY <1>1 DEF NotifierInv, LookedUp, Types, IsCallback
  <2>2. \A n \in Notifiers : notifier[n].made => n # v
    BY <1>10, <1>16
  <2> QED
    BY <1>9, <1>10, <1>14, <2>1, <2>2
<1>26. LookedUp' /\ OldStopped'
  BY <1>1, <1>14, <1>25 DEF NotifierInv, LookedUp, OldStopped
<1>27. SubscribedUp' /\ Handled'
  BY <1>1, <1>2, <1>14 DEF MirrorInv, SubscribedUp, Handled
<1>28. Mirror'
  <2>1. SUFFICES ASSUME NEW j \in Sessions, ~ srv'[j].stopped, ~ srv'[j].mu, NEW k \in Keys
                 PROVE  (Handling(j)' /\ k = Key(j)') \/ (Alive(j, k)' <=> k \in subscribed[j])
    BY <1>2 DEF Mirror
  <2>2. ~ srv[j].stopped /\ ~ srv[j].mu
    BY <1>11, <2>1
  <2>3. (Handling(j) /\ k = Key(j)) \/ (Alive(j, k) <=> k \in subscribed[j])
    BY <1>1, <2>2 DEF MirrorInv, Mirror
  <2>4. CASE j = i /\ k = key
    <3>1. cb[i].on <=> key \in subscribed[i]
      BY <1>1, <1>3, <1>4 DEF MirrorInv, Handled
    <3>2. Alive(i, key)' <=> v # 0
      BY <1>9, <1>10 DEF Alive
    <3>3. cb[i].on <=> v # 0
      BY <1>10
    <3> QED
      BY <2>4, <3>1, <3>2, <3>3
  <2>5. CASE j # i \/ k # key
    <3>1. Alive(j, k)' <=> Alive(j, k)
      <4>1. srv'[j].notifiers[k] = srv[j].notifiers[k]
        BY <1>15, <2>5
      <4>2. srv[j].notifiers[k] # 0 => notifier'[srv[j].notifiers[k]] = notifier[srv[j].notifiers[k]]
        BY <1>10, <1>15, <1>17
      <4> QED
        BY <4>1, <4>2 DEF Alive
    <3>2. Handling(j) /\ k = Key(j) => Handling(j)' /\ k = Key(j)'
      BY <1>3, <1>14, <2>5
    <3> QED
      BY <2>3, <3>1, <3>2
  <2> QED
    BY <2>4, <2>5
<1> QED
  BY <1>12, <1>13, <1>18, <1>19, <1>20, <1>22, <1>23, <1>24, <1>26, <1>27, <1>28 DEF ServerInv, NotifierInv, MirrorInv

(* With one caller: the step a call is at after each step. *)
LEMMA PcNext ==
  ASSUME Types, NEW u \in Users, NEW x, At(u, x), NEW l, IsUser(l), GoOn(u, l)
  PROVE  /\ Pc(u) = x /\ Pc(u)' \in After(x) \cup {"none"} /\ (x \notin Last => Pc(u)' # "none")
         /\ \A y : Has(user[u].script, y) <=> y = x \/ Has(user'[u].script, y)
         /\ Len(user'[u].script) \in Nat /\ Len(user'[u].script) + 1 = Len(user[u].script)
         /\ (Pc(u)' = "none" <=> Len(user'[u].script) = 0)
         /\ (Pc(u)' = "none" => \A y : ~ Has(user'[u].script, y))
         /\ user'[u].id = l.id /\ user'[u].gs = l.gs
<1>1. user[u].script # <<>> /\ Head(user[u].script) = x /\ IsScript(user[u].script)
  BY DEF At, Types, IsUser
<1>2. user'[u].script = Tail(user[u].script) /\ user'[u].id = l.id /\ user'[u].gs = l.gs
  BY <1>1, GoOnFacts
<1>3. PICK t : t = Tail(user[u].script)
  OBVIOUS
<1>4. /\ IsScript(t) /\ (t = <<>> => x \in Last) /\ (t # <<>> => Head(t) \in After(x))
         /\ Len(t) + 1 = Len(user[u].script)
      /\ \A y : Has(user[u].script, y) <=> x = y \/ Has(t, y)
  BY <1>1, <1>3, TailFacts
<1>5. t \in Seq(Strings) /\ Len(t) \in Nat /\ (t = <<>> <=> Len(t) = 0)
  BY <1>4 DEF IsScript
<1>6. t # <<>> => Head(t) # "none"
  <2> HAVE t # <<>>
  <2>1. Head(t) \in Strings
    BY <1>4, TailFacts
  <2> QED
    BY <2>1 DEF Strings
<1>7. t = <<>> => \A y : ~ Has(t, y)
  BY DEF Has
<1>8. Pc(u) = x /\ Pc(u)' = (IF t = <<>> THEN "none" ELSE Head(t))
  BY <1>1, <1>2, <1>3 DEF Pc
<1> QED
  BY <1>2, <1>3, <1>4, <1>5, <1>6, <1>7, <1>8

LEMMA PcReturn ==
  ASSUME Types, NEW u \in Users, Return(u)
  PROVE  Pc(u)' = "none" /\ \A y : ~ Has(user'[u].script, y)
<1>1. user'[u].script = <<>>
  BY ReturnFacts
<1> QED
  BY <1>1 DEF Pc, Has

LEMMA PcSkip ==
  ASSUME Types, NEW u \in Users, NEW x \in {"takeScan", "takeAdv"}, At(u, x), SkipTo(u, 2)
  PROVE  /\ Pc(u) = x /\ Pc(u)' \in {"takeServer", "adapterOff", "none"}
         /\ \A y : Has(user[u].script, y) => y \in {x, "stopScan", "stopAdv"} \/ Has(user'[u].script, y)
         /\ \A y : Has(user'[u].script, y) => Has(user[u].script, y)
<1>1. user[u].script # <<>> /\ Head(user[u].script) = x /\ IsScript(user[u].script)
  BY DEF At, Types, IsUser
<1>2. PICK s : s = user[u].script
  OBVIOUS
<1>3. PICK t : t = Tail(Tail(s))
  OBVIOUS
<1>4. /\ SubSeq(s, 2 + 1, Len(s)) = t /\ (t # <<>> => Head(t) \in {"takeServer", "adapterOff"})
      /\ Head(Tail(s)) \in {"stopScan", "stopAdv"}
      /\ \A y : Has(s, y) <=> Head(s) = y \/ Head(Tail(s)) = y \/ Has(t, y)
  BY <1>1, <1>2, <1>3, SkipTwo
<1>5. user'[u] = [script |-> SubSeq(user[u].script, 2 + 1, Len(user[u].script)), id |-> user[u].id,
                  gs |-> user[u].gs, set |-> user[u].set, ending |-> user[u].ending]
  BY SkipToFacts
<1>6. user'[u].script = t
  BY <1>2, <1>4, <1>5
<1>7. Pc(u) = x /\ Pc(u)' = (IF t = <<>> THEN "none" ELSE Head(t))
  BY <1>1, <1>6 DEF Pc
<1> QED
  BY <1>1, <1>2, <1>4, <1>6, <1>7

LEMMA PcSkipClose ==
  ASSUME Types, NEW u \in Users, At(u, "takeServer"), SkipTo(u, Len(CloseScript))
  PROVE  /\ Pc(u) = "takeServer" /\ Pc(u)' \in {"setServices", "takeAdv", "none"}
         /\ \A y : Has(user[u].script, y) => y \in Closing \cup {"takeServer"} \/ Has(user'[u].script, y)
         /\ \A y : Has(user'[u].script, y) => Has(user[u].script, y)
<1>1. user[u].script # <<>> /\ Head(user[u].script) = "takeServer" /\ IsScript(user[u].script)
  BY DEF At, Types, IsUser
<1>2. Len(CloseScript) = 7
  BY DEF CloseScript
<1>3. PICK s : s = user[u].script
  OBVIOUS
<1>4. PICK t : t = SubSeq(s, 7 + 1, Len(s))
  OBVIOUS
<1>5. /\ t # <<>> => Head(t) \in {"setServices", "takeAdv"}
      /\ \A y : Has(s, y) => y \in Closing \cup {"takeServer"} \/ Has(t, y)
      /\ \A y : Has(t, y) => Has(s, y)
  BY <1>1, <1>3, <1>4, SkipClose
<1>6. user'[u] = [script |-> SubSeq(user[u].script, 7 + 1, Len(user[u].script)), id |-> user[u].id,
                  gs |-> user[u].gs, set |-> user[u].set, ending |-> user[u].ending]
  BY <1>2, SkipToFacts
<1>7. user'[u].script = t
  BY <1>3, <1>4, <1>6
<1>8. Pc(u) = "takeServer" /\ Pc(u)' = (IF t = <<>> THEN "none" ELSE Head(t))
  BY <1>1, <1>7 DEF Pc
<1> QED
  BY <1>3, <1>5, <1>7, <1>8

(* What a step of the one caller has to keep. *)
LEMMA OneStep ==
  ASSUME OneUser, NEW u \in Users, Off', CallInv(u)',
         \A r \in running' : r \in {scanner', advState', gattServer'} \/ Holds(u, r)'
  PROVE  StopInv'
<1>1. \A v \in Users : v = u
  BY DEF OneUser
<1> QED
  BY <1>1 DEF StopInv, AllHeld

LEMMA CallKeeps ==
  ASSUME OneUser, ServerInv, StopInv, NEW u \in Users, ~ replaced',
         CheckScan(u) \/ StartScan(u) \/ StoreScan(u) \/ TakeScan(u) \/ StopScan(u) \/ CheckAdv(u) \/ StartAdv(u)
         \/ StoreAdv(u) \/ TakeAdv(u) \/ StopAdv(u)
           \/ OpenServer(u) \/ AddServiceStep(u) \/ StoreServer(u) \/ SetServicesStep(u) \/ AdapterOff(u)
              \/ TakeServer(u) \/ LockServer(u) \/ DeleteRefs(u) \/ CloseServer(u)
  PROVE  StopInv'
<1>1. Types /\ IsUser(user[u])
  BY DEF ServerInv, Types
<1>2. /\ Off /\ CallInv(u) /\ 0 \notin running
      /\ \A r \in running : r \in {scanner, advState, gattServer} \/ Holds(u, r)
  <2>1. \A v \in Users : v = u
    BY DEF OneUser
  <2> QED
    BY <1>1, <2>1 DEF StopInv, AllHeld, Types, Sessions
<1>3. CASE CheckScan(u)
  <2>1. At(u, "checkScan") /\ UNCHANGED <<adapter, scanner, advState, gattServer, running, replaced>>
    BY <1>3 DEF CheckScan, device
  <2>2. (GoOn(u, user[u]) /\ scanner = 0) \/ (Return(u))
    BY <1>1, <1>3 DEF CheckScan, Types
  <2>3. CASE GoOn(u, user[u]) /\ scanner = 0
    <3>1. IsUser(user[u])
      BY <1>1
    <3>2. /\ Pc(u) = "checkScan" /\ Pc(u)' \in After("checkScan") \cup {"none"}
             /\ ("checkScan" \notin Last => Pc(u)' # "none")
          /\ \A y : Has(user[u].script, y) <=> y = "checkScan" \/ Has(user'[u].script, y)
          /\ Len(user'[u].script) \in Nat /\ Len(user'[u].script) + 1 = Len(user[u].script)
          /\ (Pc(u)' = "none" <=> Len(user'[u].script) = 0)
          /\ (Pc(u)' = "none" => \A y : ~ Has(user'[u].script, y))
          /\ user'[u].id = user[u].id /\ user'[u].gs = user[u].gs
      BY <1>1, <2>1, <2>3, <3>1, PcNext
    <3>3. Pc(u)' \in {"startScan"}
      BY <3>2 DEF After, Last
    <3>4. Off'
      BY <1>2, <2>1, <2>3, <3>2, <3>3 DEF Off, CallInv, Starting, Stopping, Closing
    <3>5. CallInv(u)'
      BY <1>2, <2>1, <2>3, <3>2, <3>3 DEF CallInv, Starting, Stopping, Closing
    <3>6. \A r \in running' : r \in {scanner', advState', gattServer'} \/ Holds(u, r)'
      BY <1>2, <2>1, <2>3, <3>2, <3>3 DEF Holds, CallInv, Starting, Stopping, Closing
    <3> QED
      BY <3>4, <3>5, <3>6, OneStep
  <2>4. CASE Return(u)
    <3>1. Pc(u)' = "none" /\ \A y : ~ Has(user'[u].script, y)
      BY <1>1, <2>4, PcReturn
    <3>2. Pc(u) = "checkScan"
      BY <2>1 DEF Pc, At
    <3>3. Off'
      BY <1>2, <2>1, <2>4, <3>1, <3>2 DEF Off, CallInv, Starting, Stopping, Closing
    <3>4. CallInv(u)'
      BY <1>2, <2>1, <2>4, <3>1, <3>2 DEF CallInv, Starting, Stopping, Closing
    <3>5. \A r \in running' : r \in {scanner', advState', gattServer'} \/ Holds(u, r)'
      BY <1>2, <2>1, <2>4, <3>1, <3>2 DEF Holds, CallInv, Starting, Stopping, Closing
    <3> QED
      BY <3>3, <3>4, <3>5, OneStep
  <2> QED
    BY <2>2, <2>3, <2>4
<1>4. CASE StartScan(u)
  <2>1. At(u, "startScan") /\ UNCHANGED <<adapter, scanner, advState, gattServer, replaced>>
    BY <1>4 DEF StartScan
  <2>2. (GoOn(u, [user[u] EXCEPT !.id = sessions']) /\ running' = running \cup {sessions'} /\ sessions' \in Sessions)
        \/ (Return(u) /\ running' = running)
    BY <1>1, <1>4, SessionFacts DEF StartScan, Types
  <2>3. CASE GoOn(u, [user[u] EXCEPT !.id = sessions']) /\ running' = running \cup {sessions'}
        /\ sessions' \in Sessions
    <3>1. PICK l : l = [user[u] EXCEPT !.id = sessions']
      OBVIOUS
    <3>2. IsUser(l) /\ l.id = sessions' /\ l.gs = user[u].gs
      BY <1>1, <2>3, <3>1 DEF IsUser
    <3>3. GoOn(u, l)
      BY <2>3, <3>1
    <3>4. /\ Pc(u) = "startScan" /\ Pc(u)' \in After("startScan") \cup {"none"}
             /\ ("startScan" \notin Last => Pc(u)' # "none")
          /\ \A y : Has(user[u].script, y) <=> y = "startScan" \/ Has(user'[u].script, y)
          /\ Len(user'[u].script) \in Nat /\ Len(user'[u].script) + 1 = Len(user[u].script)
          /\ (Pc(u)' = "none" <=> Len(user'[u].script) = 0)
          /\ (Pc(u)' = "none" => \A y : ~ Has(user'[u].script, y))
          /\ user'[u].id = sessions' /\ user'[u].gs = user[u].gs
      BY <1>1, <2>1, <3>2, <3>3, PcNext
    <3>5. Pc(u)' \in {"storeScan"}
      BY <3>4 DEF After, Last
    <3>6. Off'
      BY <1>2, <2>1, <2>3, <3>4, <3>5 DEF Off, CallInv, Starting, Stopping, Closing
    <3>7. CallInv(u)'
      BY <1>2, <2>1, <2>3, <3>4, <3>5 DEF CallInv, Starting, Stopping, Closing
    <3>8. \A r \in running' : r \in {scanner', advState', gattServer'} \/ Holds(u, r)'
      BY <1>2, <2>1, <2>3, <3>4, <3>5 DEF Holds, CallInv, Starting, Stopping, Closing
    <3> QED
      BY <3>6, <3>7, <3>8, OneStep
  <2>4. CASE Return(u) /\ running' = running
    <3>1. Pc(u)' = "none" /\ \A y : ~ Has(user'[u].script, y)
      BY <1>1, <2>4, PcReturn
    <3>2. Pc(u) = "startScan"
      BY <2>1 DEF Pc, At
    <3>3. Off'
      BY <1>2, <2>1, <2>4, <3>1, <3>2 DEF Off, CallInv, Starting, Stopping, Closing
    <3>4. CallInv(u)'
      BY <1>2, <2>1, <2>4, <3>1, <3>2 DEF CallInv, Starting, Stopping, Closing
    <3>5. \A r \in running' : r \in {scanner', advState', gattServer'} \/ Holds(u, r)'
      BY <1>2, <2>1, <2>4, <3>1, <3>2 DEF Holds, CallInv, Starting, Stopping, Closing
    <3> QED
      BY <3>3, <3>4, <3>5, OneStep
  <2> QED
    BY <2>2, <2>3, <2>4
<1>5. CASE StoreScan(u)
  <2>1. At(u, "storeScan") /\ UNCHANGED <<adapter, advState, gattServer, running, replaced>> /\ scanner' = user[u].id
    BY <1>5 DEF StoreScan
  <2>2. GoOn(u, user[u])
    BY <1>5 DEF StoreScan
  <2>3. CASE GoOn(u, user[u])
    <3>1. IsUser(user[u])
      BY <1>1
    <3>2. /\ Pc(u) = "storeScan" /\ Pc(u)' \in After("storeScan") \cup {"none"}
             /\ ("storeScan" \notin Last => Pc(u)' # "none")
          /\ \A y : Has(user[u].script, y) <=> y = "storeScan" \/ Has(user'[u].script, y)
          /\ Len(user'[u].script) \in Nat /\ Len(user'[u].script) + 1 = Len(user[u].script)
          /\ (Pc(u)' = "none" <=> Len(user'[u].script) = 0)
          /\ (Pc(u)' = "none" => \A y : ~ Has(user'[u].script, y))
          /\ user'[u].id = user[u].id /\ user'[u].gs = user[u].gs
      BY <1>1, <2>1, <2>3, <3>1, PcNext
    <3>3. Pc(u)' \in {"none"}
      BY <3>2 DEF After, Last
    <3>4. Off'
      BY <1>2, <2>1, <2>3, <3>2, <3>3 DEF Off, CallInv, Starting, Stopping, Closing
    <3>5. CallInv(u)'
      BY <1>2, <2>1, <2>3, <3>2, <3>3 DEF CallInv, Starting, Stopping, Closing
    <3>6. \A r \in running' : r \in {scanner', advState', gattServer'} \/ Holds(u, r)'
      BY <1>2, <2>1, <2>3, <3>2, <3>3 DEF Holds, CallInv, Starting, Stopping, Closing
    <3> QED
      BY <3>4, <3>5, <3>6, OneStep
  <2> QED
    BY <2>2, <2>3
<1>6. CASE TakeScan(u)
  <2>1. At(u, "takeScan") /\ UNCHANGED <<adapter, advState, gattServer, running, replaced>> /\ scanner' = 0
    BY <1>6 DEF TakeScan
  <2>2. (GoOn(u, [user[u] EXCEPT !.id = scanner]) /\ scanner \in Sessions) \/ (SkipTo(u, 2) /\ scanner = 0)
    BY <1>1, <1>6 DEF TakeScan, Types
  <2>3. CASE GoOn(u, [user[u] EXCEPT !.id = scanner]) /\ scanner \in Sessions
    <3>1. PICK l : l = [user[u] EXCEPT !.id = scanner]
      OBVIOUS
    <3>2. IsUser(l) /\ l.id = scanner /\ l.gs = user[u].gs
      BY <1>1, <2>3, <3>1 DEF IsUser
    <3>3. GoOn(u, l)
      BY <2>3, <3>1
    <3>4. /\ Pc(u) = "takeScan" /\ Pc(u)' \in After("takeScan") \cup {"none"}
             /\ ("takeScan" \notin Last => Pc(u)' # "none")
          /\ \A y : Has(user[u].script, y) <=> y = "takeScan" \/ Has(user'[u].script, y)
          /\ Len(user'[u].script) \in Nat /\ Len(user'[u].script) + 1 = Len(user[u].script)
          /\ (Pc(u)' = "none" <=> Len(user'[u].script) = 0)
          /\ (Pc(u)' = "none" => \A y : ~ Has(user'[u].script, y))
          /\ user'[u].id = scanner /\ user'[u].gs = user[u].gs
      BY <1>1, <2>1, <3>2, <3>3, PcNext
    <3>5. Pc(u)' \in {"stopScan"}
      BY <3>4 DEF After, Last
    <3>6. Off'
      BY <1>2, <2>1, <2>3, <3>4, <3>5 DEF Off, CallInv, Starting, Stopping, Closing
    <3>7. CallInv(u)'
      BY <1>2, <2>1, <2>3, <3>4, <3>5 DEF CallInv, Starting, Stopping, Closing
    <3>8. \A r \in running' : r \in {scanner', advState', gattServer'} \/ Holds(u, r)'
      BY <1>2, <2>1, <2>3, <3>4, <3>5 DEF Holds, CallInv, Starting, Stopping, Closing
    <3> QED
      BY <3>6, <3>7, <3>8, OneStep
  <2>4. CASE SkipTo(u, 2) /\ scanner = 0
    <3>1. /\ Pc(u) = "takeScan" /\ Pc(u)' \in {"takeServer", "adapterOff", "none"}
          /\ \A y : Has(user[u].script, y) => y \in {"takeScan", "stopScan", "stopAdv"} \/ Has(user'[u].script, y)
          /\ \A y : Has(user'[u].script, y) => Has(user[u].script, y)
      BY <1>1, <2>1, <2>4, PcSkip
    <3>2. Off'
      BY <1>2, <2>1, <2>4, <3>1 DEF Off, CallInv, Starting, Stopping, Closing
    <3>3. CallInv(u)'
      BY <1>2, <2>1, <2>4, <3>1 DEF CallInv, Starting, Stopping, Closing
    <3>4. \A r \in running' : r \in {scanner', advState', gattServer'} \/ Holds(u, r)'
      BY <1>2, <2>1, <2>4, <3>1 DEF Holds, CallInv, Starting, Stopping, Closing
    <3> QED
      BY <3>2, <3>3, <3>4, OneStep
  <2> QED
    BY <2>2, <2>3, <2>4
<1>7. CASE StopScan(u)
  <2>1. At(u, "stopScan") /\ UNCHANGED <<adapter, scanner, advState, gattServer, replaced>>
        /\ running' = running \ {user[u].id}
    BY <1>7 DEF StopScan
  <2>2. GoOn(u, user[u])
    BY <1>7 DEF StopScan
  <2>3. CASE GoOn(u, user[u])
    <3>1. IsUser(user[u])
      BY <1>1
    <3>2. /\ Pc(u) = "stopScan" /\ Pc(u)' \in After("stopScan") \cup {"none"}
             /\ ("stopScan" \notin Last => Pc(u)' # "none")
          /\ \A y : Has(user[u].script, y) <=> y = "stopScan" \/ Has(user'[u].script, y)
          /\ Len(user'[u].script) \in Nat /\ Len(user'[u].script) + 1 = Len(user[u].script)
          /\ (Pc(u)' = "none" <=> Len(user'[u].script) = 0)
          /\ (Pc(u)' = "none" => \A y : ~ Has(user'[u].script, y))
          /\ user'[u].id = user[u].id /\ user'[u].gs = user[u].gs
      BY <1>1, <2>1, <2>3, <3>1, PcNext
    <3>3. Pc(u)' \in {"takeServer", "none"}
      BY <3>2 DEF After, Last
    <3>4. Off'
      BY <1>2, <2>1, <2>3, <3>2, <3>3 DEF Off, CallInv, Starting, Stopping, Closing
    <3>5. CallInv(u)'
      BY <1>2, <2>1, <2>3, <3>2, <3>3 DEF CallInv, Starting, Stopping, Closing
    <3>6. \A r \in running' : r \in {scanner', advState', gattServer'} \/ Holds(u, r)'
      BY <1>2, <2>1, <2>3, <3>2, <3>3 DEF Holds, CallInv, Starting, Stopping, Closing
    <3> QED
      BY <3>4, <3>5, <3>6, OneStep
  <2> QED
    BY <2>2, <2>3
<1>8. CASE CheckAdv(u)
  <2>1. At(u, "checkAdv") /\ UNCHANGED <<adapter, scanner, advState, gattServer, running, replaced>>
    BY <1>8 DEF CheckAdv, device
  <2>2. (GoOn(u, user[u]) /\ advState = 0) \/ (Return(u))
    BY <1>1, <1>8 DEF CheckAdv, Types
  <2>3. CASE GoOn(u, user[u]) /\ advState = 0
    <3>1. IsUser(user[u])
      BY <1>1
    <3>2. /\ Pc(u) = "checkAdv" /\ Pc(u)' \in After("checkAdv") \cup {"none"}
             /\ ("checkAdv" \notin Last => Pc(u)' # "none")
          /\ \A y : Has(user[u].script, y) <=> y = "checkAdv" \/ Has(user'[u].script, y)
          /\ Len(user'[u].script) \in Nat /\ Len(user'[u].script) + 1 = Len(user[u].script)
          /\ (Pc(u)' = "none" <=> Len(user'[u].script) = 0)
          /\ (Pc(u)' = "none" => \A y : ~ Has(user'[u].script, y))
          /\ user'[u].id = user[u].id /\ user'[u].gs = user[u].gs
      BY <1>1, <2>1, <2>3, <3>1, PcNext
    <3>3. Pc(u)' \in {"startAdv"}
      BY <3>2 DEF After, Last
    <3>4. Len(user'[u].script) = 5
      <4>1. Len(user[u].script) = 6
        BY <1>2, <3>2 DEF CallInv
      <4>2. PICK m : m = Len(user'[u].script)
        OBVIOUS
      <4>3. m \in Nat /\ m + 1 = Len(user[u].script)
        BY <3>2, <4>2
      <4>4. PICK p : p = Len(user[u].script)
        OBVIOUS
      <4>5. m \in Nat /\ m + 1 = p /\ p = 6
        BY <4>1, <4>3, <4>4
      <4>6. m = 5
        BY <4>5
      <4> QED
        BY <4>2, <4>6
    <3>5. Off'
      BY <1>2, <2>1, <2>3, <3>2, <3>3, <3>4 DEF Off, CallInv, Starting, Stopping, Closing
    <3>6. CallInv(u)'
      BY <1>2, <2>1, <2>3, <3>2, <3>3, <3>4 DEF CallInv, Starting, Stopping, Closing
    <3>7. \A r \in running' : r \in {scanner', advState', gattServer'} \/ Holds(u, r)'
      BY <1>2, <2>1, <2>3, <3>2, <3>3, <3>4 DEF Holds, CallInv, Starting, Stopping, Closing
    <3> QED
      BY <3>5, <3>6, <3>7, OneStep
  <2>4. CASE Return(u)
    <3>1. Pc(u)' = "none" /\ \A y : ~ Has(user'[u].script, y)
      BY <1>1, <2>4, PcReturn
    <3>2. Pc(u) = "checkAdv"
      BY <2>1 DEF Pc, At
    <3>3. Off'
      BY <1>2, <2>1, <2>4, <3>1, <3>2 DEF Off, CallInv, Starting, Stopping, Closing
    <3>4. CallInv(u)'
      BY <1>2, <2>1, <2>4, <3>1, <3>2 DEF CallInv, Starting, Stopping, Closing
    <3>5. \A r \in running' : r \in {scanner', advState', gattServer'} \/ Holds(u, r)'
      BY <1>2, <2>1, <2>4, <3>1, <3>2 DEF Holds, CallInv, Starting, Stopping, Closing
    <3> QED
      BY <3>3, <3>4, <3>5, OneStep
  <2> QED
    BY <2>2, <2>3, <2>4
<1>9. CASE StartAdv(u)
  <2>1. At(u, "startAdv") /\ UNCHANGED <<adapter, scanner, advState, gattServer, replaced>>
    BY <1>9 DEF StartAdv
  <2>2. (GoOn(u, [user[u] EXCEPT !.id = sessions']) /\ running' = running \cup {sessions'} /\ sessions' \in Sessions)
        \/ (Return(u) /\ running' = running)
    BY <1>1, <1>9, SessionFacts DEF StartAdv, Types
  <2>3. CASE GoOn(u, [user[u] EXCEPT !.id = sessions']) /\ running' = running \cup {sessions'}
        /\ sessions' \in Sessions
    <3>1. PICK l : l = [user[u] EXCEPT !.id = sessions']
      OBVIOUS
    <3>2. IsUser(l) /\ l.id = sessions' /\ l.gs = user[u].gs
      BY <1>1, <2>3, <3>1 DEF IsUser
    <3>3. GoOn(u, l)
      BY <2>3, <3>1
    <3>4. /\ Pc(u) = "startAdv" /\ Pc(u)' \in After("startAdv") \cup {"none"}
             /\ ("startAdv" \notin Last => Pc(u)' # "none")
          /\ \A y : Has(user[u].script, y) <=> y = "startAdv" \/ Has(user'[u].script, y)
          /\ Len(user'[u].script) \in Nat /\ Len(user'[u].script) + 1 = Len(user[u].script)
          /\ (Pc(u)' = "none" <=> Len(user'[u].script) = 0)
          /\ (Pc(u)' = "none" => \A y : ~ Has(user'[u].script, y))
          /\ user'[u].id = sessions' /\ user'[u].gs = user[u].gs
      BY <1>1, <2>1, <3>2, <3>3, PcNext
    <3>5. Pc(u)' \in {"storeAdv"}
      BY <3>4 DEF After, Last
    <3>6. Len(user'[u].script) = 4
      <4>1. Len(user[u].script) = 5
        BY <1>2, <3>4 DEF CallInv
      <4>2. PICK m : m = Len(user'[u].script)
        OBVIOUS
      <4>3. m \in Nat /\ m + 1 = Len(user[u].script)
        BY <3>4, <4>2
      <4>4. PICK p : p = Len(user[u].script)
        OBVIOUS
      <4>5. m \in Nat /\ m + 1 = p /\ p = 5
        BY <4>1, <4>3, <4>4
      <4>6. m = 4
        BY <4>5
      <4> QED
        BY <4>2, <4>6
    <3>7. Off'
      BY <1>2, <2>1, <2>3, <3>4, <3>5, <3>6 DEF Off, CallInv, Starting, Stopping, Closing
    <3>8. CallInv(u)'
      BY <1>2, <2>1, <2>3, <3>4, <3>5, <3>6 DEF CallInv, Starting, Stopping, Closing
    <3>9. \A r \in running' : r \in {scanner', advState', gattServer'} \/ Holds(u, r)'
      BY <1>2, <2>1, <2>3, <3>4, <3>5, <3>6 DEF Holds, CallInv, Starting, Stopping, Closing
    <3> QED
      BY <3>7, <3>8, <3>9, OneStep
  <2>4. CASE Return(u) /\ running' = running
    <3>1. Pc(u)' = "none" /\ \A y : ~ Has(user'[u].script, y)
      BY <1>1, <2>4, PcReturn
    <3>2. Pc(u) = "startAdv"
      BY <2>1 DEF Pc, At
    <3>3. Off'
      BY <1>2, <2>1, <2>4, <3>1, <3>2 DEF Off, CallInv, Starting, Stopping, Closing
    <3>4. CallInv(u)'
      BY <1>2, <2>1, <2>4, <3>1, <3>2 DEF CallInv, Starting, Stopping, Closing
    <3>5. \A r \in running' : r \in {scanner', advState', gattServer'} \/ Holds(u, r)'
      BY <1>2, <2>1, <2>4, <3>1, <3>2 DEF Holds, CallInv, Starting, Stopping, Closing
    <3> QED
      BY <3>3, <3>4, <3>5, OneStep
  <2> QED
    BY <2>2, <2>3, <2>4
<1>10. CASE StoreAdv(u)
  <2>1. At(u, "storeAdv") /\ UNCHANGED <<adapter, scanner, gattServer, running, replaced>> /\ advState' = user[u].id
    BY <1>10 DEF StoreAdv
  <2>2. (GoOn(u, user[u])) \/ (Return(u))
    BY <1>1, <1>10 DEF StoreAdv, Types
  <2>3. CASE GoOn(u, user[u])
    <3>1. IsUser(user[u])
      BY <1>1
    <3>2. /\ Pc(u) = "storeAdv" /\ Pc(u)' \in After("storeAdv") \cup {"none"}
             /\ ("storeAdv" \notin Last => Pc(u)' # "none")
          /\ \A y : Has(user[u].script, y) <=> y = "storeAdv" \/ Has(user'[u].script, y)
          /\ Len(user'[u].script) \in Nat /\ Len(user'[u].script) + 1 = Len(user[u].script)
          /\ (Pc(u)' = "none" <=> Len(user'[u].script) = 0)
          /\ (Pc(u)' = "none" => \A y : ~ Has(user'[u].script, y))
          /\ user'[u].id = user[u].id /\ user'[u].gs = user[u].gs
      BY <1>1, <2>1, <2>3, <3>1, PcNext
    <3>3. Pc(u)' \in {"openServer"}
      BY <3>2 DEF After, Last
    <3>4. Len(user'[u].script) = 3
      <4>1. Len(user[u].script) = 4
        BY <1>2, <3>2 DEF CallInv
      <4>2. PICK m : m = Len(user'[u].script)
        OBVIOUS
      <4>3. m \in Nat /\ m + 1 = Len(user[u].script)
        BY <3>2, <4>2
      <4>4. PICK p : p = Len(user[u].script)
        OBVIOUS
      <4>5. m \in Nat /\ m + 1 = p /\ p = 4
        BY <4>1, <4>3, <4>4
      <4>6. m = 3
        BY <4>5
      <4> QED
        BY <4>2, <4>6
    <3>5. Off'
      BY <1>2, <2>1, <2>3, <3>2, <3>3, <3>4 DEF Off, CallInv, Starting, Stopping, Closing
    <3>6. CallInv(u)'
      BY <1>2, <2>1, <2>3, <3>2, <3>3, <3>4 DEF CallInv, Starting, Stopping, Closing
    <3>7. \A r \in running' : r \in {scanner', advState', gattServer'} \/ Holds(u, r)'
      BY <1>2, <2>1, <2>3, <3>2, <3>3, <3>4 DEF Holds, CallInv, Starting, Stopping, Closing
    <3> QED
      BY <3>5, <3>6, <3>7, OneStep
  <2>4. CASE Return(u)
    <3>1. Pc(u)' = "none" /\ \A y : ~ Has(user'[u].script, y)
      BY <1>1, <2>4, PcReturn
    <3>2. Pc(u) = "storeAdv"
      BY <2>1 DEF Pc, At
    <3>3. Off'
      BY <1>2, <2>1, <2>4, <3>1, <3>2 DEF Off, CallInv, Starting, Stopping, Closing
    <3>4. CallInv(u)'
      BY <1>2, <2>1, <2>4, <3>1, <3>2 DEF CallInv, Starting, Stopping, Closing
    <3>5. \A r \in running' : r \in {scanner', advState', gattServer'} \/ Holds(u, r)'
      BY <1>2, <2>1, <2>4, <3>1, <3>2 DEF Holds, CallInv, Starting, Stopping, Closing
    <3> QED
      BY <3>3, <3>4, <3>5, OneStep
  <2> QED
    BY <2>2, <2>3, <2>4
<1>11. CASE TakeAdv(u)
  <2>1. At(u, "takeAdv") /\ UNCHANGED <<adapter, scanner, gattServer, running, replaced>> /\ advState' = 0
    BY <1>11 DEF TakeAdv
  <2>2. (GoOn(u, [user[u] EXCEPT !.id = advState]) /\ advState \in Sessions) \/ (SkipTo(u, 2) /\ advState = 0)
    BY <1>1, <1>11 DEF TakeAdv, Types
  <2>3. CASE GoOn(u, [user[u] EXCEPT !.id = advState]) /\ advState \in Sessions
    <3>1. PICK l : l = [user[u] EXCEPT !.id = advState]
      OBVIOUS
    <3>2. IsUser(l) /\ l.id = advState /\ l.gs = user[u].gs
      BY <1>1, <2>3, <3>1 DEF IsUser
    <3>3. GoOn(u, l)
      BY <2>3, <3>1
    <3>4. /\ Pc(u) = "takeAdv" /\ Pc(u)' \in After("takeAdv") \cup {"none"}
             /\ ("takeAdv" \notin Last => Pc(u)' # "none")
          /\ \A y : Has(user[u].script, y) <=> y = "takeAdv" \/ Has(user'[u].script, y)
          /\ Len(user'[u].script) \in Nat /\ Len(user'[u].script) + 1 = Len(user[u].script)
          /\ (Pc(u)' = "none" <=> Len(user'[u].script) = 0)
          /\ (Pc(u)' = "none" => \A y : ~ Has(user'[u].script, y))
          /\ user'[u].id = advState /\ user'[u].gs = user[u].gs
      BY <1>1, <2>1, <3>2, <3>3, PcNext
    <3>5. Pc(u)' \in {"stopAdv"}
      BY <3>4 DEF After, Last
    <3>6. Off'
      BY <1>2, <2>1, <2>3, <3>4, <3>5 DEF Off, CallInv, Starting, Stopping, Closing
    <3>7. CallInv(u)'
      BY <1>2, <2>1, <2>3, <3>4, <3>5 DEF CallInv, Starting, Stopping, Closing
    <3>8. \A r \in running' : r \in {scanner', advState', gattServer'} \/ Holds(u, r)'
      BY <1>2, <2>1, <2>3, <3>4, <3>5 DEF Holds, CallInv, Starting, Stopping, Closing
    <3> QED
      BY <3>6, <3>7, <3>8, OneStep
  <2>4. CASE SkipTo(u, 2) /\ advState = 0
    <3>1. /\ Pc(u) = "takeAdv" /\ Pc(u)' \in {"takeServer", "adapterOff", "none"}
          /\ \A y : Has(user[u].script, y) => y \in {"takeAdv", "stopScan", "stopAdv"} \/ Has(user'[u].script, y)
          /\ \A y : Has(user'[u].script, y) => Has(user[u].script, y)
      BY <1>1, <2>1, <2>4, PcSkip
    <3>2. Off'
      BY <1>2, <2>1, <2>4, <3>1 DEF Off, CallInv, Starting, Stopping, Closing
    <3>3. CallInv(u)'
      BY <1>2, <2>1, <2>4, <3>1 DEF CallInv, Starting, Stopping, Closing
    <3>4. \A r \in running' : r \in {scanner', advState', gattServer'} \/ Holds(u, r)'
      BY <1>2, <2>1, <2>4, <3>1 DEF Holds, CallInv, Starting, Stopping, Closing
    <3> QED
      BY <3>2, <3>3, <3>4, OneStep
  <2> QED
    BY <2>2, <2>3, <2>4
<1>12. CASE StopAdv(u)
  <2>1. At(u, "stopAdv") /\ UNCHANGED <<adapter, scanner, advState, gattServer, replaced>>
        /\ running' = running \ {user[u].id}
    BY <1>12 DEF StopAdv
  <2>2. GoOn(u, user[u])
    BY <1>12 DEF StopAdv
  <2>3. CASE GoOn(u, user[u])
    <3>1. IsUser(user[u])
      BY <1>1
    <3>2. /\ Pc(u) = "stopAdv" /\ Pc(u)' \in After("stopAdv") \cup {"none"}
             /\ ("stopAdv" \notin Last => Pc(u)' # "none")
          /\ \A y : Has(user[u].script, y) <=> y = "stopAdv" \/ Has(user'[u].script, y)
          /\ Len(user'[u].script) \in Nat /\ Len(user'[u].script) + 1 = Len(user[u].script)
          /\ (Pc(u)' = "none" <=> Len(user'[u].script) = 0)
          /\ (Pc(u)' = "none" => \A y : ~ Has(user'[u].script, y))
          /\ user'[u].id = user[u].id /\ user'[u].gs = user[u].gs
      BY <1>1, <2>1, <2>3, <3>1, PcNext
    <3>3. Pc(u)' \in {"adapterOff", "none"}
      BY <3>2 DEF After, Last
    <3>4. Off'
      BY <1>2, <2>1, <2>3, <3>2, <3>3 DEF Off, CallInv, Starting, Stopping, Closing
    <3>5. CallInv(u)'
      BY <1>2, <2>1, <2>3, <3>2, <3>3 DEF CallInv, Starting, Stopping, Closing
    <3>6. \A r \in running' : r \in {scanner', advState', gattServer'} \/ Holds(u, r)'
      BY <1>2, <2>1, <2>3, <3>2, <3>3 DEF Holds, CallInv, Starting, Stopping, Closing
    <3> QED
      BY <3>4, <3>5, <3>6, OneStep
  <2> QED
    BY <2>2, <2>3
<1>13. CASE OpenServer(u)
  <2>1. At(u, "openServer") /\ UNCHANGED <<adapter, scanner, advState, gattServer, replaced>>
    BY <1>13 DEF OpenServer
  <2>2. (GoOn(u, [user[u] EXCEPT !.gs = sessions', !.set = services]) /\ running' = running \cup {sessions'} /\ sessions' \in Sessions) \/ (Return(u) /\ running' = running)
    BY <1>1, <1>13, SessionFacts DEF OpenServer, Types
  <2>3. CASE GoOn(u, [user[u] EXCEPT !.gs = sessions', !.set = services]) /\ running' = running \cup {sessions'}
        /\ sessions' \in Sessions
    <3>1. PICK l : l = [user[u] EXCEPT !.gs = sessions', !.set = services]
      OBVIOUS
    <3>2. IsUser(l) /\ l.id = user[u].id /\ l.gs = sessions'
      BY <1>1, <2>3, <3>1 DEF IsUser, Types
    <3>3. GoOn(u, l)
      BY <2>3, <3>1
    <3>4. /\ Pc(u) = "openServer" /\ Pc(u)' \in After("openServer") \cup {"none"}
             /\ ("openServer" \notin Last => Pc(u)' # "none")
          /\ \A y : Has(user[u].script, y) <=> y = "openServer" \/ Has(user'[u].script, y)
          /\ Len(user'[u].script) \in Nat /\ Len(user'[u].script) + 1 = Len(user[u].script)
          /\ (Pc(u)' = "none" <=> Len(user'[u].script) = 0)
          /\ (Pc(u)' = "none" => \A y : ~ Has(user'[u].script, y))
          /\ user'[u].id = user[u].id /\ user'[u].gs = sessions'
      BY <1>1, <2>1, <3>2, <3>3, PcNext
    <3>5. Pc(u)' \in {"addServices"}
      BY <3>4 DEF After, Last
    <3>6. Len(user'[u].script) = 2
      <4>1. Len(user[u].script) = 3
        BY <1>2, <3>4 DEF CallInv
      <4>2. PICK m : m = Len(user'[u].script)
        OBVIOUS
      <4>3. m \in Nat /\ m + 1 = Len(user[u].script)
        BY <3>4, <4>2
      <4>4. PICK p : p = Len(user[u].script)
        OBVIOUS
      <4>5. m \in Nat /\ m + 1 = p /\ p = 3
        BY <4>1, <4>3, <4>4
      <4>6. m = 2
        BY <4>5
      <4> QED
        BY <4>2, <4>6
    <3>7. Off'
      BY <1>2, <2>1, <2>3, <3>4, <3>5, <3>6 DEF Off, CallInv, Starting, Stopping, Closing
    <3>8. CallInv(u)'
      BY <1>2, <2>1, <2>3, <3>4, <3>5, <3>6 DEF CallInv, Starting, Stopping, Closing
    <3>9. \A r \in running' : r \in {scanner', advState', gattServer'} \/ Holds(u, r)'
      BY <1>2, <2>1, <2>3, <3>4, <3>5, <3>6 DEF Holds, CallInv, Starting, Stopping, Closing
    <3> QED
      BY <3>7, <3>8, <3>9, OneStep
  <2>4. CASE Return(u) /\ running' = running
    <3>1. Pc(u)' = "none" /\ \A y : ~ Has(user'[u].script, y)
      BY <1>1, <2>4, PcReturn
    <3>2. Pc(u) = "openServer"
      BY <2>1 DEF Pc, At
    <3>3. Off'
      BY <1>2, <2>1, <2>4, <3>1, <3>2 DEF Off, CallInv, Starting, Stopping, Closing
    <3>4. CallInv(u)'
      BY <1>2, <2>1, <2>4, <3>1, <3>2 DEF CallInv, Starting, Stopping, Closing
    <3>5. \A r \in running' : r \in {scanner', advState', gattServer'} \/ Holds(u, r)'
      BY <1>2, <2>1, <2>4, <3>1, <3>2 DEF Holds, CallInv, Starting, Stopping, Closing
    <3> QED
      BY <3>3, <3>4, <3>5, OneStep
  <2> QED
    BY <2>2, <2>3, <2>4
<1>14. CASE AddServiceStep(u)
  <2>1. At(u, "addService") /\ UNCHANGED <<adapter, scanner, advState, gattServer, running, replaced>>
    BY <1>14 DEF AddServiceStep
  <2>2. (GoOn(u, [user[u] EXCEPT !.gs = gattServer]) /\ gattServer \in Sessions) \/ (Return(u))
    BY <1>1, <1>14 DEF AddServiceStep, Types
  <2>3. CASE GoOn(u, [user[u] EXCEPT !.gs = gattServer]) /\ gattServer \in Sessions
    <3>1. PICK l : l = [user[u] EXCEPT !.gs = gattServer]
      OBVIOUS
    <3>2. IsUser(l) /\ l.id = user[u].id /\ l.gs = gattServer
      BY <1>1, <2>3, <3>1 DEF IsUser
    <3>3. GoOn(u, l)
      BY <2>3, <3>1
    <3>4. /\ Pc(u) = "addService" /\ Pc(u)' \in After("addService") \cup {"none"}
             /\ ("addService" \notin Last => Pc(u)' # "none")
          /\ \A y : Has(user[u].script, y) <=> y = "addService" \/ Has(user'[u].script, y)
          /\ Len(user'[u].script) \in Nat /\ Len(user'[u].script) + 1 = Len(user[u].script)
          /\ (Pc(u)' = "none" <=> Len(user'[u].script) = 0)
          /\ (Pc(u)' = "none" => \A y : ~ Has(user'[u].script, y))
          /\ user'[u].id = user[u].id /\ user'[u].gs = gattServer
      BY <1>1, <2>1, <3>2, <3>3, PcNext
    <3>5. Pc(u)' \in {"addServices"}
      BY <3>4 DEF After, Last
    <3>6. Len(user'[u].script) = 1
      <4>1. Len(user[u].script) = 2
        BY <1>2, <3>4 DEF CallInv
      <4>2. PICK m : m = Len(user'[u].script)
        OBVIOUS
      <4>3. m \in Nat /\ m + 1 = Len(user[u].script)
        BY <3>4, <4>2
      <4>4. PICK p : p = Len(user[u].script)
        OBVIOUS
      <4>5. m \in Nat /\ m + 1 = p /\ p = 2
        BY <4>1, <4>3, <4>4
      <4>6. m = 1
        BY <4>5
      <4> QED
        BY <4>2, <4>6
    <3>7. Off'
      BY <1>2, <2>1, <2>3, <3>4, <3>5, <3>6 DEF Off, CallInv, Starting, Stopping, Closing
    <3>8. CallInv(u)'
      BY <1>2, <2>1, <2>3, <3>4, <3>5, <3>6 DEF CallInv, Starting, Stopping, Closing
    <3>9. \A r \in running' : r \in {scanner', advState', gattServer'} \/ Holds(u, r)'
      BY <1>2, <2>1, <2>3, <3>4, <3>5, <3>6 DEF Holds, CallInv, Starting, Stopping, Closing
    <3> QED
      BY <3>7, <3>8, <3>9, OneStep
  <2>4. CASE Return(u)
    <3>1. Pc(u)' = "none" /\ \A y : ~ Has(user'[u].script, y)
      BY <1>1, <2>4, PcReturn
    <3>2. Pc(u) = "addService"
      BY <2>1 DEF Pc, At
    <3>3. Off'
      BY <1>2, <2>1, <2>4, <3>1, <3>2 DEF Off, CallInv, Starting, Stopping, Closing
    <3>4. CallInv(u)'
      BY <1>2, <2>1, <2>4, <3>1, <3>2 DEF CallInv, Starting, Stopping, Closing
    <3>5. \A r \in running' : r \in {scanner', advState', gattServer'} \/ Holds(u, r)'
      BY <1>2, <2>1, <2>4, <3>1, <3>2 DEF Holds, CallInv, Starting, Stopping, Closing
    <3> QED
      BY <3>3, <3>4, <3>5, OneStep
  <2> QED
    BY <2>2, <2>3, <2>4
<1>15. CASE StoreServer(u)
  <2>1. At(u, "storeServer") /\ UNCHANGED <<adapter, scanner, advState, running>> /\ gattServer' = user[u].gs
        /\ gattServer = 0
    BY <1>15 DEF StoreServer
  <2>2. GoOn(u, user[u])
    BY <1>15 DEF StoreServer
  <2>3. CASE GoOn(u, user[u])
    <3>1. IsUser(user[u])
      BY <1>1
    <3>2. /\ Pc(u) = "storeServer" /\ Pc(u)' \in After("storeServer") \cup {"none"}
             /\ ("storeServer" \notin Last => Pc(u)' # "none")
          /\ \A y : Has(user[u].script, y) <=> y = "storeServer" \/ Has(user'[u].script, y)
          /\ Len(user'[u].script) \in Nat /\ Len(user'[u].script) + 1 = Len(user[u].script)
          /\ (Pc(u)' = "none" <=> Len(user'[u].script) = 0)
          /\ (Pc(u)' = "none" => \A y : ~ Has(user'[u].script, y))
          /\ user'[u].id = user[u].id /\ user'[u].gs = user[u].gs
      BY <1>1, <2>1, <2>3, <3>1, PcNext
    <3>3. Pc(u)' \in {"none"}
      BY <3>2 DEF After, Last
    <3>4. Off'
      BY <1>2, <2>1, <2>3, <3>2, <3>3 DEF Off, CallInv, Starting, Stopping, Closing
    <3>5. CallInv(u)'
      BY <1>2, <2>1, <2>3, <3>2, <3>3 DEF CallInv, Starting, Stopping, Closing
    <3>6. \A r \in running' : r \in {scanner', advState', gattServer'} \/ Holds(u, r)'
      BY <1>2, <2>1, <2>3, <3>2, <3>3 DEF Holds, CallInv, Starting, Stopping, Closing
    <3> QED
      BY <3>4, <3>5, <3>6, OneStep
  <2> QED
    BY <2>2, <2>3
<1>16. CASE SetServicesStep(u)
  <2>1. At(u, "setServices") /\ UNCHANGED <<adapter, scanner, advState, gattServer, running, replaced>>
    BY <1>16 DEF SetServicesStep
  <2>2. GoOn(u, user[u])
    BY <1>16 DEF SetServicesStep
  <2>3. CASE GoOn(u, user[u])
    <3>1. IsUser(user[u])
      BY <1>1
    <3>2. /\ Pc(u) = "setServices" /\ Pc(u)' \in After("setServices") \cup {"none"}
             /\ ("setServices" \notin Last => Pc(u)' # "none")
          /\ \A y : Has(user[u].script, y) <=> y = "setServices" \/ Has(user'[u].script, y)
          /\ Len(user'[u].script) \in Nat /\ Len(user'[u].script) + 1 = Len(user[u].script)
          /\ (Pc(u)' = "none" <=> Len(user'[u].script) = 0)
          /\ (Pc(u)' = "none" => \A y : ~ Has(user'[u].script, y))
          /\ user'[u].id = user[u].id /\ user'[u].gs = user[u].gs
      BY <1>1, <2>1, <2>3, <3>1, PcNext
    <3>3. Pc(u)' \in {"none"}
      BY <3>2 DEF After, Last
    <3>4. Off'
      BY <1>2, <2>1, <2>3, <3>2, <3>3 DEF Off, CallInv, Starting, Stopping, Closing
    <3>5. CallInv(u)'
      BY <1>2, <2>1, <2>3, <3>2, <3>3 DEF CallInv, Starting, Stopping, Closing
    <3>6. \A r \in running' : r \in {scanner', advState', gattServer'} \/ Holds(u, r)'
      BY <1>2, <2>1, <2>3, <3>2, <3>3 DEF Holds, CallInv, Starting, Stopping, Closing
    <3> QED
      BY <3>4, <3>5, <3>6, OneStep
  <2> QED
    BY <2>2, <2>3
<1>17. CASE AdapterOff(u)
  <2>1. At(u, "adapterOff") /\ UNCHANGED <<scanner, advState, gattServer, running, replaced>> /\ adapter' = FALSE
    BY <1>17 DEF AdapterOff
  <2>2. GoOn(u, user[u])
    BY <1>17 DEF AdapterOff
  <2>3. CASE GoOn(u, user[u])
    <3>1. IsUser(user[u])
      BY <1>1
    <3>2. /\ Pc(u) = "adapterOff" /\ Pc(u)' \in After("adapterOff") \cup {"none"}
             /\ ("adapterOff" \notin Last => Pc(u)' # "none")
          /\ \A y : Has(user[u].script, y) <=> y = "adapterOff" \/ Has(user'[u].script, y)
          /\ Len(user'[u].script) \in Nat /\ Len(user'[u].script) + 1 = Len(user[u].script)
          /\ (Pc(u)' = "none" <=> Len(user'[u].script) = 0)
          /\ (Pc(u)' = "none" => \A y : ~ Has(user'[u].script, y))
          /\ user'[u].id = user[u].id /\ user'[u].gs = user[u].gs
      BY <1>1, <2>1, <2>3, <3>1, PcNext
    <3>3. Pc(u)' \in {"none"}
      BY <3>2 DEF After, Last
    <3>4. Off'
      BY <1>2, <2>1, <2>3, <3>2, <3>3 DEF Off, CallInv, Starting, Stopping, Closing
    <3>5. CallInv(u)'
      BY <1>2, <2>1, <2>3, <3>2, <3>3 DEF CallInv, Starting, Stopping, Closing
    <3>6. \A r \in running' : r \in {scanner', advState', gattServer'} \/ Holds(u, r)'
      BY <1>2, <2>1, <2>3, <3>2, <3>3 DEF Holds, CallInv, Starting, Stopping, Closing
    <3> QED
      BY <3>4, <3>5, <3>6, OneStep
  <2> QED
    BY <2>2, <2>3
<1>18. CASE TakeServer(u)
  <2>1. At(u, "takeServer") /\ UNCHANGED <<adapter, scanner, advState, running, replaced>> /\ gattServer' = 0
    BY <1>18 DEF TakeServer
  <2>2. (GoOn(u, [user[u] EXCEPT !.gs = gattServer]) /\ gattServer \in Sessions)
        \/ (SkipTo(u, Len(CloseScript)) /\ gattServer = 0)
    BY <1>1, <1>18 DEF TakeServer, Types
  <2>3. CASE GoOn(u, [user[u] EXCEPT !.gs = gattServer]) /\ gattServer \in Sessions
    <3>1. PICK l : l = [user[u] EXCEPT !.gs = gattServer]
      OBVIOUS
    <3>2. IsUser(l) /\ l.id = user[u].id /\ l.gs = gattServer
      BY <1>1, <2>3, <3>1 DEF IsUser
    <3>3. GoOn(u, l)
      BY <2>3, <3>1
    <3>4. /\ Pc(u) = "takeServer" /\ Pc(u)' \in After("takeServer") \cup {"none"}
             /\ ("takeServer" \notin Last => Pc(u)' # "none")
          /\ \A y : Has(user[u].script, y) <=> y = "takeServer" \/ Has(user'[u].script, y)
          /\ Len(user'[u].script) \in Nat /\ Len(user'[u].script) + 1 = Len(user[u].script)
          /\ (Pc(u)' = "none" <=> Len(user'[u].script) = 0)
          /\ (Pc(u)' = "none" => \A y : ~ Has(user'[u].script, y))
          /\ user'[u].id = user[u].id /\ user'[u].gs = gattServer
      BY <1>1, <2>1, <3>2, <3>3, PcNext
    <3>5. Pc(u)' \in {"lockServer"}
      BY <3>4 DEF After, Last
    <3>6. Off'
      BY <1>2, <2>1, <2>3, <3>4, <3>5 DEF Off, CallInv, Starting, Stopping, Closing
    <3>7. CallInv(u)'
      BY <1>2, <2>1, <2>3, <3>4, <3>5 DEF CallInv, Starting, Stopping, Closing
    <3>8. \A r \in running' : r \in {scanner', advState', gattServer'} \/ Holds(u, r)'
      BY <1>2, <2>1, <2>3, <3>4, <3>5 DEF Holds, CallInv, Starting, Stopping, Closing
    <3> QED
      BY <3>6, <3>7, <3>8, OneStep
  <2>4. CASE SkipTo(u, Len(CloseScript)) /\ gattServer = 0
    <3>1. /\ Pc(u) = "takeServer" /\ Pc(u)' \in {"setServices", "takeAdv", "none"}
          /\ \A y : Has(user[u].script, y) => y \in Closing \cup {"takeServer"} \/ Has(user'[u].script, y)
          /\ \A y : Has(user'[u].script, y) => Has(user[u].script, y)
      BY <1>1, <2>1, <2>4, PcSkipClose
    <3>2. Off'
      BY <1>2, <2>1, <2>4, <3>1 DEF Off, CallInv, Starting, Stopping, Closing
    <3>3. CallInv(u)'
      BY <1>2, <2>1, <2>4, <3>1 DEF CallInv, Starting, Stopping, Closing
    <3>4. \A r \in running' : r \in {scanner', advState', gattServer'} \/ Holds(u, r)'
      BY <1>2, <2>1, <2>4, <3>1 DEF Holds, CallInv, Starting, Stopping, Closing
    <3> QED
      BY <3>2, <3>3, <3>4, OneStep
  <2> QED
    BY <2>2, <2>3, <2>4
<1>19. CASE LockServer(u)
  <2>1. At(u, "lockServer") /\ UNCHANGED <<adapter, scanner, advState, gattServer, running, replaced>>
    BY <1>19 DEF LockServer, device
  <2>2. GoOn(u, user[u])
    BY <1>19 DEF LockServer
  <2>3. CASE GoOn(u, user[u])
    <3>1. IsUser(user[u])
      BY <1>1
    <3>2. /\ Pc(u) = "lockServer" /\ Pc(u)' \in After("lockServer") \cup {"none"}
             /\ ("lockServer" \notin Last => Pc(u)' # "none")
          /\ \A y : Has(user[u].script, y) <=> y = "lockServer" \/ Has(user'[u].script, y)
          /\ Len(user'[u].script) \in Nat /\ Len(user'[u].script) + 1 = Len(user[u].script)
          /\ (Pc(u)' = "none" <=> Len(user'[u].script) = 0)
          /\ (Pc(u)' = "none" => \A y : ~ Has(user'[u].script, y))
          /\ user'[u].id = user[u].id /\ user'[u].gs = user[u].gs
      BY <1>1, <2>1, <2>3, <3>1, PcNext
    <3>3. Pc(u)' \in {"stopNotifiers"}
      BY <3>2 DEF After, Last
    <3>4. Off'
      BY <1>2, <2>1, <2>3, <3>2, <3>3 DEF Off, CallInv, Starting, Stopping, Closing
    <3>5. CallInv(u)'
      BY <1>2, <2>1, <2>3, <3>2, <3>3 DEF CallInv, Starting, Stopping, Closing
    <3>6. \A r \in running' : r \in {scanner', advState', gattServer'} \/ Holds(u, r)'
      BY <1>2, <2>1, <2>3, <3>2, <3>3 DEF Holds, CallInv, Starting, Stopping, Closing
    <3> QED
      BY <3>4, <3>5, <3>6, OneStep
  <2> QED
    BY <2>2, <2>3
<1>20. CASE DeleteRefs(u)
  <2>1. At(u, "deleteRefs") /\ UNCHANGED <<adapter, scanner, advState, gattServer, running, replaced>>
    BY <1>20 DEF DeleteRefs, device
  <2>2. GoOn(u, user[u])
    BY <1>20 DEF DeleteRefs
  <2>3. CASE GoOn(u, user[u])
    <3>1. IsUser(user[u])
      BY <1>1
    <3>2. /\ Pc(u) = "deleteRefs" /\ Pc(u)' \in After("deleteRefs") \cup {"none"}
             /\ ("deleteRefs" \notin Last => Pc(u)' # "none")
          /\ \A y : Has(user[u].script, y) <=> y = "deleteRefs" \/ Has(user'[u].script, y)
          /\ Len(user'[u].script) \in Nat /\ Len(user'[u].script) + 1 = Len(user[u].script)
          /\ (Pc(u)' = "none" <=> Len(user'[u].script) = 0)
          /\ (Pc(u)' = "none" => \A y : ~ Has(user'[u].script, y))
          /\ user'[u].id = user[u].id /\ user'[u].gs = user[u].gs
      BY <1>1, <2>1, <2>3, <3>1, PcNext
    <3>3. Pc(u)' \in {"closeServer"}
      BY <3>2 DEF After, Last
    <3>4. Off'
      BY <1>2, <2>1, <2>3, <3>2, <3>3 DEF Off, CallInv, Starting, Stopping, Closing
    <3>5. CallInv(u)'
      BY <1>2, <2>1, <2>3, <3>2, <3>3 DEF CallInv, Starting, Stopping, Closing
    <3>6. \A r \in running' : r \in {scanner', advState', gattServer'} \/ Holds(u, r)'
      BY <1>2, <2>1, <2>3, <3>2, <3>3 DEF Holds, CallInv, Starting, Stopping, Closing
    <3> QED
      BY <3>4, <3>5, <3>6, OneStep
  <2> QED
    BY <2>2, <2>3
<1>21. CASE CloseServer(u)
  <2>1. At(u, "closeServer") /\ UNCHANGED <<adapter, scanner, advState, gattServer, replaced>>
        /\ running' = running \ {user[u].gs}
    BY <1>21 DEF CloseServer
  <2>2. GoOn(u, user[u])
    BY <1>21 DEF CloseServer
  <2>3. CASE GoOn(u, user[u])
    <3>1. IsUser(user[u])
      BY <1>1
    <3>2. /\ Pc(u) = "closeServer" /\ Pc(u)' \in After("closeServer") \cup {"none"}
             /\ ("closeServer" \notin Last => Pc(u)' # "none")
          /\ \A y : Has(user[u].script, y) <=> y = "closeServer" \/ Has(user'[u].script, y)
          /\ Len(user'[u].script) \in Nat /\ Len(user'[u].script) + 1 = Len(user[u].script)
          /\ (Pc(u)' = "none" <=> Len(user'[u].script) = 0)
          /\ (Pc(u)' = "none" => \A y : ~ Has(user'[u].script, y))
          /\ user'[u].id = user[u].id /\ user'[u].gs = user[u].gs
      BY <1>1, <2>1, <2>3, <3>1, PcNext
    <3>3. Pc(u)' \in {"setServices", "takeAdv"}
      BY <3>2 DEF After, Last
    <3>4. Off'
      BY <1>2, <2>1, <2>3, <3>2, <3>3 DEF Off, CallInv, Starting, Stopping, Closing
    <3>5. CallInv(u)'
      BY <1>2, <2>1, <2>3, <3>2, <3>3 DEF CallInv, Starting, Stopping, Closing
    <3>6. \A r \in running' : r \in {scanner', advState', gattServer'} \/ Holds(u, r)'
      BY <1>2, <2>1, <2>3, <3>2, <3>3 DEF Holds, CallInv, Starting, Stopping, Closing
    <3> QED
      BY <3>4, <3>5, <3>6, OneStep
  <2> QED
    BY <2>2, <2>3
<1> QED
  BY <1>3, <1>4, <1>5, <1>6, <1>7, <1>8, <1>9, <1>10, <1>11, <1>12, <1>13, <1>14, <1>15, <1>16, <1>17, <1>18, <1>19,
     <1>20, <1>21

(* Writes, scan results, and steps that change nothing here. *)
LEMMA WriteKeeps ==
  ASSUME ServerInv, NEW n \in Notifiers, Write(n)
  PROVE  ServerInv'
<1>1. Types /\ CloseInv /\ NotifierInv /\ MirrorInv
  BY DEF ServerInv
<1>2. UNCHANGED <<device, app, server>>
  BY DEF Write, WriteBegins, WithBluetoothDeviceObject, WriteEnds
<1>3. UNCHANGED <<srv, central, notifier, cb, up, subscribed>>
  BY <1>2 DEF server
<1>4. PICK w \in {"idle", "value", "device"} :
        /\ writing' = [writing EXCEPT ![n] = w]
        /\ w # "idle" => writing[n] # "idle" \/ (notifier[n].made /\ ~ notifier[n].done)
  <2>1. CASE WriteBegins(n)
    BY <2>1 DEF WriteBegins
  <2>2. CASE WithBluetoothDeviceObject(n)
    <3>1. PICK w : w = IF central[notifier[n].c].live THEN "device" ELSE "idle"
      OBVIOUS
    <3>2. w \in {"idle", "value", "device"}
      BY <3>1
    <3>3. writing[n] = "value" /\ writing' = [writing EXCEPT ![n] = w]
      BY <2>2, <3>1 DEF WithBluetoothDeviceObject
    <3> QED
      BY <3>2, <3>3
  <2>3. CASE WriteEnds(n)
    BY <2>3 DEF WriteEnds
  <2> QED
    BY <2>1, <2>2, <2>3 DEF Write
<1>5. writing' \in [Notifiers -> {"idle", "value", "device"}] /\ writing'[n] = w
      /\ \A m \in Notifiers : m # n => writing'[m] = writing[m]
  BY <1>1, <1>4 DEF Types
<1>6. /\ CloseInv' /\ UNCHANGED user /\ DeviceTypes'
      /\ user' = [u \in Users |-> user'[u]] /\ \A u \in Users : IsUser(user'[u])
  BY <1>1, <1>2, <1>3, AppKeeps
<1>7. Types'
  BY <1>1, <1>3, <1>5, <1>6 DEF Types, DeviceTypes
<1>8. WriteActive'
  BY <1>1, <1>3, <1>4, <1>5 DEF NotifierInv, WriteActive
<1>9. \A j \in Sessions : (Handling(j) <=> Handling(j)') /\ Key(j)' = Key(j)
  BY <1>3 DEF Handling, Key
<1>10. InMap' /\ RefsKept' /\ Popped' /\ PoppedOnce' /\ Found' /\ OldStopped'
  BY <1>1, <1>3 DEF NotifierInv, InMap, RefsKept, Popped, PoppedOnce, Found, OldStopped
<1>11. CharKnown' /\ LookedUp'
  BY <1>1, <1>3, <1>9 DEF NotifierInv, CharKnown, LookedUp
<1>12. SubscribedUp' /\ Handled' /\ Mirror'
  BY <1>1, <1>3, <1>9 DEF MirrorInv, SubscribedUp, Handled, Mirror, Alive
<1> QED
  BY <1>6, <1>7, <1>8, <1>10, <1>11, <1>12 DEF ServerInv, NotifierInv, MirrorInv

LEMMA ScanResultKeeps ==
  ASSUME ServerInv, UNCHANGED <<services, scanner, advState, gattServer, running, sessions, app, server, writing>>,
         known' \in SUBSET Addr
  PROVE  ServerInv'
<1>1. Types /\ CloseInv /\ NotifierInv /\ MirrorInv
  BY DEF ServerInv
<1>2. UNCHANGED <<user, srv, central, notifier, cb, up, subscribed>>
  BY DEF server, app
<1>3. SameServers
  BY <1>2 DEF SameServers, SameServer
<1>4. Types'
  BY <1>1, <1>2 DEF Types
<1>5. CloseInv'
  BY <1>1, <1>2, CloseSame
<1> QED
  BY <1>1, <1>2, <1>3, <1>4, <1>5, SameStep DEF ServerInv

LEMMA InitServerInv == ASSUME Init PROVE ServerInv
<1>1. PICK s : s = NoServer
  OBVIOUS
<1>2. /\ s \in ServerRec /\ s.notifiers = [k \in Keys |-> 0] /\ s.chars = {} /\ s.refs = {}
      /\ ~ s.stopped /\ ~ s.mu
  <2>1. s = [open |-> FALSE, chars |-> {}, refs |-> {}, centrals |-> [a \in Addr |-> 0],
             notifiers |-> [k \in Keys |-> 0], mu |-> FALSE, stopped |-> FALSE]
    BY <1>1, Zenon DEF NoServer
  <2>2. s.notifiers = [k \in Keys |-> 0] /\ s.chars = {} /\ s.refs = {}
    BY <2>1
  <2>3. s.stopped = FALSE
    BY <2>1
  <2>4. s.mu = FALSE
    BY <2>1
  <2>5. s \in ServerRec
    BY <2>1 DEF ServerRec
  <2> QED
    BY <2>2, <2>3, <2>4, <2>5
<1>3. srv = [i \in Sessions |-> s]
  BY <1>1 DEF Init
<1>4. PICK n : n = NoNotifier
  OBVIOUS
<1>5. IsNotifier(n) /\ ~ n.made
  <2>1. n = [made |-> FALSE, c |-> 0, srv |-> 0, key |-> <<>>, done |-> FALSE, late |-> FALSE]
    BY <1>4, Zenon DEF NoNotifier
  <2>2. n.made = FALSE
    BY <2>1
  <2>3. n.done = FALSE
    BY <2>1
  <2>4. n.late = FALSE
    BY <2>1
  <2>5. n = [made |-> n.made, c |-> n.c, srv |-> n.srv, key |-> n.key, done |-> n.done, late |-> n.late]
    BY <2>1
  <2> QED
    BY <2>2, <2>3, <2>4, <2>5 DEF IsNotifier
<1>6. notifier = [m \in Notifiers |-> n] /\ writing = [m \in Notifiers |-> "idle"]
      /\ cb = [i \in Sessions |-> Resting]
      /\ up = [i \in Sessions |-> {}] /\ subscribed = [i \in Sessions |-> {}]
  BY <1>4 DEF Init
<1>7. user = [u \in Users |-> Free] /\ services \in SUBSET Chars /\ sessions = 0 /\ scanner = 0 /\ advState = 0
      /\ gattServer = 0 /\ running = {} /\ known = {}
  BY DEF Init
<1>8. central \in [Centrals -> [made : BOOLEAN, live : BOOLEAN]]
  BY DEF Init, NoCentral
<1>9. Types
  <2>1. user = [u \in Users |-> user[u]] /\ \A u \in Users : IsUser(user[u])
    BY <1>7, FreeFacts
  <2>2. srv \in [Sessions -> ServerRec]
    BY <1>2, <1>3
  <2>3. cb = [i \in Sessions |-> cb[i]] /\ \A i \in Sessions : IsCallback(cb[i])
    BY <1>6, RestFacts
  <2>4. notifier = [m \in Notifiers |-> notifier[m]] /\ \A m \in Notifiers : IsNotifier(notifier[m])
    BY <1>5, <1>6
  <2>5. writing \in [Notifiers -> {"idle", "value", "device"}] /\ up \in [Sessions -> SUBSET Addr]
        /\ subscribed \in [Sessions -> SUBSET Keys]
    BY <1>6
  <2> QED
    BY <1>7, <1>8, <2>1, <2>2, <2>3, <2>4, <2>5 DEF Types
<1>10. CloseInv
  <2>1. \A u \in Users : \A y : ~ At(u, y)
    BY <1>7, FreeFacts DEF At
  <2> QED
    BY <2>1 DEF CloseInv
<1>11. \A i \in Sessions : ~ Handling(i) /\ cb[i].stale = {} /\ cb[i].pc = "idle" /\ srv[i] = s /\ subscribed[i] = {}
  BY <1>3, <1>6, RestFacts DEF Handling
<1>12. NotifierInv
  <2>1. InMap
    BY <1>2, <1>11 DEF InMap
  <2>2. RefsKept
    BY <1>2, <1>11 DEF RefsKept
  <2>3. Popped /\ PoppedOnce /\ CharKnown /\ LookedUp /\ OldStopped
    BY <1>11 DEF Popped, PoppedOnce, CharKnown, LookedUp, OldStopped
  <2>4. Found /\ WriteActive
    BY <1>5, <1>6 DEF Found, WriteActive
  <2> QED
    BY <2>1, <2>2, <2>3, <2>4 DEF NotifierInv
<1>13. MirrorInv
  BY <1>2, <1>11 DEF MirrorInv, SubscribedUp, Handled, Mirror, Alive
<1> QED
  BY <1>9, <1>10, <1>12, <1>13 DEF ServerInv

LEMMA NextServerInv == ASSUME ServerInv, [Next]_vars PROVE ServerInv'
<1>1. CASE UNCHANGED vars
  BY <1>1, ScanResultKeeps DEF vars, device, ServerInv, Types
<1>2. ASSUME NEW u \in Users, Application(u) \/ DeviceStep(u) PROVE ServerInv'
  <2>1. CASE Plain(u)
    BY <2>1, PlainKeeps
  <2>2. CASE TakeServer(u) \/ LockServer(u) \/ StopNotifiers(u) \/ TakeCentrals(u) \/ CloseCentrals(u)
        \/ DeleteRefs(u)
    BY <2>2, TakeServerKeeps, LockServerKeeps, StopOneKeeps, StopAllKeeps, TakeCentralsKeeps, CloseCentralsKeeps,
       DeleteRefsKeeps
  <2>3. CASE AddServiceToGattServer(u)
    BY <2>3, AddServiceKeeps
  <2> QED
    BY <1>2, <2>1, <2>2, <2>3 DEF DeviceStep, Plain
<1>3. ASSUME NEW a \in Addr, OnScanResult(a) PROVE ServerInv'
  <2>1. known' \in SUBSET Addr
    BY <1>3 DEF OnScanResult, ServerInv, Types
  <2>2. UNCHANGED <<services, scanner, advState, gattServer, running, sessions, app, server, writing>>
    BY <1>3 DEF OnScanResult
  <2> QED
    BY <2>1, <2>2, ScanResultKeeps
<1>4. ASSUME NEW i \in Sessions, Callback(i) PROVE ServerInv'
  <2>1. CASE \E a \in Addr : OnConnected(i, a) \/ OnDisconnected(i, a) \/ OnRequest(i, a)
    BY <2>1, ConnectedKeeps, DisconnectedKeeps, RequestKeeps
  <2>2. CASE \E a \in Addr, c \in Chars, on \in BOOLEAN : OnCCCDWrite(i, a, c, on)
    BY <2>2, CCCDKeeps
  <2>3. CASE StopStale(i) \/ LookUp(i) \/ StopExisting(i) \/ EnterNotifier(i)
    BY <2>3, StopStaleKeeps, LookUpKeeps, StopExistingKeeps, EnterKeeps
  <2> QED
    BY <1>4, <2>1, <2>2, <2>3 DEF Callback
<1>5. ASSUME NEW n \in Notifiers, Write(n) PROVE ServerInv'
  BY <1>5, WriteKeeps
<1> QED
  BY <1>1, <1>2, <1>3, <1>4, <1>5 DEF Next

\* The invariant of the server holds in every reachable state, for any callers.
THEOREM ServerInvariant == Spec => []ServerInv
<1>1. Init => ServerInv
  BY InitServerInv
<1>2. ServerInv /\ [Next]_vars => ServerInv'
  BY NextServerInv
<1> QED
  BY <1>1, <1>2, PTL DEF Spec

\* Every variable keeps the type TypeOK gives it.
THEOREM TypeCorrect == Spec => []TypeOK
<1>1. ServerInv => TypeOK
  <2> SUFFICES ASSUME ServerInv PROVE TypeOK
    OBVIOUS
  <2>1. Types /\ WriteActive
    BY DEF ServerInv, NotifierInv
  <2>2. \A i \in Sessions : srv[i] \in ServerRec /\ cb[i].stale \subseteq Notifiers
    BY <2>1 DEF Types, IsCallback
  <2>3. \A i \in Sessions : /\ srv[i].refs \subseteq Chars
                            /\ \A a \in Addr : srv[i].centrals[a] \in {0} \cup Centrals
                            /\ \A k \in Keys : srv[i].notifiers[k] \in {0} \cup Notifiers
    BY <2>2 DEF ServerRec
  <2> QED
    BY <2>1, <2>2, <2>3 DEF TypeOK, Types, WriteActive
<1> QED
  BY <1>1, ServerInvariant, PTL

\* No Write of a notifier that closeGattServer could stop uses a characteristic
\* reference which it has deleted: such a notifier is in the map, so its server
\* was not stopped, and the references go only after that.
THEOREM CharRefsAreLive == Spec => []CharRefLiveUnraced
<1>1. ServerInv => CharRefLiveUnraced
  <2> SUFFICES ASSUME ServerInv, NEW n \in Notifiers, writing[n] # "idle", ~ notifier[n].late,
                      n \notin cb[notifier[n].srv].stale
               PROVE  notifier[n].key[1] \in srv[notifier[n].srv].refs
    BY DEF CharRefLiveUnraced
  <2>1. Types /\ InMap /\ RefsKept /\ Found /\ WriteActive
    BY DEF ServerInv, NotifierInv
  <2>2. notifier[n].made /\ ~ notifier[n].done
    BY <2>1 DEF WriteActive
  <2>3. PICK i \in Sessions : notifier[n].srv = i
    BY <2>1, <2>2 DEF Types, IsNotifier
  <2>4. PICK k \in Keys : notifier[n].key = k
    BY <2>1, <2>2 DEF Types, IsNotifier
  <2>5. srv[i].notifiers[k] = n /\ n # 0
    BY <2>1, <2>2, <2>3, <2>4 DEF Found, Notifiers
  <2>6. ~ srv[i].stopped /\ k[1] \in srv[i].chars
    BY <2>1, <2>5 DEF InMap
  <2> QED
    BY <2>1, <2>3, <2>4, <2>6 DEF RefsKept
<1> QED
  BY <1>1, ServerInvariant, PTL

\* A central that subscribes again is not notified twice: of two notifiers of one
\* server, characteristic and central at most one is not done.
THEOREM OneNotifierIsActive == Spec => []OneActive
<1>1. ServerInv => OneActive
  <2> SUFFICES ASSUME ServerInv, NEW m \in Notifiers, NEW n \in Notifiers, notifier[m].made, notifier[n].made,
                      ~ notifier[m].done, ~ notifier[n].done,
                      notifier[m].srv = notifier[n].srv, notifier[m].key = notifier[n].key
               PROVE  m = n
    BY DEF OneActive
  <2>1. Types /\ Popped /\ PoppedOnce /\ Found
    BY DEF ServerInv, NotifierInv
  <2>2. PICK i \in Sessions : notifier[n].srv = i
    BY <2>1 DEF Types, IsNotifier
  <2>3. PICK k \in Keys : notifier[n].key = k
    BY <2>1 DEF Types, IsNotifier
  <2>4. (srv[i].notifiers[k] = m \/ m \in cb[i].stale) /\ (srv[i].notifiers[k] = n \/ n \in cb[i].stale)
    BY <2>1, <2>2, <2>3 DEF Found
  <2>5. m # 0 /\ n # 0
    BY DEF Notifiers
  <2> QED
    BY <2>1, <2>2, <2>3, <2>4, <2>5 DEF Popped, PoppedOnce
<1> QED
  BY <1>1, ServerInvariant, PTL

\* Between callbacks, the notifiers in the map that are not done are those of
\* the subscriptions the centrals last wrote.
THEOREM SubscriptionsAreMirrored == Spec => []Mirrored
<1>1. ServerInv => Mirrored
  <2> SUFFICES ASSUME ServerInv, NEW i \in Sessions, NEW k \in Keys,
                      cb[i].pc = "idle", ~ srv[i].stopped, ~ srv[i].mu
               PROVE  srv[i].notifiers[k] \in Active(i) <=> k \in subscribed[i]
    BY DEF Mirrored
  <2>1. Alive(i, k) <=> k \in subscribed[i]
    BY DEF ServerInv, MirrorInv, Mirror, Handling
  <2>2. srv[i].notifiers \in [Keys -> {0} \cup Notifiers]
    BY DEF ServerInv, Types, ServerRec
  <2>3. srv[i].notifiers[k] \in Active(i) <=> Alive(i, k)
    BY <2>2 DEF Active, Alive, Range
  <2> QED
    BY <2>1, <2>3
<1> QED
  BY <1>1, ServerInvariant, PTL

LEMMA SameCall ==
  ASSUME StopInv, UNCHANGED <<adapter, scanner, advState, gattServer, running>>,
         \A u \in Users : user'[u].script = user[u].script /\ user'[u].id = user[u].id /\ user'[u].gs = user[u].gs
  PROVE  StopInv'
<1>1. \A u \in Users : Pc(u)' = Pc(u)
  BY DEF Pc
<1>2. \A u \in Users : CallInv(u)'
  BY <1>1 DEF StopInv, CallInv, Starting, Stopping
<1>3. AllHeld'
  BY <1>1 DEF StopInv, AllHeld, Holds
<1>4. Off'
  BY DEF StopInv, Off
<1> QED
  BY <1>2, <1>3, <1>4 DEF StopInv

(* A call begins. *)
LEMMA InvokeKeeps ==
  ASSUME OneUser, ServerInv, StopInv, NEW u \in Users, Application(u)
  PROVE  StopInv'
<1>1. user = [v \in Users |-> user[v]] /\ Off /\ running \subseteq Sessions
  BY DEF ServerInv, Types, StopInv
<1>2. ASSUME NEW s, NEW x, NEW set, Invoke(u, s, set), s # <<>>, Head(s) = x,
             x \in {"checkScan", "checkAdv"} => adapter /\ ~ Has(s, "adapterOff"),
             x = "checkAdv" => Len(s) = 6,
             x = "addService" => Len(s) = 2,
             x \in {"checkScan", "checkAdv", "takeScan", "takeAdv", "addService", "takeServer"},
             Has(s, "adapterOff") => Has(s, "takeScan") /\ Has(s, "takeServer") /\ Has(s, "takeAdv")
      PROVE  StopInv'
  <2>1. user'[u] = [Free EXCEPT !.script = s, !.set = set]
    BY <1>1, <1>2 DEF Invoke
  <2>2. user'[u].script = s
    BY <2>1 DEF Free
  <2>3. Pc(u)' = x /\ Pc(u) = "none"
    BY <1>2, <2>2 DEF Pc, Invoke
  <2>4. UNCHANGED <<adapter, scanner, advState, gattServer, running>>
    BY <1>2 DEF Invoke, device
  <2>5. CallInv(u)'
    BY <1>2, <2>2, <2>3, <2>4 DEF CallInv, Starting, Stopping
  <2>6. \A r \in running : r \in {scanner, advState, gattServer}
    <3>1. \A v \in Users : v = u
      BY DEF OneUser
    <3> QED
      BY <2>3, <3>1 DEF StopInv, AllHeld, Holds, Closing
  <2>7. Off'
    BY <1>1, <2>4 DEF Off
  <2> QED
    BY <2>4, <2>5, <2>6, <2>7, OneStep
<1>3. CASE Scan(u)
  BY <1>2, <1>3, ScriptFacts DEF Scan
<1>4. CASE StopScanning(u)
  BY <1>2, <1>4, ScriptFacts DEF StopScanning
<1>5. CASE Advertise(u)
  <2>1. Len(AdvertiseScript) = 6
    BY DEF AdvertiseScript
  <2> QED
    BY <1>2, <1>5, <2>1, ScriptFacts DEF Advertise
<1>6. CASE StopAdvertising(u)
  BY <1>2, <1>6, ScriptFacts DEF StopAdvertising
<1>7. CASE AddService(u)
  <2>1. Len(<<"addService", "addServices">>) = 2
    OBVIOUS
  <2>2. PICK c : Invoke(u, <<"addService", "addServices">>, {c})
    BY <1>7 DEF AddService
  <2> QED
    BY <1>2, <2>1, <2>2, ScriptFacts
<1>8. CASE SetServices(u)
  <2>1. PICK S : Invoke(u, CloseScript \o <<"setServices">>, S)
    BY <1>8 DEF SetServices
  <2> QED
    BY <1>2, <2>1, ScriptFacts
<1>9. CASE Stop(u)
  BY <1>2, <1>9, ScriptFacts DEF Stop
<1> QED
  BY <1>3, <1>4, <1>5, <1>6, <1>7, <1>8, <1>9 DEF Application

(* The steps of closeGattServer that repeat. *)
LEMMA RepeatKeeps ==
  ASSUME OneUser, ServerInv, StopInv, NEW u \in Users, StopNotifiers(u) \/ TakeCentrals(u) \/ CloseCentrals(u)
  PROVE  StopInv'
<1>1. Types /\ IsUser(user[u]) /\ user = [v \in Users |-> user[v]]
  BY DEF ServerInv, Types
<1>2. /\ Off /\ CallInv(u)
      /\ \A r \in running : r \in {scanner, advState, gattServer} \/ Holds(u, r)
  <2>1. \A v \in Users : v = u
    BY DEF OneUser
  <2> QED
    BY <2>1 DEF StopInv, AllHeld
<1>3. UNCHANGED <<adapter, scanner, advState, gattServer, running>>
  BY DEF StopNotifiers, TakeCentrals, CloseCentrals, device
<1>4. Off'
  BY <1>2, <1>3 DEF Off
<1>5. ASSUME NEW x \in {"stopNotifiers", "takeCentrals", "closeCentrals"}, At(u, x), NEW l, IsUser(l), GoOn(u, l),
             l.gs = user[u].gs
      PROVE  StopInv'
  <2>1. /\ Pc(u) = x /\ Pc(u)' \in After(x) \cup {"none"} /\ (x \notin Last => Pc(u)' # "none")
        /\ \A y : Has(user[u].script, y) <=> y = x \/ Has(user'[u].script, y)
        /\ user'[u].gs = l.gs
    BY <1>1, <1>5, PcNext
  <2>2. Pc(u)' \in {"takeCentrals", "closeCentrals", "deleteRefs"}
    BY <1>5, <2>1 DEF After, Last
  <2>3. CallInv(u)'
    BY <1>2, <1>3, <1>5, <2>1, <2>2 DEF CallInv, Starting, Stopping
  <2>4. \A r \in running' : r \in {scanner', advState', gattServer'} \/ Holds(u, r)'
    BY <1>2, <1>3, <1>5, <2>1, <2>2 DEF Holds, Closing
  <2> QED
    BY <1>4, <2>3, <2>4, OneStep
<1>6. CASE StopNotifiers(u)
  <2>1. (UNCHANGED user) \/ (At(u, "stopNotifiers") /\ GoOn(u, user[u]))
    BY <1>6 DEF StopNotifiers
  <2> QED
    BY <1>1, <1>3, <1>5, <2>1, SameCall
<1>7. CASE TakeCentrals(u)
  <2>1. PICK l : l = [user[u] EXCEPT !.ending = Range(srv[user[u].gs].centrals) \ {0}]
    OBVIOUS
  <2>2. At(u, "takeCentrals") /\ GoOn(u, l)
    BY <1>7, <2>1 DEF TakeCentrals
  <2>3. IsUser(l) /\ l.gs = user[u].gs
    BY <1>1, <2>1, EndingFacts, ZenonT(60)
  <2> QED
    BY <1>5, <2>2, <2>3
<1>8. CASE CloseCentrals(u)
  <2>1. CASE user[u].ending # {}
    <3>1. PICK c : user' = [user EXCEPT ![u].ending = @ \ {c}]
      BY <1>8, <2>1 DEF CloseCentrals
    <3>2. PICK l : l = [user[u] EXCEPT !.ending = user[u].ending \ {c}]
      OBVIOUS
    <3>3. user' = [user EXCEPT ![u] = l]
      BY <3>1, <3>2
    <3>4. l.script = user[u].script /\ l.id = user[u].id /\ l.gs = user[u].gs
      BY <1>1, <3>2 DEF IsUser
    <3>5. \A v \in Users : user'[v].script = user[v].script /\ user'[v].id = user[v].id /\ user'[v].gs = user[v].gs
      BY <1>1, <3>3, <3>4
    <3> QED
      BY <1>3, <3>5, SameCall
  <2>2. CASE user[u].ending = {}
    <3>1. At(u, "closeCentrals") /\ GoOn(u, user[u])
      BY <1>8, <2>2 DEF CloseCentrals
    <3> QED
      BY <1>1, <1>5, <3>1
  <2> QED
    BY <2>1, <2>2
<1> QED
  BY <1>6, <1>7, <1>8

LEMMA AddKeeps ==
  ASSUME OneUser, ServerInv, StopInv, NEW u \in Users, AddServiceToGattServer(u)
  PROVE  StopInv'
<1>1. Types /\ IsUser(user[u]) /\ user = [v \in Users |-> user[v]]
  BY DEF ServerInv, Types
<1>2. /\ Off /\ CallInv(u)
      /\ \A r \in running : r \in {scanner, advState, gattServer} \/ Holds(u, r)
  <2>1. \A v \in Users : v = u
    BY DEF OneUser
  <2> QED
    BY <2>1 DEF StopInv, AllHeld
<1>3. UNCHANGED <<adapter, scanner, advState, gattServer>> /\ At(u, "addServices")
  BY DEF AddServiceToGattServer
<1>4. Off' /\ Pc(u) = "addServices"
  BY <1>2, <1>3 DEF Off, Pc, At
<1>5. \/ GoOn(u, user[u]) /\ UNCHANGED running
      \/ (\E c : user' = [user EXCEPT ![u].set = @ \ {c}]) /\ UNCHANGED running
      \/ Return(u) /\ running' = (IF Len(user[u].script) > 1 THEN running \ {user[u].gs} ELSE running)
  BY DEF AddServiceToGattServer
<1>6. CASE GoOn(u, user[u]) /\ UNCHANGED running
  <2>1. /\ Pc(u)' \in After("addServices") \cup {"none"}
        /\ \A y : Has(user[u].script, y) <=> y = "addServices" \/ Has(user'[u].script, y)
        /\ Len(user'[u].script) \in Nat /\ Len(user'[u].script) + 1 = Len(user[u].script)
        /\ (Pc(u)' = "none" <=> Len(user'[u].script) = 0)
        /\ (Pc(u)' = "none" => \A y : ~ Has(user'[u].script, y))
        /\ user'[u].gs = user[u].gs
    BY <1>1, <1>3, <1>6, PcNext
  <2>2. Pc(u)' \in {"storeServer", "none"}
    BY <2>1 DEF After
  <2>3. Pc(u)' = "storeServer" <=> Len(user[u].script) > 1
    <3>1. PICK m : m = Len(user'[u].script)
      OBVIOUS
    <3>2. PICK p : p = Len(user[u].script)
      OBVIOUS
    <3>3. m \in Nat /\ m + 1 = p /\ (Pc(u)' = "none" <=> m = 0)
      BY <2>1, <3>1, <3>2
    <3>4. Pc(u)' = "none" <=> ~ (p > 1)
      BY <3>3
    <3> QED
      BY <2>2, <3>2, <3>4
  <2>4. CallInv(u)'
    BY <1>2, <1>3, <1>4, <2>1, <2>2, <2>3 DEF CallInv, Starting, Stopping
  <2>5. \A r \in running' : r \in {scanner', advState', gattServer'} \/ Holds(u, r)'
    BY <1>2, <1>3, <1>4, <1>6, <2>1, <2>2, <2>3 DEF Holds, Closing
  <2> QED
    BY <1>4, <2>4, <2>5, OneStep
<1>7. CASE (\E c : user' = [user EXCEPT ![u].set = @ \ {c}]) /\ UNCHANGED running
  <2>1. PICK c : user' = [user EXCEPT ![u].set = @ \ {c}]
    BY <1>7
  <2>2. PICK l : l = [user[u] EXCEPT !.set = user[u].set \ {c}]
    OBVIOUS
  <2>3. user' = [user EXCEPT ![u] = l]
    BY <2>1, <2>2
  <2>4. l.script = user[u].script /\ l.id = user[u].id /\ l.gs = user[u].gs
    BY <1>1, <2>2 DEF IsUser
  <2>5. \A v \in Users : user'[v].script = user[v].script /\ user'[v].id = user[v].id /\ user'[v].gs = user[v].gs
    BY <1>1, <2>3, <2>4
  <2> QED
    BY <1>3, <1>7, <2>5, SameCall
<1>8. CASE Return(u) /\ running' = (IF Len(user[u].script) > 1 THEN running \ {user[u].gs} ELSE running)
  <2>1. Pc(u)' = "none" /\ \A y : ~ Has(user'[u].script, y)
    BY <1>1, <1>8, PcReturn
  <2>2. CallInv(u)'
    BY <2>1 DEF CallInv, Starting, Stopping
  <2>3. \A r \in running' : r \in {scanner', advState', gattServer'}
    BY <1>2, <1>3, <1>4, <1>8 DEF Holds, Closing
  <2> QED
    BY <1>4, <2>2, <2>3, OneStep
<1> QED
  BY <1>5, <1>6, <1>7, <1>8

LEMMA NextStopInv ==
  ASSUME OneUser, ServerInv, StopInvOK, [Next]_vars
  PROVE  StopInvOK'
<1>1. replaced => replaced'
  <2>1. CASE UNCHANGED replaced
    BY <2>1
  <2>2. CASE \E u \in Users : StoreServer(u)
    BY <2>2 DEF StoreServer
  <2>3. (UNCHANGED replaced) \/ \E u \in Users : StoreServer(u)
    <3>1. CASE UNCHANGED vars
      BY <3>1 DEF vars
    <3>2. ASSUME NEW u \in Users, Application(u) PROVE UNCHANGED replaced
      BY <3>2 DEF Application, Scan, StopScanning, Advertise, StopAdvertising, AddService, SetServices, Stop, Invoke
    <3>3. ASSUME NEW u \in Users, DeviceStep(u), ~ StoreServer(u) PROVE UNCHANGED replaced
      BY <3>3 DEF DeviceStep, CheckScan, StartScan, StoreScan, TakeScan, StopScan, CheckAdv, StartAdv, StoreAdv,
           TakeAdv, StopAdv, OpenServer, AddServiceStep, AddServiceToGattServer, SetServicesStep, AdapterOff,
           TakeServer, LockServer, StopNotifiers, TakeCentrals, CloseCentrals, DeleteRefs, CloseServer
    <3>4. ASSUME NEW a \in Addr, OnScanResult(a) PROVE UNCHANGED replaced
      BY <3>4 DEF OnScanResult
    <3>5. ASSUME NEW i \in Sessions, Callback(i) PROVE UNCHANGED replaced
      BY <3>5 DEF Callback, OnConnected, OnDisconnected, OnRequest, OnCCCDWrite, StopStale, LookUp, StopExisting,
         EnterNotifier
    <3>6. ASSUME NEW n \in Notifiers, Write(n) PROVE UNCHANGED replaced
      BY <3>6 DEF Write, WriteBegins, WithBluetoothDeviceObject, WriteEnds
    <3> QED
      BY <3>1, <3>2, <3>3, <3>4, <3>5, <3>6 DEF Next
  <2> QED
    BY <2>1, <2>2, <2>3
<1>2. SUFFICES ASSUME StopInv, ~ replaced' PROVE StopInv'
  BY <1>1 DEF StopInvOK
<1>3. ASSUME UNCHANGED <<adapter, scanner, advState, gattServer, running, user>> PROVE StopInv'
  BY <1>3, SameCall, <1>2
<1>4. CASE UNCHANGED vars
  BY <1>3, <1>4 DEF vars, device, app
<1>5. ASSUME NEW u \in Users, Application(u) PROVE StopInv'
  BY <1>2, <1>5, InvokeKeeps
<1>6. ASSUME NEW u \in Users, DeviceStep(u) PROVE StopInv'
  BY <1>2, <1>6, CallKeeps, RepeatKeeps, AddKeeps DEF DeviceStep
<1>7. ASSUME NEW a \in Addr, OnScanResult(a) PROVE StopInv'
  BY <1>3, <1>7 DEF OnScanResult, app
<1>8. ASSUME NEW i \in Sessions, Callback(i) PROVE StopInv'
  <2>1. UNCHANGED <<device, app>>
    BY <1>8 DEF Callback, OnConnected, OnDisconnected, OnRequest, OnCCCDWrite, StopStale, LookUp, StopExisting,
       EnterNotifier
  <2> QED
    BY <1>3, <2>1 DEF device, app
<1>9. ASSUME NEW n \in Notifiers, Write(n) PROVE StopInv'
  <2>1. UNCHANGED <<device, app>>
    BY <1>9 DEF Write, WriteBegins, WithBluetoothDeviceObject, WriteEnds
  <2> QED
    BY <1>3, <2>1 DEF device, app
<1> QED
  BY <1>4, <1>5, <1>6, <1>7, <1>8, <1>9 DEF Next

\* With one goroutine that calls the device, Stop leaves nothing running on the
\* Java side, unless an open server was replaced by another.  With two, two calls
\* of Scan may both find no scanner and the second scan replace the first.
THEOREM StopClosesEverything ==
  ASSUME OneUser
  PROVE  Spec => []StopClosesAll
<1>1. Init => StopInvOK
  <2> SUFFICES ASSUME Init PROVE StopInv
    BY DEF StopInvOK
  <2>1. adapter = TRUE /\ scanner = 0 /\ advState = 0 /\ gattServer = 0 /\ running = {}
        /\ user = [u \in Users |-> Free]
    BY DEF Init
  <2>2. \A u \in Users : user[u].script = <<>> /\ Pc(u) = "none" /\ \A y : ~ Has(user[u].script, y)
    BY <2>1, FreeFacts DEF Pc, Has
  <2> QED
    BY <2>1, <2>2 DEF StopInv, Off, AllHeld, CallInv, Starting, Stopping
<1>2. ServerInv /\ StopInvOK /\ [Next]_vars => StopInvOK'
  BY NextStopInv
<1>3. ServerInv /\ StopInvOK => StopClosesAll
  <2> SUFFICES ASSUME ServerInv, StopInvOK, ~ adapter, ~ replaced, \A u \in Users : user[u].script = <<>>
               PROVE  running = {}
    BY DEF StopClosesAll
  <2>1. \A u \in Users, r \in running : ~ Holds(u, r)
    BY DEF Holds, Pc, Closing
  <2>2. \A r \in running : r \in {scanner, advState, gattServer} /\ r # 0
    BY <2>1 DEF StopInvOK, StopInv, AllHeld, ServerInv, Types, Sessions
  <2> QED
    BY <2>2 DEF StopInvOK, StopInv, Off
<1> QED
  BY <1>1, <1>2, <1>3, ServerInvariant, PTL DEF Spec

=============================================================================
