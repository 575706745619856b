----------------------------- MODULE Discovery -----------------------------
(***************************************************************************)
(* What a client learns of a server: the attribute table and the read      *)
(* handlers of the ATT server (attr.go, central_linux.go,                  *)
(* l2cap_writer_linux.go) under the discovery loops and the long read of   *)
(* the ATT client (peripheral_linux.go).                                   *)
(*                                                                         *)
(* An application declares services; generateAttributes lays them out in a *)
(* table.  A client asks for them page by page: a response holds as many   *)
(* entries of one size as fit the MTU, and the client works out from the   *)
(* last entry which handle to ask for next and whether it is done.  One    *)
(* goroutine discovers and reads, another may exchange the MTU meanwhile;  *)
(* sendReq serialises their requests (module AttClient) and may fail.      *)
(*                                                                         *)
(* UUIDs of services, characteristics and descriptors have 2 or 16 bytes;  *)
(* a value is the sequence of its bytes.  The objects a client makes are   *)
(* the elements of services and of their chars; a call keeps the indices of*)
(* those it works on.  ErrInvalidLength and a searchService that finds     *)
(* nothing are answers to other servers than this one.                     *)
(***************************************************************************)
EXTENDS Integers, SequencesExt

CONSTANTS
  Profiles,   \* the declarations considered
  LongUUIDs,  \* the UUIDs of 16 bytes; the others have 2
  Filters,    \* the lists of UUIDs calls are given, as sets
  All,        \* nil, in place of such a list
  Mtus,       \* the MTUs the client may ask for
  MaxCalls,   \* bound: calls
  MaxFails,   \* bound: requests that fail
  MaxMtuReqs, \* bound: MTU exchanges
  NoValue     \* the value of a characteristic that cannot be read

MaxHandle == 65535
DefaultMtu == 23
MaxMtu == 256
PrimaryService == "2800"
CharDeclaration == "2803"
CCC == "2902"

ASSUME DiscoveryAssumption ==
  /\ Mtus \subseteq 1 .. MaxHandle /\ All \notin Filters
  /\ MaxCalls \in Nat /\ MaxFails \in Nat /\ MaxMtuReqs \in Nat

VARIABLES
  profile,  \* the declared services
  attrs,    \* central.attrs, generated from them; the base handle is 1
  smtu,     \* central.mtu
  cmtu,     \* peripheral.mtu, 0 until it is set
  mtuResp,  \* the MTU a SetMTU under way is about to assign, or 0
  services, \* peripheral.services
  op,       \* the call under way
  si, ci,   \* the service and the characteristic it is for
  filter,   \* its list of UUIDs
  start,    \* the handle to ask for next
  prev,     \* DiscoverCharacteristics: where the previous characteristic is
  piece,    \* a read response not looked at yet
  buf,      \* the bytes read so far
  last,     \* the call that has just returned without an error
  remade,   \* some call was repeated or filtered, or has failed
  overlap,  \* during the read the MTUs changed, or the server's was the smaller
  called, ncalls, nfails, nmtu \* the calls made, and what is bounded

mtu == <<smtu, cmtu, mtuResp, nmtu>>
args == <<si, ci, filter>>
reading == <<piece, buf>>
vars == <<profile, attrs, mtu, services, op, args, start, prev, reading, overlap, last,
          remade, called, ncalls, nfails>>

Size(u) == IF u \in LongUUIDs THEN 16 ELSE 2
\* h + 1 of a uint16.
Next16(h) == (h + 1) % (MaxHandle + 1)
-----------------------------------------------------------------------------
(* The attribute table (attr.go).                                          *)

Attr(typ, uuid, value) == [typ |-> typ, uuid |-> uuid, value |-> value, endh |-> 0]

\* The declaration of a characteristic, its value and its descriptors.
generateCharAttributes(c) ==
  <<Attr(CharDeclaration, c.uuid, NoValue), Attr(c.uuid, c.uuid, c.value)>>
    \o [k \in DOMAIN c.descs |-> Attr(c.descs[k], c.descs[k], NoValue)]

\* Service.endh of n attributes from h on: the last service gets all there are.
EndHandle(h, n, isLast) == IF isLast THEN MaxHandle ELSE h + n - 1

generateServiceAttributes(s, h, isLast) ==
  LET aa == <<Attr(PrimaryService, s.uuid, NoValue)>>
              \o FlattenSeq([j \in DOMAIN s.chars |-> generateCharAttributes(s.chars[j])])
  IN [aa EXCEPT ![1].endh = EndHandle(h, Len(aa), isLast)]

generateAttributes(p) ==
  FoldLeftDomain(LAMBDA aa, i : aa \o generateServiceAttributes(p[i], Len(aa) + 1, i = Len(p)),
                 <<>>, p)

\* The handles of Subrange(from, to).  It panics when from > to + 1.
Subrange(from, to) ==
  LET lo == IF from < 1 THEN 1 ELSE from
  IN [i \in 1 .. Max({0, Min({to, Len(attrs)}) - lo + 1}) |-> lo + i - 1]
-----------------------------------------------------------------------------
(* The handlers (central_linux.go).                                        *)

\* Commit: n entries of this size fit behind the two bytes of the header.
Fits(n, size) == 2 + n * size <= smtu

\* The response to a request that hs match, whose entries have a fixed part of
\* extra bytes and the UUID in field f: those as long as the first, as many as
\* fit.  If there is none at all the answer is AttrECodeAttrNotFound.
Page(hs, extra, f) ==
  IF hs = <<>> THEN [found |-> FALSE, hs |-> <<>>]
  ELSE LET len(i) == extra + Size(attrs[hs[i]][f])
           other == {i \in DOMAIN hs : len(i) # len(1) \/ ~ Fits(i, len(1))}
       IN [found |-> TRUE, hs |-> IF other = {} THEN hs ELSE SubSeq(hs, 1, Min(other) - 1)]

OfType(hs, t) == SelectSeq(hs, LAMBDA h : attrs[h].typ = t)

\* Handle, end handle and UUID of primary services.
handleReadByGroup(from, to) == Page(OfType(Subrange(from, to), PrimaryService), 4, "uuid")
\* Handle, properties, value handle and UUID of characteristics.
handleReadByType(from, to) == Page(OfType(Subrange(from, to), CharDeclaration), 5, "uuid")
\* Handle and type of attributes.
handleFindInfo(from, to) == Page(Subrange(from, to), 2, "typ")

\* The bytes of v from an offset on, as many as fit behind the opcode.
CommitFit(v, off) == SubSeq(v, off + 1, Min({Len(v), off + smtu - 1}))

\* handleRead (off = 0) and handleReadBlob of the value at h.  NoValue is an error.
handleReadBlob(h, off) ==
  LET v == attrs[h].value
  IN IF v = NoValue \/ off > Len(v) THEN NoValue ELSE CommitFit(v, off)

\* Mutant: the MTU is not bounded from below.
handleMTU_NoMin(m) == IF m >= MaxMtu THEN MaxMtu ELSE m

handleMTU(m) == IF m < DefaultMtu THEN DefaultMtu ELSE IF m >= MaxMtu THEN MaxMtu ELSE m
-----------------------------------------------------------------------------
NoCall == [op |-> "none", s |-> 0, c |-> 0, filter |-> All]

Init ==
  /\ profile \in Profiles /\ attrs = generateAttributes(profile)
  /\ smtu = DefaultMtu /\ cmtu = 0 /\ mtuResp = 0 /\ nmtu = 0
  /\ services = <<>>
  /\ op = "idle" /\ si = 0 /\ ci = 0 /\ filter = All /\ start = 1 /\ prev = <<>>
  /\ piece = NoValue /\ buf = <<>> /\ overlap = FALSE
  /\ last = NoCall /\ remade = FALSE /\ called = {}
  /\ ncalls = 0 /\ nfails = 0

\* UUIDContains
UUIDContains(f, u) == f = All \/ u \in f

\* A call begins.
Begin(o, s, c, f, h) ==
  /\ op = "idle" /\ ncalls < MaxCalls /\ f \in Filters \cup {All}
  /\ op' = o /\ si' = s /\ ci' = c /\ filter' = f /\ start' = h
  /\ ncalls' = ncalls + 1 /\ called' = called \cup {<<o, s, c>>}
  /\ remade' = (remade \/ <<o, s, c>> \in called \/ f # All)
  /\ last' = NoCall /\ prev' = <<>>
  /\ buf' = <<>> /\ piece' = NoValue
  /\ overlap' = (mtuResp # 0 \/ cmtu > smtu)
  /\ UNCHANGED <<profile, attrs, mtu, nfails>>

\* It returns what it found,
Succeed ==
  /\ op' = "idle" /\ last' = [op |-> op, s |-> si, c |-> ci, filter |-> filter]
  /\ UNCHANGED remade
\* or an error.
GiveUp == op' = "idle" /\ last' = NoCall /\ remade' = TRUE
\* It goes on with another request.
GoOn == UNCHANGED <<op, last, remade>>

\* sendReq returns an error; what the call has stored stays.
Fail ==
  /\ op # "idle" /\ piece = NoValue /\ nfails < MaxFails
  /\ GiveUp /\ nfails' = nfails + 1
  /\ UNCHANGED <<profile, attrs, mtu, services, args, start, prev, reading, overlap, called,
                 ncalls>>

\* What no request of a discovery changes.
Kept == <<profile, attrs, mtu, args, reading, overlap, called, ncalls, nfails>>
-----------------------------------------------------------------------------
(* DiscoverServices and DiscoverIncludedServices.                          *)

DiscoverServices(f) == Begin("services", 0, 0, f, 1) /\ UNCHANGED services

NewServices(hs) ==
  LET kept == SelectSeq(hs, LAMBDA h : UUIDContains(filter, attrs[h].uuid))
  IN [i \in DOMAIN kept |-> [uuid |-> attrs[kept[i]].uuid, h |-> kept[i],
                             endh |-> attrs[kept[i]].endh, chars |-> <<>>]]

\* One request and its response.  A response without entries changes nothing.
ServicesRequest ==
  /\ op = "services" /\ UNCHANGED <<Kept, prev>>
  /\ \E r \in {handleReadByGroup(start, MaxHandle)} :
     IF ~ r.found THEN Succeed /\ UNCHANGED <<services, start>>
     ELSE /\ services' = services \o NewServices(r.hs)
          /\ IF r.hs = <<>> THEN GoOn /\ UNCHANGED start
             ELSE /\ start' = Next16(attrs[Last(r.hs)].endh)
                  /\ IF attrs[Last(r.hs)].endh = MaxHandle THEN Succeed ELSE GoOn

DiscoverIncludedServices(s) == Begin("included", s, 0, All, 1) /\ UNCHANGED services

\* The server supports no group but primary services.
IncludedRequest ==
  /\ op = "included" /\ GiveUp
  /\ UNCHANGED <<Kept, services, start, prev>>
-----------------------------------------------------------------------------
(* DiscoverCharacteristics.                                                *)

DiscoverCharacteristics(s, f) == Begin("chars", s, 0, f, services[s].h) /\ UNCHANGED services

searchService(ss, h, vh) ==
  Min({k \in DOMAIN ss : ss[k].h < h /\ ss[k].endh >= vh})

\* Mutant: a characteristic ends where the next one begins.
CharEnd_Next(h) == h

\* prev.endh = c.h - 1
CharEnd(h) == h - 1

\* The characteristics of a response that are asked for; each ends before the
\* next entry, asked for or not, and the end of the last is not known yet.
NewChars(hs) ==
  LET kept == SelectSeq(hs, LAMBDA h : UUIDContains(filter, attrs[h].uuid))
      next(h) == {g \in ToSet(hs) : g > h}
  IN [i \in DOMAIN kept |->
       [uuid |-> attrs[kept[i]].uuid, h |-> kept[i], vh |-> kept[i] + 1, descs |-> <<>>, cccd |-> 0,
        endh |-> IF next(kept[i]) = {} THEN 0 ELSE CharEnd(Min(next(kept[i])))]]

\* They go to the first service, k, that holds their handles: all to the same, as
\* they are within one.  The one before them ends where they begin.
AddChars(hs, k) ==
  LET ended == IF prev = <<>> THEN services
               ELSE [services EXCEPT ![prev[1]].chars[prev[2]].endh = CharEnd(hs[1])]
  IN [ended EXCEPT ![k].chars = @ \o NewChars(hs)]

\* The last characteristic of several ends with its service.
EndLast(ss) ==
  LET n == Len(ss[si].chars)
  IN IF n > 1 THEN [ss EXCEPT ![si].chars[n].endh = ss[si].endh] ELSE ss

\* One request and its response.
CharsRequest ==
  /\ op = "chars" /\ UNCHANGED Kept
  /\ \E r \in {handleReadByType(start, services[si].endh)} :
     LET k == searchService(services, r.hs[1], r.hs[1] + 1)
         vh == Last(r.hs) + 1
         kept == UUIDContains(filter, attrs[Last(r.hs)].uuid)
     IN IF ~ r.found THEN Succeed /\ services' = EndLast(services) /\ UNCHANGED <<start, prev>>
        ELSE IF r.hs = <<>> THEN GoOn /\ UNCHANGED <<services, start, prev>>
        ELSE /\ start' = Next16(vh)
             /\ prev' = IF kept THEN <<k, Len(services[k].chars) + Len(NewChars(r.hs))>> ELSE <<>>
             /\ IF vh = services[k].endh
                THEN Succeed /\ services' = EndLast(AddChars(r.hs, k))
                ELSE GoOn /\ services' = AddChars(r.hs, k)
-----------------------------------------------------------------------------
(* DiscoverDescriptors.                                                    *)

AfterValue(c) == Next16(c.vh)

\* A characteristic whose end is not known ends with its service.
DiscoverDescriptors(s, c, f) ==
  /\ Begin("descs", s, c, f, AfterValue(services[s].chars[c]))
  /\ services' = [services EXCEPT ![s].chars[c].endh = IF @ = 0 THEN services[s].endh ELSE @]

NewDescriptors(hs) ==
  LET kept == SelectSeq(hs, LAMBDA h : UUIDContains(filter, attrs[h].typ))
  IN [i \in DOMAIN kept |-> [uuid |-> attrs[kept[i]].typ, h |-> kept[i]]]

\* One request and its response.  The client characteristic configuration is
\* noted whether it is asked for or not; of several, the last.
DescsRequest ==
  /\ op = "descs" /\ UNCHANGED <<Kept, prev>>
  /\ \E r \in {handleFindInfo(start, services[si].chars[ci].endh)} :
     LET ccc == OfType(r.hs, CCC)
     IN IF ~ r.found THEN Succeed /\ UNCHANGED <<services, start>>
        ELSE /\ services' = [services EXCEPT ![si].chars[ci] =
                  [@ EXCEPT !.descs = @ \o NewDescriptors(r.hs),
                            !.cccd = IF ccc = <<>> THEN @ ELSE Last(ccc)]]
             /\ IF r.hs = <<>> THEN GoOn /\ UNCHANGED start
                ELSE /\ start' = Next16(Last(r.hs))
                     /\ IF Last(r.hs) = services[si].chars[ci].endh THEN Succeed ELSE GoOn
-----------------------------------------------------------------------------
(* ReadLongCharacteristic and, in another goroutine, SetMTU.               *)

Reading == op \in {"read", "blob"}

ReadLongCharacteristic(s, c) ==
  Begin("read", s, c, All, services[s].chars[c].vh) /\ UNCHANGED services

\* The request of ReadCharacteristic, later one for a blob, and its response.
ReadRequest ==
  LET b == handleReadBlob(start, Len(buf))
  IN /\ Reading /\ piece = NoValue
     /\ piece' = b /\ IF b = NoValue THEN GiveUp ELSE GoOn
     /\ UNCHANGED <<profile, attrs, mtu, services, args, start, prev, buf, overlap, called,
                    ncalls, nfails>>

\* Mutant: a full response is taken for a short one.
Short_ByOne(b) == Len(b) < cmtu

\* len(b) < int(p.mtu)-1
Short(b) == Len(b) < cmtu - 1

\* The response is looked at: a short one, or after the first an empty one, is
\* the last.
ReadResponse ==
  /\ Reading /\ piece # NoValue
  /\ buf' = buf \o piece /\ piece' = NoValue
  /\ IF Short(piece) \/ (op = "blob" /\ piece = <<>>) THEN Succeed
     ELSE op' = "blob" /\ UNCHANGED <<last, remade>>
  /\ UNCHANGED <<profile, attrs, mtu, services, args, start, prev, overlap, called, ncalls,
                 nfails>>

\* SetMTU: the server has its new MTU before the client has,
MtuRequest(m) ==
  /\ mtuResp = 0 /\ nmtu < MaxMtuReqs
  /\ nmtu' = nmtu + 1
  /\ smtu' = handleMTU(m) /\ mtuResp' = Min({m, handleMTU(m)})
  /\ overlap' = (overlap \/ Reading)
  /\ UNCHANGED <<profile, attrs, cmtu, services, op, args, start, prev, reading, last, remade,
                 called, ncalls, nfails>>

\* which takes the smaller of the two,
MtuResponse ==
  /\ mtuResp # 0
  /\ cmtu' = mtuResp /\ mtuResp' = 0
  /\ UNCHANGED <<profile, attrs, smtu, nmtu, services, op, args, start, prev, reading, overlap,
                 last, remade, called, ncalls, nfails>>

\* or has given up waiting and keeps the one it had.
MtuFail ==
  /\ mtuResp # 0 /\ nfails < MaxFails
  /\ mtuResp' = 0 /\ nfails' = nfails + 1
  /\ UNCHANGED <<profile, attrs, smtu, cmtu, nmtu, services, op, args, start, prev, reading,
                 overlap, last, remade, called, ncalls>>
-----------------------------------------------------------------------------
Requests == ServicesRequest \/ IncludedRequest \/ CharsRequest \/ DescsRequest
              \/ ReadRequest \/ ReadResponse

Next ==
  \/ \E f \in Filters \cup {All} :
       \/ DiscoverServices(f)
       \/ \E s \in DOMAIN services :
            \/ DiscoverCharacteristics(s, f)
            \/ \E c \in DOMAIN services[s].chars : DiscoverDescriptors(s, c, f)
  \/ \E s \in DOMAIN services :
       \/ DiscoverIncludedServices(s)
       \/ \E c \in DOMAIN services[s].chars : ReadLongCharacteristic(s, c)
  \/ Requests \/ Fail
  \/ \E m \in Mtus : MtuRequest(m)
  \/ MtuResponse \/ MtuFail

Spec == Init /\ [][Next]_vars

\* A goroutine in a call goes on, and the server answers.
FairSpec == Spec /\ WF_vars(Requests)
-----------------------------------------------------------------------------
(* Properties.                                                             *)

\* Handles, locals and what has been discovered are of the right kind; no call
\* asks for the handle 0 the arithmetic wraps around to.
TypeOK ==
  /\ op \in {"idle", "services", "included", "chars", "descs", "read", "blob"}
  /\ start \in 0 .. MaxHandle /\ (op # "idle" => start # 0)
  /\ smtu \in DefaultMtu .. MaxMtu /\ cmtu \in 0 .. MaxMtu /\ mtuResp \in 0 .. MaxMtu
  /\ \A k \in DOMAIN services :
       /\ services[k].h \in DOMAIN attrs /\ services[k].endh \in 1 .. MaxHandle
       /\ \A j \in DOMAIN services[k].chars : services[k].chars[j].h \in DOMAIN attrs
  /\ op \in {"chars", "descs", "read", "blob"} => si \in DOMAIN services
  /\ op \in {"descs", "read", "blob"} => ci \in DOMAIN services[si].chars
  /\ (piece # NoValue => Reading)

\* What the application has declared, with the handles it should have.
Before(q, i) == SubSeq(q, 1, i - 1)
CharLen(c) == 2 + Len(c.descs)
ServiceLen(s) == 1 + FoldLeft(LAMBDA n, c : n + CharLen(c), 0, s.chars)
ServiceHandle(i) == 1 + FoldLeft(LAMBDA n, s : n + ServiceLen(s), 0, Before(profile, i))
CharHandle(i, j) ==
  ServiceHandle(i) + 1 + FoldLeft(LAMBDA n, c : n + CharLen(c), 0, Before(profile[i].chars, j))
ServiceEnd(i) == IF i = Len(profile) THEN MaxHandle ELSE ServiceHandle(i + 1) - 1

\* s is the i-th declared service, c the j-th characteristic of the i-th.
IsService(s, i) ==
  s.uuid = profile[i].uuid /\ s.h = ServiceHandle(i) /\ s.endh = ServiceEnd(i)
IsChar(c, i, j) ==
  /\ c.uuid = profile[i].chars[j].uuid
  /\ c.h = CharHandle(i, j) /\ c.vh = c.h + 1

\* The declared service and characteristic that services[k].chars[j] is.
TheService(k) == CHOOSE i \in DOMAIN profile : ServiceHandle(i) = services[k].h
TheChar(k, j) ==
  CHOOSE n \in DOMAIN profile[TheService(k)].chars :
    CharHandle(TheService(k), n) = services[k].chars[j].h

\* DiscoverServices makes nothing up, finds every service it is asked for
\* whatever the sizes of UUIDs, pages and the MTU, and finds each once, in order,
\* when it is asked once ("If the specified services is set to nil, all the
\* available services of the remote peripheral are returned").
ServicesFound ==
  /\ \A k \in DOMAIN services : \E i \in DOMAIN profile : IsService(services[k], i)
  /\ last.op = "services" =>
       \A i \in DOMAIN profile : UUIDContains(last.filter, profile[i].uuid) =>
         \E k \in DOMAIN services : IsService(services[k], i)
  /\ last.op = "services" /\ ~ remade =>
       /\ Len(services) = Len(profile)
       /\ \A i \in DOMAIN services : IsService(services[i], i)

\* No earlier service object has the same handles.
FirstOfItsKind(k) == \A n \in 1 .. k - 1 : services[n].h # services[k].h

\* DiscoverCharacteristics files each characteristic under its service, finds
\* all it is asked for, in the first object made for the service, and knows
\* where each ends, when everything is discovered once and nothing filtered.
CharacteristicsFound ==
  /\ \A k \in DOMAIN services : \A j \in DOMAIN services[k].chars :
       \E n \in DOMAIN profile[TheService(k)].chars :
         IsChar(services[k].chars[j], TheService(k), n)
  /\ last.op = "chars" /\ FirstOfItsKind(last.s) =>
       LET i == TheService(last.s)  found == services[last.s].chars IN
       /\ \A n \in DOMAIN profile[i].chars :
            UUIDContains(last.filter, profile[i].chars[n].uuid) =>
              \E j \in DOMAIN found : IsChar(found[j], i, n)
       /\ ~ remade =>
            /\ Len(found) = Len(profile[i].chars)
            /\ \A j \in DOMAIN found :
                 /\ IsChar(found[j], i, j)
                 /\ found[j].endh = IF j < Len(found) THEN found[j + 1].h - 1
                                    ELSE IF j = 1 THEN 0 ELSE services[last.s].endh

\* DiscoverDescriptors finds every descriptor it is asked for; when everything is
\* discovered once and nothing filtered, it finds those of its own characteristic
\* alone, and of them the client characteristic configuration.
DescriptorsFound ==
  last.op = "descs" =>
    LET c == services[last.s].chars[last.c]
        d == profile[TheService(last.s)].chars[TheChar(last.s, last.c)].descs
    IN /\ \A k \in DOMAIN d : UUIDContains(last.filter, d[k]) =>
            \E n \in DOMAIN c.descs : c.descs[n] = [uuid |-> d[k], h |-> c.vh + k]
       /\ ~ remade =>
            /\ c.descs = [k \in DOMAIN d |-> [uuid |-> d[k], h |-> c.vh + k]]
            /\ IF CCC \in ToSet(d) THEN \E k \in DOMAIN d : d[k] = CCC /\ c.cccd = c.vh + k
               ELSE c.cccd = 0

\* Whatever the declaration, the filters, the order and repetition of the calls and
\* the MTU, the client's picture of the server is the one the server declared:
\* the three above together.
DiscoveredAsDeclared == ServicesFound /\ CharacteristicsFound /\ DescriptorsFound

\* ReadLongCharacteristic returns the whole value, whatever its length and the MTU,
\* unless an MTU exchange happens meanwhile or has been given up.
WholeValueRead ==
  last.op \in {"read", "blob"} /\ ~ overlap =>
    buf = profile[TheService(last.s)].chars[TheChar(last.s, last.c)].value

\* Every call ends.
CallsEnd == op # "idle" ~> op = "idle"
=============================================================================
