----------------------------- MODULE BridgeWire -----------------------------
(***************************************************************************)
(* What the bridges and service discovery put on other networks, octet by  *)
(* octet.                                                                  *)
(***************************************************************************)
EXTENDS AcfWire
LOCAL INSTANCE SequencesExt

-----------------------------------------------------------------------------
(***************************************************************************)
(* The conversions of the bridges that keep no state of their own: LIN     *)
(* frames, UDS services, MQTT and SOME/IP messages, Ethernet frames, and   *)
(* the requests that the REST and gRPC bridges pass on.                    *)
(***************************************************************************)
(* linbr: two parity bits above the identifier, *)
parity(id, bits) == FoldSet(LAMBDA i, n : (n + id \div 2^i) % 2, 0, bits)
protectedID(id) == (id % 64) + 64 * parity(id, {0, 1, 2, 4}) + 128 * (1 - parity(id, {1, 3, 4, 5}))

(* Mutated form: the carry out of the sum is lost. *)
carried_Lost(sum) == sum % 256

carried(sum) == IF sum > 255 THEN sum - 255 ELSE sum

(* a checksum that adds with end-around carry, *)
checksum(enhanced, pid, data) ==
  255 - FoldSeq(LAMBDA b, sum : carried(sum + b), IF enhanced THEN pid ELSE 0, data)

(* and a frame [id, data, enhanced]; one of more than 8 data octets is     *)
(* refused, and nothing is sent.                                           *)
LinEncodeFrame(f) ==
  LET pid == protectedID(f.id) IN
  IF Len(f.data) > 8 THEN <<>> ELSE <<pid>> \o f.data \o <<checksum(f.enhanced, pid, f.data)>>

(* Mutated form: the checksum is not compared. *)
matches_Any(want, got) == TRUE

matches(want, got) == want = got

LinDecodeFrame(b, enhanced) ==
  LET data == SubSeq(b, 2, Len(b) - 1) IN
  IF Len(b) < 2 THEN Refused
  ELSE IF ~matches(checksum(enhanced, b[1], data), b[Len(b)]) THEN Refused
  ELSE [ok |-> TRUE, f |-> [id |-> b[1] % 64, data |-> data, enhanced |-> enhanced]]

----------------------------------------------------------------------------
(* udsbr.  up is what upstream answers: "failed", or [error, body].        *)
SIDWrite == 46
SIDRead == 34
addressFor(did) == did % 256
BuildPositiveResponse(sid, did, data) == <<sid + 64>> \o put16(did) \o data
BuildNegativeResponse(sid, nrc) == <<127, sid, nrc>>

(* Mutated form: an error answer is passed on as a positive response. *)
udsAnswer_Any(sid, did, up) == BuildPositiveResponse(sid, did, up.body)

udsAnswer(sid, did, up) ==
  IF up.failed THEN BuildNegativeResponse(sid, 114)
  ELSE IF up.error THEN BuildNegativeResponse(sid, 49)
  ELSE BuildPositiveResponse(sid, did, up.body)

(* Handle: the response, and the call it made upstream, if any.            *)
UdsHandle(closed, pdu, up) ==
  LET did == get16(pdu, 2) IN
  IF closed THEN [pdu |-> BuildNegativeResponse(0, 114), call |-> <<>>]
  ELSE IF Len(pdu) < 3 THEN [pdu |-> BuildNegativeResponse(0, 19), call |-> <<>>]
  ELSE IF pdu[1] \notin {SIDWrite, SIDRead} THEN [pdu |-> BuildNegativeResponse(pdu[1], 18), call |-> <<>>]
  ELSE [pdu |-> udsAnswer(pdu[1], did, up),
        call |-> IF pdu[1] = SIDRead THEN <<"Read", addressFor(did)>>
                 ELSE <<"Write", addressFor(did), from(pdu, 4)>>]

----------------------------------------------------------------------------
(* mqttbr: commands, and the two kinds of status.                          *)
EncodeCommand(c) == <<byte(c.addr), c.control>> \o c.body
decodeCommand(b) ==
  IF Len(b) < 2 THEN Refused ELSE [ok |-> TRUE, c |-> [addr |-> b[1], control |-> b[2], body |-> from(b, 3)]]

(* Mutated form: a count is not clamped. *)
clamped_Not(n) == uint16(n)

clamped(n) == IF n < 0 THEN 0 ELSE IF n > 65535 THEN 65535 ELSE n

encodeStatus(s) ==
  IF s.trigger THEN <<1, byte(s.addr)>> \o put16(clamped(s.count))
  ELSE <<0, byte(s.addr)>> \o put16(s.txn) \o <<s.control>> \o s.body

DecodeStatus(b) ==
  IF Len(b) < 2 THEN Refused
  ELSE IF b[1] = 1
    THEN IF Len(b) # 4 THEN Refused ELSE [ok |-> TRUE, s |-> [trigger |-> TRUE, addr |-> b[2], count |-> get16(b, 3)]]
  ELSE IF Len(b) < 5 THEN Refused
  ELSE [ok |-> TRUE, s |-> [trigger |-> FALSE, addr |-> b[2], txn |-> get16(b, 3), control |-> b[5], body |-> from(b, 6)]]

----------------------------------------------------------------------------
(* someip: the length is that of what follows it, and is not read.         *)
headerLen == 16
SomeIpEncodeFrame(h, payload) ==
  put16(h.service) \o put16(h.method) \o put32(8 + Len(payload)) \o put16(h.client) \o put16(h.session)
    \o <<h.proto, h.iface, h.type, h.code>> \o payload
SomeIpDecodeFrame(b) ==
  IF Len(b) < headerLen THEN Refused
  ELSE [ok |-> TRUE, payload |-> from(b, headerLen + 1),
        h |-> [service |-> get16(b, 1), method |-> get16(b, 3), client |-> get16(b, 9), session |-> get16(b, 11),
               proto |-> b[13], iface |-> b[14], type |-> b[15], code |-> b[16]]]

(* Mutated form: the session of an answer is not that of the request. *)
respHdr_Session(h, ok) ==
  [h EXCEPT !.proto = 1, !.iface = 1, !.type = 128, !.session = 1, !.code = IF ok THEN 0 ELSE 1]

respHdr(h, ok) == [h EXCEPT !.proto = 1, !.iface = 1, !.type = 128, !.code = IF ok THEN 0 ELSE 1]

(* Server.handle: the answer to a frame, or none. *)
SomeIpHandle(b, service, up) ==
  LET d == SomeIpDecodeFrame(b)
      ok == ~up.failed /\ ~up.error IN
  IF ~d.ok THEN <<>>
  ELSE IF d.h.type # 0 \/ d.h.service # service THEN <<>>
  ELSE SomeIpEncodeFrame(respHdr(d.h, ok), IF ok THEN up.body ELSE <<>>)

----------------------------------------------------------------------------
(* l2: an Ethernet frame. *)
EtherTypeAVTP == 8944
L2EncodeFrame(dst, src, pdu) == dst \o src \o put16(EtherTypeAVTP) \o pdu
L2DecodeFrame(b) ==
  IF Len(b) < 14 THEN Refused
  ELSE IF get16(b, 13) # EtherTypeAVTP THEN Refused
  ELSE [ok |-> TRUE, dst |-> SubSeq(b, 1, 6), src |-> SubSeq(b, 7, 12), pdu |-> from(b, 15)]

----------------------------------------------------------------------------
(* restbridge and grpcbridge.  The upstream answers a request req          *)
(* = [addr, control, body] with up[req] = [failed, bus, txn, control,      *)
(* body].                                                                  *)
parseAddr(n) == n \in 0..255

(* Mutated form: only success and failure are passed on, not the flags. *)
relayed_Plain(r) == [failed |-> r.failed, bus |-> r.bus, txn |-> r.txn, control |-> 0, body |-> r.body]

relayed(r) == [failed |-> r.failed, bus |-> r.bus, txn |-> r.txn, control |-> r.control, body |-> r.body]

Failed == [failed |-> TRUE]

RestRequest(closed, req, up) ==
  IF closed \/ ~parseAddr(req.addr) THEN Failed
  ELSE IF up[req].failed THEN Failed ELSE relayed(up[req])

GrpcRequest(closed, req, up) ==
  IF closed THEN Failed ELSE IF up[req].failed THEN Failed ELSE relayed(up[req])

----------------------------------------------------------------------------
(* A LIN frame as sent: its octets, with the protected identifier only for *)
(* the enhanced checksum, add up to a multiple of 255, which is what any   *)
(* other LIN node checks.  What no LIN frame can carry is not sent.        *)
LinAddsUp(f) ==
  LET b == LinEncodeFrame(f) IN
  IF Len(f.data) > 8 THEN b = <<>>
  ELSE FoldSeq(+, 0, IF f.enhanced THEN b ELSE Tail(b)) % 255 = 0

(* A LIN frame is read as it was sent, and octets b that differ from it in *)
(* one are refused, but for 0 and 255, which an end-around sum cannot tell *)
(* apart, and for the identifier, which the classic checksum leaves out.   *)
LinDamageIsSeen(f, b) ==
  LET a == LinEncodeFrame(f)
      changed == {i \in DOMAIN a : a[i] # b[i]} IN
  /\ LinDecodeFrame(a, f.enhanced) = IF a = <<>> THEN Refused ELSE [ok |-> TRUE, f |-> f]
  /\ Len(b) = Len(a) /\ Cardinality(changed) = 1 =>
       \A i \in changed : {a[i], b[i]} # {0, 255} /\ (i = 1 => f.enhanced) => ~LinDecodeFrame(b, f.enhanced).ok

(* A UDS response is positive exactly when the upstream request was made   *)
(* and succeeded, and then it names the service and the identifier and     *)
(* carries the answer.                                                     *)
UdsAnswerTells(closed, pdu, up) ==
  LET r == UdsHandle(closed, pdu, up) IN
  IF r.call # <<>> /\ ~up.failed /\ ~up.error
    THEN r.pdu = <<pdu[1] + 64, pdu[2], pdu[3]>> \o up.body
    ELSE r.pdu[1] = 127

(* A status is read as it was published: the count of a trigger is clamped *)
(* and never wraps round, and no response is taken for a trigger.          *)
StatusAsSent(s) ==
  DecodeStatus(encodeStatus(s)) =
    [ok |-> TRUE, s |-> IF ~s.trigger THEN s
                        ELSE [s EXCEPT !.count = IF @ < 0 THEN 0 ELSE IF @ > 65535 THEN 65535 ELSE @]]

(* A command with an address of one octet is read as it was published.     *)
CommandAsSent(c) == decodeCommand(EncodeCommand(c)) = [ok |-> TRUE, c |-> c]

(* An answer over SOME/IP names the request it is for, and carries a       *)
(* payload only when upstream succeeded.                                   *)
SomeIpAnswers(h, payload, service, up) ==
  LET b == SomeIpHandle(SomeIpEncodeFrame(h, payload), service, up)
      d == SomeIpDecodeFrame(b) IN
  IF h.type # 0 \/ h.service # service THEN b = <<>>
  ELSE /\ d.ok /\ d.h.type = 128
       /\ <<d.h.service, d.h.method, d.h.client, d.h.session>> = <<h.service, h.method, h.client, h.session>>
       /\ d.payload = IF up.failed \/ up.error THEN <<>> ELSE up.body
       /\ d.h.code = 0 <=> ~up.failed /\ ~up.error

(* An Ethernet frame is read as it was sent. *)
L2AsSent(dst, src, pdu) ==
  L2DecodeFrame(L2EncodeFrame(dst, src, pdu)) = [ok |-> TRUE, dst |-> dst, src |-> src, pdu |-> pdu]

(* A request through either bridge ends as the upstream request does, with *)
(* its address, transaction, flags and body; an address of more than one   *)
(* octet is refused by the REST bridge and never sent to another endpoint. *)
RelayedAsAnswered(req, up) ==
  /\ GrpcRequest(FALSE, req, up) = IF up[req].failed THEN Failed ELSE up[req]
  /\ RestRequest(FALSE, req, up) = IF up[req].failed \/ req.addr > 255 THEN Failed ELSE up[req]

-----------------------------------------------------------------------------
(***************************************************************************)
(* The DNS messages of package mdns.  A name is written from the sequence  *)
(* of its labels and read as text, labels that each end in a dot.          *)
(***************************************************************************)
local == <<108, 111, 99, 97, 108>>
serviceType == <<<<95, 114, 99, 112>>, <<95, 117, 100, 112>>, local>>
streamTXTKey == <<115, 116, 114, 101, 97, 109, 61>>
dnsTypeA == 1
dnsTypePTR == 12
dnsTypeTXT == 16
dnsTypeSRV == 33
flagResponse == 33792

text(name) == IF name = <<>> THEN <<46>> ELSE FlattenSeq([i \in DOMAIN name |-> name[i] \o <<46>>])
encodeName(name) == FlattenSeq([i \in DOMAIN name |-> <<Len(name[i])>> \o name[i]]) \o <<0>>

(* Mutated form: after a pointer the message is read on at its target. *)
resume_Target(orig, off) == off

(* Where the reading goes on after a name: behind its first pointer.       *)
resume(orig, off) == IF orig = 0 THEN off ELSE orig

MaxPointers == 64

(* The name at off, and the offset behind it. *)
RECURSIVE decodeLabels(_, _, _, _, _)
decodeLabels(msg, off, orig, visited, parts) ==
  IF off > Len(msg) THEN Refused
  ELSE LET ln == msg[off] IN
  CASE ln = 0 -> [ok |-> TRUE, name |-> text(parts), off |-> resume(orig, off + 1)]
    [] ln >= 192 ->
         IF off + 1 > Len(msg) THEN Refused
         ELSE LET ptr == (get16(msg, off) % 16384) + 1 IN
              IF ptr >= off \/ visited >= MaxPointers THEN Refused
              ELSE decodeLabels(msg, ptr, IF orig = 0 THEN off + 2 ELSE orig, visited + 1, parts)
    [] OTHER ->
         IF off + ln > Len(msg) THEN Refused
         ELSE decodeLabels(msg, off + 1 + ln, orig, visited, Append(parts, SubSeq(msg, off + 1, off + ln)))

decodeName(msg, off) == decodeLabels(msg, off, 0, 0, <<>>)

encodeHeader(h) == put16(h.id) \o put16(h.flags) \o put16(h.qd) \o put16(h.an) \o put16(h.ns) \o put16(h.ar)
decodeHeader(b) ==
  IF Len(b) < 12 THEN Refused
  ELSE [ok |-> TRUE, id |-> get16(b, 1), flags |-> get16(b, 3), qd |-> get16(b, 5),
        an |-> get16(b, 7), ns |-> get16(b, 9), ar |-> get16(b, 11)]

buildPTRQuery ==
  encodeHeader([id |-> 0, flags |-> 0, qd |-> 1, an |-> 0, ns |-> 0, ar |-> 0])
    \o encodeName(serviceType) \o <<0, dnsTypePTR, 0, 1>>

(* A resource record with its owner as it is written. *)
encodeRR(owner, typ, rdata) == owner \o put16(typ) \o <<0, 1>> \o put32(120) \o put16(Len(rdata)) \o rdata

(* Mutated form: the address comes before the records that name its host. *)
buildAnnouncement_First(inst, host, ip4, port, txt) ==
  encodeHeader([id |-> 0, flags |-> flagResponse, qd |-> 0, an |-> 3, ns |-> 0, ar |-> 1])
    \o encodeRR(encodeName(host), dnsTypeA, ip4)
    \o encodeRR(encodeName(inst), dnsTypeTXT, <<Len(txt)>> \o txt)
    \o encodeRR(encodeName(serviceType), dnsTypePTR, encodeName(inst))
    \o encodeRR(encodeName(inst), dnsTypeSRV, zeros(4) \o put16(port) \o encodeName(host)) \o <<0>>

buildAnnouncement(inst, host, ip4, port, txt) ==
  encodeHeader([id |-> 0, flags |-> flagResponse, qd |-> 0, an |-> 3, ns |-> 0, ar |-> 1])
    \o encodeRR(encodeName(serviceType), dnsTypePTR, encodeName(inst))
    \o encodeRR(encodeName(inst), dnsTypeSRV, zeros(4) \o put16(port) \o encodeName(host))
    \o encodeRR(encodeName(inst), dnsTypeTXT, <<Len(txt)>> \o txt)
    \o encodeRR(encodeName(host), dnsTypeA, ip4)

parseOneRR(msg, off) ==
  LET n == decodeName(msg, off) IN
  IF ~n.ok THEN Refused
  ELSE IF n.off + 9 > Len(msg) THEN Refused
  ELSE LET rdLen == get16(msg, n.off + 8) IN
       IF n.off + 9 + rdLen > Len(msg) THEN Refused
       ELSE [ok |-> TRUE, name |-> n.name, typ |-> get16(msg, n.off), off |-> n.off + 10 + rdLen,
             rdata |-> SubSeq(msg, n.off + 10, n.off + 9 + rdLen)]

(* The first n records from off, as far as they can be read. *)
RECURSIVE records(_, _, _)
records(msg, off, n) ==
  LET rr == parseOneRR(msg, off) IN
  IF n = 0 \/ ~rr.ok THEN <<>> ELSE <<rr>> \o records(msg, rr.off, n - 1)

RECURSIVE skipQuestions(_, _, _)
skipQuestions(msg, off, n) ==
  IF n = 0 THEN [ok |-> TRUE, off |-> off]
  ELSE LET d == decodeName(msg, off) IN IF ~d.ok THEN Refused ELSE skipQuestions(msg, d.off + 4, n - 1)

parseRRs(msg) ==
  LET h == decodeHeader(msg) IN
  IF ~h.ok THEN <<>>
  ELSE LET q == skipQuestions(msg, 13, h.qd) IN
       IF ~q.ok THEN <<>> ELSE records(msg, q.off, h.an + h.ns + h.ar)

----------------------------------------------------------------------------
hexDigit(n) == IF n < 10 THEN 48 + n ELSE 87 + n
encodeStreamHex(stream) ==
  FlattenSeq([i \in DOMAIN stream |-> <<hexDigit(stream[i] \div 16), hexDigit(stream[i] % 16)>>])
hexNibble(c) == IF c \in 48..57 THEN c - 48 ELSE IF c \in 97..102 THEN c - 87 ELSE 16
decodeStreamHex(s) ==
  IF Len(s) # 16 \/ \E i \in DOMAIN s : hexNibble(s[i]) = 16 THEN Refused
  ELSE [ok |-> TRUE, stream |-> [i \in 1..8 |-> 16 * hexNibble(s[2 * i - 1]) + hexNibble(s[2 * i])]]

(* The texts of a TXT record, up to the first that runs past its end. *)
RECURSIVE texts(_)
texts(b) ==
  IF b = <<>> \/ 1 + b[1] > Len(b) THEN <<>> ELSE <<SubSeq(b, 2, 1 + b[1])>> \o texts(from(b, 2 + b[1]))

(* The streams that the texts of a TXT record give, in their order. *)
streamsIn(rr) ==
  LET streamOf(kv) == decodeStreamHex(from(kv, Len(streamTXTKey) + 1)) IN
  SelectSeq([i \in DOMAIN texts(rr.rdata) |->
               IF IsPrefix(streamTXTKey, texts(rr.rdata)[i]) THEN streamOf(texts(rr.rdata)[i]) ELSE Refused],
            LAMBDA d : d.ok)

targetOf(rr) == decodeName(Append(rr.rdata, 0), 1)
hostOf(rr) == decodeName(Append(from(rr.rdata, 7), 0), 1)

(* Of the records for a name, at the places usable, the last counts. *)
lastOf(rrs, usable, name) ==
  LET at == {i \in usable : rrs[i].name = name} IN IF at = {} THEN 0 ELSE Max(at)

usableSRV(rr) == rr.typ = dnsTypeSRV /\ Len(rr.rdata) >= 7 /\ hostOf(rr).ok
usableTXT(rr) == rr.typ = dnsTypeTXT /\ streamsIn(rr) # <<>>
usableA(rr) == rr.typ = dnsTypeA /\ Len(rr.rdata) = 4
usablePTR(rr) == rr.typ = dnsTypePTR /\ IsSuffix(text(serviceType), rr.name) /\ targetOf(rr).ok

(* One service for each target that has a port, an address and a stream.   *)
extractServices(rrs) ==
  LET srv(n) == lastOf(rrs, {i \in DOMAIN rrs : usableSRV(rrs[i])}, n)
      txt(n) == lastOf(rrs, {i \in DOMAIN rrs : usableTXT(rrs[i])}, n)
      a(n) == lastOf(rrs, {i \in DOMAIN rrs : usableA(rrs[i])}, hostOf(rrs[srv(n)]).name)
      targets == {targetOf(rrs[i]).name : i \in {j \in DOMAIN rrs : usablePTR(rrs[j])}}
      whole == {n \in targets : srv(n) # 0 /\ txt(n) # 0 /\ a(n) # 0}
  IN {[instance |-> n, stream |-> Last(streamsIn(rrs[txt(n)])).stream,
       ip |-> rrs[a(n)].rdata, port |-> get16(rrs[srv(n)].rdata, 5)] : n \in whole}

(* What Query calls the handler with for a packet. *)
Discovered(msg) ==
  IF parseRRs(msg) = <<>> \/ decodeHeader(msg).flags < 32768 THEN {} ELSE extractServices(parseRRs(msg))

(* NewAnnouncer: the packet it will send. *)
Announcement(stream, ip4, port) ==
  LET hex == encodeStreamHex(stream) IN
  buildAnnouncement(<<hex>> \o serviceType, <<hex, local>>, ip4, port, streamTXTKey \o hex)

----------------------------------------------------------------------------
(* A browser that reads an announcement finds exactly the announced        *)
(* server, and one that reads only the start of it finds nothing: a packet *)
(* that was cut never gives a wrong address, stream or port.               *)
FoundAsAnnounced(stream, ip4, port) ==
  LET msg == Announcement(stream, ip4, port) IN
  /\ Discovered(msg) = {[instance |-> text(<<encodeStreamHex(stream)>> \o serviceType),
                         stream |-> stream, ip |-> ip4, port |-> port]}
  /\ \A n \in 0..Len(msg) - 1 : Discovered(SubSeq(msg, 1, n)) = {}

(* A responder that writes the owner of its SRV and TXT records as a       *)
(* pointer to the name in the PTR record, as DNS allows, is found too.     *)
CompressedIsFound(stream, ip4, port) ==
  LET inst == <<encodeStreamHex(stream)>> \o serviceType
      host == <<encodeStreamHex(stream), local>>
      txt == streamTXTKey \o encodeStreamHex(stream)
      pointer == put16(49152 + 12 + Len(encodeName(serviceType)) + 10)
      msg == encodeHeader([id |-> 0, flags |-> flagResponse, qd |-> 0, an |-> 3, ns |-> 0, ar |-> 1])
               \o encodeRR(encodeName(serviceType), dnsTypePTR, encodeName(inst))
               \o encodeRR(pointer, dnsTypeSRV, zeros(4) \o put16(port) \o encodeName(host))
               \o encodeRR(pointer, dnsTypeTXT, <<Len(txt)>> \o txt)
               \o encodeRR(encodeName(host), dnsTypeA, ip4)
  IN Discovered(msg) = Discovered(Announcement(stream, ip4, port))

(* A query is no answer, whoever reads it. *)
QueryIsIgnored == Discovered(buildPTRQuery) = {}
=============================================================================
