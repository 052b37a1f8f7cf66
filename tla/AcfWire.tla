------------------------------ MODULE AcfWire -------------------------------
(***************************************************************************)
(* What the server and its clients put on the wire or into a file, octet   *)
(* by octet: ACF messages and frames (acf, avtp), request envelopes        *)
(* (request), the register map snapshot (regmap) and the log of recorded   *)
(* requests (record).                                                      *)
(***************************************************************************)
EXTENDS Integers, Sequences, FiniteSets
LOCAL INSTANCE SequencesExt

-----------------------------------------------------------------------------
(***************************************************************************)
(* Octets and big-endian numbers, for the wire formats.  A number too wide *)
(* for TLC (a 64-bit time, an IP address) is written as its octets, most   *)
(* significant first.                                                      *)
(***************************************************************************)
(* What a decoder returns for bytes that it refuses. *)
Refused == [ok |-> FALSE]

(* byte(n), uint16(n), and PutUint16 and PutUint32 *)
byte(n) == n % 256
uint16(n) == n % 65536
put16(n) == <<byte(n \div 256), byte(n)>>
put32(n) == <<n \div 16777216, byte(n \div 65536), byte(n \div 256), byte(n)>>

(* The number at the octets i, i + 1, ... of b, counted from 1. *)
get16(b, i) == 256 * b[i] + b[i + 1]
get32(b, i) == 65536 * get16(b, i) + get16(b, i + 2)

(* Bit i of an octet, and a flag as bit i. *)
bit(n, i) == (n \div 2^i) % 2 = 1
flag(f, i) == IF f THEN 2^i ELSE 0

zeros(n) == [i \in 1..n |-> 0]
from(b, i) == SubSeq(b, i, Len(b))

-----------------------------------------------------------------------------
(***************************************************************************)
(* The wire formats of acf and avtp: a message, a header, and a frame of   *)
(* one header and any number of messages.  Octets count from 1 here.       *)
(***************************************************************************)
(* A Message: the Control flags are a set, Timestamp is eight octets.      *)
Flags == {"read", "write", "response", "error", "more"}
descriptorLen == 8
timestampLen(long) == IF long THEN 8 ELSE 0

pad(n) == (4 - (n % 4)) % 4

encodable(m) ==
  /\ m.control \subseteq Flags
  /\ m.evt <= 15 /\ m.txn <= 255 /\ m.bus <= 2047 /\ m.size <= 4095
  /\ LET n == descriptorLen + timestampLen(m.long) + Len(m.body) IN (n + pad(n)) \div 4 <= 511

EncodeMessage(m) ==
  LET n == descriptorLen + timestampLen(m.long) + Len(m.body)
      quadlets == (n + pad(n)) \div 4
      row1 == <<2 * (IF m.long THEN 13 ELSE 14) + quadlets \div 256, byte(quadlets),
                64 * pad(n) + flag(m.mtv, 5) + m.bus \div 256, byte(m.bus)>>
      row2 == <<16 * m.evt + flag(m.hs, 1) + flag(m.cs, 0), m.txn,
                flag("write" \in m.control, 7) + flag("response" \in m.control, 6)
                  + flag("error" \in m.control, 5) + flag("more" \in m.control, 4) + m.size \div 256,
                byte(m.size)>>
  IN row1 \o (IF m.long THEN m.timestamp ELSE <<>>) \o row2 \o m.body \o zeros(pad(n))

(* The two reserved bits from the lowest up. *)
reserved(row, lowest) == bit(row, lowest) \/ bit(row, lowest + 1)

(* The message at the front of b, and how many octets it has. *)
DecodeMessagePrefix(b) ==
  LET type == b[1] \div 2
      long == type = 13
      off == 4 + timestampLen(long)
      total == 4 * (256 * (b[1] % 2) + b[2])
      padding == b[3] \div 64
      row2 == SubSeq(b, off + 1, off + 4)
      set(f, i) == IF bit(row2[3], i) THEN {f} ELSE {}
  IN IF \/ Len(b) < 4 \/ type \notin {13, 14} \/ reserved(b[3], 3) \/ Len(b) < off + 4
        \/ reserved(row2[1], 2) \/ Len(b) < total \/ total - padding < off + 4
     THEN Refused
     ELSE [ok |-> TRUE, n |-> total, msg |->
            [long |-> long, bus |-> 256 * (b[3] % 8) + b[4], txn |-> row2[2], evt |-> row2[1] \div 16,
             hs |-> bit(row2[1], 1), cs |-> bit(row2[1], 0), mtv |-> bit(b[3], 5),
             control |-> {IF bit(row2[3], 7) THEN "write" ELSE "read"}
                           \cup set("response", 6) \cup set("error", 5) \cup set("more", 4),
             size |-> 256 * (row2[3] % 16) + row2[4],
             timestamp |-> IF long THEN SubSeq(b, 5, 12) ELSE zeros(8),
             body |-> SubSeq(b, off + 5, total - padding)]]

DecodeMessage(b) ==
  LET d == DecodeMessagePrefix(b) IN IF d.ok /\ d.n = Len(b) THEN d ELSE Refused

(* evt 0xF is an acknowledgement whatever the other bits say. *)
ResponseKind(m) ==
  IF m.evt = 15 THEN "Acknowledge"
  ELSE IF "error" \in m.control THEN "Error"
  ELSE IF "write" \in m.control THEN "Write" ELSE "Read"

----------------------------------------------------------------------------
(* avtp.Header: subtype NTSCF (0x82) or TSCF (0x05), with a timestamp.     *)
MaxDataLength == 2047
wireLen(h) == IF h.timed THEN 24 ELSE 12

encodeTimestampMarkers(s) == [tv |-> s \in {"Valid", "Uncertain"}, tu |-> s = "Uncertain"]
decodeTimestampMarkers(tv, tu) == IF ~tv THEN "Missing" ELSE IF tu THEN "Uncertain" ELSE "Valid"

EncodeHeader(h) ==
  LET marks == encodeTimestampMarkers(h.status) IN
  IF h.timed
    THEN <<5, flag(h.valid, 7) + flag(marks.tv, 0), h.seq, flag(marks.tu, 0)>>
           \o h.stream \o h.timestamp \o zeros(4) \o put16(h.len) \o zeros(2)
    ELSE <<130, flag(h.valid, 7) + h.len \div 256, byte(h.len), h.seq>> \o h.stream

DecodeHeader(b) ==
  LET timed == b[1] = 5
      need == wireLen([timed |-> timed]) IN
  IF \/ Len(b) < 1 \/ b[1] \notin {5, 130} \/ Len(b) < need
     \/ (b[2] \div 16) % 8 # 0
     \/ (IF timed THEN reserved(b[2], 1) \/ b[4] > 1 ELSE bit(b[2], 3))
  THEN Refused
  ELSE [ok |-> TRUE, rest |-> from(b, need + 1), header |->
         [timed |-> timed, valid |-> bit(b[2], 7), seq |-> b[IF timed THEN 3 ELSE 4],
          len |-> IF timed THEN get16(b, 21) ELSE 256 * (b[2] % 8) + b[3],
          stream |-> SubSeq(b, 5, 12),
          timestamp |-> IF timed THEN SubSeq(b, 13, 16) ELSE zeros(4),
          status |-> IF timed THEN decodeTimestampMarkers(bit(b[2], 0), bit(b[4], 0)) ELSE "Missing"]]

Disposition(h, timeSyncSupported) ==
  IF ~h.timed THEN "BestEffort" ELSE IF ~timeSyncSupported THEN "Drop"
  ELSE IF h.status = "Valid" THEN "Scheduled" ELSE "BestEffort"

----------------------------------------------------------------------------
(* Mutated form: the length stays as the caller has it. *)
withLength_Kept(h, n) == h

withLength(h, n) == [h EXCEPT !.len = n]

(* acf.EncodeFrame sets the length of the header. *)
EncodeFrame(h, msgs) ==
  LET payload == FlattenSeq([i \in DOMAIN msgs |-> EncodeMessage(msgs[i])]) IN
  IF (\E i \in DOMAIN msgs : ~encodable(msgs[i])) \/ Len(payload) > MaxDataLength THEN Refused
  ELSE [ok |-> TRUE, bytes |-> EncodeHeader(withLength(h, Len(payload))) \o payload]

RECURSIVE DecodeMessages(_)
DecodeMessages(b) ==
  IF b = <<>> THEN [ok |-> TRUE, msgs |-> <<>>]
  ELSE LET d == DecodeMessagePrefix(b) IN
       IF ~d.ok THEN Refused
       ELSE LET rest == DecodeMessages(from(b, d.n + 1)) IN
            IF ~rest.ok THEN Refused ELSE [rest EXCEPT !.msgs = <<d.msg>> \o @]

(* Mutated form: what follows the messages is not refused. *)
fits_Least(rest, len) == Len(rest) >= len

fits(rest, len) == Len(rest) = len

DecodeFrame(b) ==
  LET d == DecodeHeader(b) IN
  IF ~d.ok THEN Refused
  ELSE IF ~fits(d.rest, d.header.len) THEN Refused
  ELSE LET m == DecodeMessages(d.rest) IN
       IF ~m.ok THEN Refused ELSE [ok |-> TRUE, header |-> d.header, msgs |-> m.msgs]

----------------------------------------------------------------------------
(* What is on the wire of a message: read unless write, no timestamp in    *)
(* the short form.                                                         *)
sent(m) == [m EXCEPT !.control = (@ \ {"read", "write"}) \cup {IF "write" \in @ THEN "write" ELSE "read"},
                     !.timestamp = IF m.long THEN @ ELSE zeros(8)]
sentHeader(h) == [h EXCEPT !.timestamp = IF h.timed THEN @ ELSE zeros(4),
                           !.status = IF h.timed /\ @ # "Invalid" THEN @ ELSE "Missing"]

(* A frame that can be sent decodes to the same header and messages: no    *)
(* length, padding or flag of one message runs into the next.              *)
FrameRoundTrip(h, msgs) ==
  LET e == EncodeFrame(h, msgs) IN
  e.ok => LET d == DecodeFrame(e.bytes) IN
          d.ok /\ d.msgs = [i \in DOMAIN msgs |-> sent(msgs[i])]
               /\ [d.header EXCEPT !.len = h.len] = sentHeader(h)

(* A frame that is accepted can be encoded again, at the same length, and  *)
(* reads the same then: no octet but padding, the reserved ones of a timed *)
(* header and a mark without a timestamp goes unread, and the walk over    *)
(* the messages always moves on.                                           *)
AcceptedIsRead(b) ==
  LET d == DecodeFrame(b) IN
  d.ok /\ d.header.len <= MaxDataLength => LET e == EncodeFrame(d.header, d.msgs) IN
          e.ok /\ Len(e.bytes) = Len(b)
               /\ LET again == DecodeFrame(e.bytes) IN again.ok /\ again = d

-----------------------------------------------------------------------------
(***************************************************************************)
(* The bodies of package request: an envelope around an inner request, the *)
(* chained segments, the cancellations, and the answers to them.  A 32 or  *)
(* 64-bit field that is only carried is a sequence of octets.              *)
(***************************************************************************)
KindCompound == 1
KindCompoundWait == 2
KindTriggered == 3
KindChained == 4
KindTimed == 5
KindCancelAll == 6
KindCancelTransaction == 7
KindCancelSequencer == 8
KindSafetyFlag == 128

IsSafety(k) == k >= KindSafetyFlag
Base(k) == k % KindSafetyFlag
Valid(k) == IF IsSafety(k) THEN Base(k) \in {KindCompound, KindCompoundWait, KindTriggered}
            ELSE k \in KindCompound..KindCancelSequencer

PeekKind(b) == IF Len(b) >= 1 /\ Valid(b[1]) THEN [ok |-> TRUE, kind |-> b[1]] ELSE Refused

conditionalLen == 11
encodeConditional(c) == put16(c.sequencer) \o <<c.op>> \o c.operand \o c.advance
decodeConditional(b) ==
  IF Len(b) < conditionalLen \/ b[3] > 5 THEN Refused
  ELSE [ok |-> TRUE, c |-> [sequencer |-> get16(b, 1), op |-> b[3],
                            operand |-> SubSeq(b, 4, 7), advance |-> SubSeq(b, 8, 11)]]

(* An inner request: one octet of flags and a body. *)
encodeInner(r) == <<r.control>> \o r.body
inner(b, i) == [control |-> b[i], body |-> from(b, i + 1)]

(* Mutated form: the length of a body is written in one octet. *)
encodeItem_Short(first, body) == <<first, 0, Len(body) % 4>> \o body

(* A segment of a chain, or an answer to one: an octet, a length, a body.  *)
encodeItem(first, body) == <<first>> \o put16(uint16(Len(body))) \o body

encodeItems(items) == FlattenSeq([i \in DOMAIN items |-> encodeItem(items[i].control, items[i].body)])

(* count items, which end where b does. *)
RECURSIVE decodeItems(_, _)
decodeItems(b, count) ==
  IF count = 0 THEN (IF b = <<>> THEN [ok |-> TRUE, items |-> <<>>] ELSE Refused)
  ELSE IF Len(b) < 3 THEN Refused
  ELSE LET n == get16(b, 2) IN
       IF Len(b) < 3 + n THEN Refused
       ELSE LET rest == decodeItems(from(b, 4 + n), count - 1) IN
            IF ~rest.ok THEN Refused
            ELSE [rest EXCEPT !.items = <<[control |-> b[1], body |-> SubSeq(b, 4, 3 + n)]>> \o @]

maxChainedSegments == 255
EncodeCompound(e) == encodeConditional(e.c) \o encodeInner(e.inner)
EncodeCompoundWait(e) == encodeConditional(e.c)
EncodeTriggered(e) == <<byte(e.source)>> \o encodeInner(e.inner)
EncodeChained(e) == <<Len(e.items)>> \o encodeItems(e.items)
EncodeTimed(e) == e.at \o encodeInner(e.inner)
EncodeCancelled(e) == put16(e.id)

envelopesEncodable(e) == Base(e.kind) = KindChained => Len(e.items) \in 1..maxChainedSegments

Encode(e) ==
  LET k == Base(e.kind) IN
  <<e.kind>> \o
    CASE k = KindCompound -> EncodeCompound(e)
      [] k = KindCompoundWait -> EncodeCompoundWait(e)
      [] k = KindTriggered -> EncodeTriggered(e)
      [] k = KindChained -> EncodeChained(e)
      [] k = KindTimed -> EncodeTimed(e)
      [] k = KindCancelAll -> <<>>
      [] OTHER -> EncodeCancelled(e)

(* Mutated form: what follows a cancellation or a wait is not looked at. *)
exactly_Least(b, n) == Len(b) >= n

exactly(b, n) == Len(b) = n

DecodeCompound(b) ==
  LET d == decodeConditional(SubSeq(b, 2, 12)) IN
  IF Len(b) < 2 + conditionalLen \/ Base(b[1]) # KindCompound \/ ~d.ok THEN Refused
  ELSE [ok |-> TRUE, e |-> [kind |-> b[1], c |-> d.c, inner |-> inner(b, 13)]]

DecodeCompoundWait(b) ==
  LET d == decodeConditional(from(b, 2)) IN
  IF ~exactly(b, 1 + conditionalLen) \/ Base(b[1]) # KindCompoundWait \/ ~d.ok THEN Refused
  ELSE [ok |-> TRUE, e |-> [kind |-> b[1], c |-> d.c]]

DecodeTriggered(b) ==
  IF Len(b) < 3 \/ Base(b[1]) # KindTriggered THEN Refused
  ELSE [ok |-> TRUE, e |-> [kind |-> b[1], source |-> b[2], inner |-> inner(b, 3)]]

DecodeTimed(b) ==
  IF Len(b) < 10 \/ b[1] # KindTimed THEN Refused
  ELSE [ok |-> TRUE, e |-> [kind |-> b[1], at |-> SubSeq(b, 2, 9), inner |-> inner(b, 10)]]

DecodeChained(b) ==
  LET d == decodeItems(from(b, 3), b[2]) IN
  IF Len(b) < 2 \/ b[1] # KindChained \/ b[2] = 0 \/ ~d.ok THEN Refused
  ELSE [ok |-> TRUE, e |-> [kind |-> b[1], items |-> d.items]]

DecodeCancelAll(b) ==
  IF ~exactly(b, 1) \/ b[1] # KindCancelAll THEN Refused ELSE [ok |-> TRUE, e |-> [kind |-> b[1]]]

DecodeCancelTransaction(b) ==
  IF ~exactly(b, 3) \/ b[1] # KindCancelTransaction THEN Refused
  ELSE [ok |-> TRUE, e |-> [kind |-> b[1], id |-> get16(b, 2)]]

DecodeCancelSequencer(b) ==
  IF ~exactly(b, 3) \/ b[1] # KindCancelSequencer THEN Refused
  ELSE [ok |-> TRUE, e |-> [kind |-> b[1], id |-> get16(b, 2)]]

(* What each of the decoders makes of b. *)
Readings(b) ==
  {d \in {DecodeCompound(b), DecodeCompoundWait(b), DecodeTriggered(b), DecodeTimed(b), DecodeChained(b),
          DecodeCancelAll(b), DecodeCancelTransaction(b), DecodeCancelSequencer(b)} : d.ok}

----------------------------------------------------------------------------
(* The answers.  A Failed or Matched octet other than zero means true.     *)
EncodeConditionalResponse(r) == <<flag(r.matched, 0)>> \o r.value \o r.body
DecodeConditionalResponse(b) ==
  IF Len(b) < 5 THEN Refused
  ELSE [ok |-> TRUE, r |-> [matched |-> b[1] # 0, value |-> SubSeq(b, 2, 5), body |-> from(b, 6)]]

EncodeCancelResponse(n) == put16(n)
DecodeCancelResponse(b) == IF ~exactly(b, 2) THEN Refused ELSE [ok |-> TRUE, r |-> get16(b, 1)]

(* Mutated form: the two counts are swapped. *)
counts_Swapped(r) == <<byte(r.total), byte(Len(r.items))>>

counts(r) == <<byte(Len(r.items)), byte(r.total)>>

EncodeChainedResponse(r) ==
  counts(r)
    \o encodeItems([i \in DOMAIN r.items |-> [r.items[i] EXCEPT !.control = flag(@, 0)]])
DecodeChainedResponse(b) ==
  LET d == decodeItems(from(b, 3), b[1]) IN
  IF Len(b) < 2 \/ ~d.ok THEN Refused
  ELSE [ok |-> TRUE, r |-> [total |-> b[2],
                            items |-> [i \in DOMAIN d.items |-> [d.items[i] EXCEPT !.control = @ # 0]]]]

----------------------------------------------------------------------------
(* Of a body every decoder but one refuses at least something; the one     *)
(* that accepts it is the one of the kind PeekKind shows, and it leaves    *)
(* nothing out: the dispatcher, which chooses a decoder by the kind,       *)
(* cannot take a damaged body of one kind for a request of another.        *)
(* A kind with the safety flag that PeekKind refuses is never looked at.   *)
OneReading(b) ==
  /\ \A d \in Readings(b) : Encode(d.e) = b
  /\ PeekKind(b).ok => \A d, x \in Readings(b) : d = x

(* What was encoded is what is read, but for the source of a trigger,      *)
(* which is its low octet.                                                 *)
ReadAsSent(e) ==
  envelopesEncodable(e) =>
    Readings(Encode(e)) =
      {[ok |-> TRUE, e |-> IF Base(e.kind) = KindTriggered THEN [e EXCEPT !.source = byte(@)] ELSE e]}

(* An answer is read as it was sent, and a body cut short is not taken for *)
(* a shorter answer when the answer says how long it is.                   *)
AnswerAsSent(form, r) ==
  CASE form = "conditional" -> DecodeConditionalResponse(EncodeConditionalResponse(r)) = [ok |-> TRUE, r |-> r]
    [] form = "cancel" -> DecodeCancelResponse(EncodeCancelResponse(r)) = [ok |-> TRUE, r |-> r]
    [] form = "chained" ->
         LET b == EncodeChainedResponse(r) IN
         /\ DecodeChainedResponse(b) = [ok |-> TRUE, r |-> r]
         /\ \A n \in 0..Len(b) - 1 : ~DecodeChainedResponse(SubSeq(b, 1, n)).ok

-----------------------------------------------------------------------------
(***************************************************************************)
(* EncodeRegisterMap and DecodeRegisterMap: the general block, and the     *)
(* four sections that its pointers delimit.                                *)
(***************************************************************************)
(* The fields of GeneralBlock in wire order with their widths; the value   *)
(* of a four-octet field is its octets.                                    *)
Layout == <<
  <<"Magic", 4>>, <<"ProtocolVersion", 4>>, <<"VendorID", 2>>, <<"DeviceID", 2>>, <<"NumEndpoints", 2>>,
  <<"MaxRequestStreams", 1>>, <<"MaxResponderStreams", 1>>, <<"MaxResponderQueueWords", 2>>,
  <<"MaxRequestQueueWords", 2>>, <<"NumSequencerStates", 1>>, <<"ConfigLock", 1>>, <<"Options", 1>>,
  <<"reserved0", 1>>, <<"NumIOPins", 2>>, <<"HWConfigPointer", 2>>, <<"MaxConfigurableRequestStreams", 1>>,
  <<"MaxConfigurableResponseStreams", 1>>, <<"ClientConfigPointer", 2>>, <<"QueueConfigPointer", 2>>,
  <<"reserved1", 2>>, <<"EndpointConfigPointer", 2>>, <<"EndpointConfigLength", 2>>,
  <<"EndpointMapPointer", 2>>, <<"EndpointMapMaxEntries", 1>>, <<"reserved2", 1>>,
  <<"EndpointFunctionalConfigPointer", 2>>, <<"SequencerStateMapPointer", 2>> >>

Fields == {Layout[i][1] : i \in DOMAIN Layout}
offset[i \in 1..Len(Layout) + 1] == IF i = 1 THEN 1 ELSE offset[i - 1] + Layout[i - 1][2]
generalBlockLen == 48
GeneralBlockMagic == <<82, 67, 80, 48>>
RegisterMapVersion == zeros(4)

put(v, width) == IF width = 1 THEN <<v>> ELSE IF width = 2 THEN put16(v) ELSE v
get(b, i, width) == IF width = 1 THEN b[i] ELSE IF width = 2 THEN get16(b, i) ELSE SubSeq(b, i, i + 3)

EncodeGeneralBlock(g) == FlattenSeq([i \in DOMAIN Layout |-> put(g[Layout[i][1]], Layout[i][2])])

DecodeGeneralBlock(b) ==
  IF Len(b) < generalBlockLen \/ SubSeq(b, 1, 4) # GeneralBlockMagic THEN Refused
  ELSE [ok |-> TRUE, g |-> [f \in Fields |->
         LET i == CHOOSE j \in DOMAIN Layout : Layout[j][1] = f IN get(b, offset[i], Layout[i][2])]]

----------------------------------------------------------------------------
(* PinMap.Set replaces the assignment of a pin where it stands. *)
Set(entries, a) ==
  IF \E i \in DOMAIN entries : entries[i].pin = a.pin
    THEN [i \in DOMAIN entries |-> IF entries[i].pin = a.pin THEN a ELSE entries[i]]
    ELSE Append(entries, a)

(* Mutated form: the signal comes before the endpoint. *)
encodePin_Swapped(a) == put16(a.pin) \o <<a.signal, byte(a.endpoint)>>

encodePin(a) == put16(a.pin) \o <<byte(a.endpoint), a.signal>>
encodePinMap(entries) ==
  put16(Len(entries)) \o FlattenSeq([i \in DOMAIN entries |-> encodePin(entries[i])])

RECURSIVE setAll(_, _, _)
setAll(b, i, n) ==
  IF n = 0 THEN <<>>
  ELSE Set(setAll(b, i, n - 1),
           LET o == i + 4 * (n - 1) IN [pin |-> get16(b, o), endpoint |-> b[o + 2], signal |-> b[o + 3]])

decodePinMap(b) ==
  IF Len(b) < 2 THEN Refused
  ELSE IF Len(b) # 2 + 4 * get16(b, 1) THEN Refused
  ELSE [ok |-> TRUE, entries |-> setAll(b, 3, get16(b, 1))]

encodeStreamLimits(s) == <<s.streams>> \o put16(s.inflight)
decodeStreamLimits(b) ==
  IF Len(b) # 3 THEN Refused ELSE [ok |-> TRUE, s |-> [streams |-> b[1], inflight |-> get16(b, 2)]]

encodeQueueConfig(q) == put16(q.threshold) \o q.flush \o q.heartbeat
decodeQueueConfig(b) ==
  IF Len(b) # 10 THEN Refused
  ELSE [ok |-> TRUE, q |-> [threshold |-> get16(b, 1), flush |-> SubSeq(b, 3, 6), heartbeat |-> SubSeq(b, 7, 10)]]

----------------------------------------------------------------------------
(* The endpoints: a function from addresses to [type, enabled, data].      *)
endpointTypeCount == 13

encodeEndpoint(addr, e) ==
  <<byte(addr), e.type, flag(e.enabled, 0)>> \o put16(uint16(Len(e.data))) \o e.data

Addresses(as) == SetToSortSeq(as, <)

encodeEndpointTable(eps) ==
  LET addrs == Addresses(DOMAIN eps) IN
  put16(Len(addrs)) \o FlattenSeq([i \in DOMAIN addrs |-> encodeEndpoint(addrs[i], eps[addrs[i]])])

(* Mutated form: the type of an endpoint is not looked at. *)
known_Any(type) == TRUE

known(type) == type < endpointTypeCount

(* Mutated form: the entries end with the octets, not with their count. *)
done_Empty(b, n) == b = <<>>

done(b, n) == n = 0

(* n entries, which end where b does; a later entry replaces an earlier.   *)
RECURSIVE decodeEntries(_, _)
decodeEntries(b, n) ==
  IF done(b, n) THEN (IF b = <<>> THEN [ok |-> TRUE, eps |-> <<>>] ELSE Refused)
  ELSE IF Len(b) < 5 THEN Refused
  ELSE LET len == get16(b, 4) IN
       IF ~known(b[2]) \/ Len(b) < 5 + len THEN Refused
       ELSE LET e == [type |-> b[2], enabled |-> b[3] # 0, data |-> SubSeq(b, 6, 5 + len)]
                rest == decodeEntries(from(b, 6 + len), n - 1)
            IN IF ~rest.ok THEN Refused
               ELSE [rest EXCEPT !.eps = [a \in DOMAIN @ \cup {b[1]} |-> IF a \in DOMAIN @ THEN @[a] ELSE e]]

decodeEndpointTable(b) == IF Len(b) < 2 THEN Refused ELSE decodeEntries(from(b, 3), get16(b, 1))

----------------------------------------------------------------------------
(* A register map m is [general, pins, streams, queues, eps].              *)
EncodeRegisterMap(m) ==
  LET pins == encodePinMap(m.pins)
      streams == encodeStreamLimits(m.streams)
      queues == encodeQueueConfig(m.queues)
      eps == encodeEndpointTable(m.eps)
      client == uint16(generalBlockLen + Len(pins))
      queue == uint16(client + Len(streams))
      general == [m.general EXCEPT
        !.Magic = GeneralBlockMagic, !.ProtocolVersion = RegisterMapVersion,
        !.NumEndpoints = Cardinality(DOMAIN m.eps), !.MaxRequestStreams = m.streams.streams,
        !.HWConfigPointer = generalBlockLen, !.ClientConfigPointer = client, !.QueueConfigPointer = queue,
        !.EndpointConfigPointer = uint16(queue + Len(queues)), !.EndpointConfigLength = uint16(Len(eps))]
  IN EncodeGeneralBlock(general) \o pins \o streams \o queues \o eps

inOrder(p, len) == generalBlockLen <= p[1] /\ (\A i \in 1..3 : p[i] <= p[i + 1]) /\ p[4] <= len

DecodeRegisterMap(b) ==
  LET d == DecodeGeneralBlock(b) IN
  IF ~d.ok THEN Refused
  ELSE LET p == <<d.g.HWConfigPointer, d.g.ClientConfigPointer, d.g.QueueConfigPointer,
                  d.g.EndpointConfigPointer>> IN
       IF d.g.ProtocolVersion # RegisterMapVersion \/ ~inOrder(p, Len(b)) THEN Refused
       ELSE LET section(i) == SubSeq(b, p[i] + 1, p[i + 1])
                pins == decodePinMap(section(1))
                streams == decodeStreamLimits(section(2))
                queues == decodeQueueConfig(section(3))
                eps == decodeEndpointTable(from(b, p[4] + 1))
            IN IF ~pins.ok \/ ~streams.ok \/ ~queues.ok \/ ~eps.ok THEN Refused
               ELSE [ok |-> TRUE, m |-> [general |-> d.g, pins |-> pins.entries, streams |-> streams.s,
                                         queues |-> queues.q, eps |-> eps.eps]]

----------------------------------------------------------------------------
computed == {"Magic", "ProtocolVersion", "NumEndpoints", "MaxRequestStreams", "HWConfigPointer",
             "ClientConfigPointer", "QueueConfigPointer", "EndpointConfigPointer", "EndpointConfigLength"}

(* A register map with addresses of one octet is read back as it was       *)
(* written, in every field that EncodeRegisterMap does not compute itself. *)
MapRoundTrip(m) ==
  LET d == DecodeRegisterMap(EncodeRegisterMap(m)) IN
  /\ d.ok
  /\ [d.m EXCEPT !.general = m.general] = m
  /\ \A f \in Fields \ computed : d.m.general[f] = m.general[f]

(* A snapshot cut anywhere is refused, never read as a smaller map.        *)
CutIsRefused(m) ==
  LET b == EncodeRegisterMap(m) IN \A n \in 0..Len(b) - 1 : ~DecodeRegisterMap(SubSeq(b, 1, n)).ok

(* Whatever is accepted can be written again and then reads the same: no   *)
(* accepted snapshot holds an unknown type or a second entry for a pin.    *)
AcceptedIsAMap(b) ==
  LET d == DecodeRegisterMap(b) IN
  d.ok =>
    /\ \A a \in DOMAIN d.m.eps : d.m.eps[a].type \in 0..endpointTypeCount - 1
    /\ \A i, j \in DOMAIN d.m.pins : d.m.pins[i].pin = d.m.pins[j].pin => i = j
    /\ LET again == DecodeRegisterMap(EncodeRegisterMap(d.m)) IN
       again.ok /\ [again.m EXCEPT !.general = d.m.general] = d.m

-----------------------------------------------------------------------------
(***************************************************************************)
(* The log of package record: WriteTo and ReadFrom.  An entry is [at,      *)
(* requester, request, response, err]; response is empty or one message,   *)
(* err is a text as octets, empty when the handler returned no error.      *)
(***************************************************************************)
(* crc32.ChecksumIEEE.  What counts of it here is that it tells a payload  *)
(* from one with an octet changed.                                         *)
ChecksumIEEE(payload) == put32(Len(payload) * 256 + byte(FoldSeq(+, 0, payload)))

appendLenPrefixed(data) == put32(Len(data)) \o data

marshals(e) == encodable(e.request) /\ (e.err = <<>> => encodable(e.response[1]))

(* Mutated form: an entry with an error is not marked. *)
hasErr_Not(e) == 0

hasErr(e) == flag(e.err # <<>>, 0)

marshalEntry(e) ==
  e.requester \o <<hasErr(e)>> \o appendLenPrefixed(EncodeMessage(e.request))
    \o appendLenPrefixed(IF e.err # <<>> THEN <<>> ELSE EncodeMessage(e.response[1]))
    \o appendLenPrefixed(e.err)

(* The entries up to the first that cannot be encoded, and whether all can. *)
RECURSIVE WriteTo(_)
WriteTo(entries) ==
  IF entries = <<>> THEN [ok |-> TRUE, bytes |-> <<>>]
  ELSE IF ~marshals(entries[1]) THEN [ok |-> FALSE, bytes |-> <<>>]
  ELSE LET payload == marshalEntry(entries[1])
           rest == WriteTo(Tail(entries))
       IN [rest EXCEPT !.bytes = entries[1].at \o put32(Len(payload)) \o payload
                                   \o ChecksumIEEE(payload) \o rest.bytes]

(* A length of more than 2^24 is longer than any log here. *)
lengthAt(b, i) == IF b[i] # 0 THEN 16777216 ELSE get32(b, i)

readLenPrefixed(b, off) ==
  IF Len(b) < off + 3 THEN Refused
  ELSE LET n == lengthAt(b, off) IN
       IF Len(b) < off + 3 + n THEN Refused
       ELSE [ok |-> TRUE, data |-> SubSeq(b, off + 4, off + 3 + n), off |-> off + 4 + n]

unmarshalEntry(p) ==
  LET failed == p[9] = 1
      request == readLenPrefixed(p, 10)
      req == DecodeMessage(request.data)
      response == readLenPrefixed(p, request.off)
      resp == DecodeMessage(response.data)
      err == readLenPrefixed(p, response.off)
  IN IF \/ Len(p) < 13 \/ ~request.ok \/ ~req.ok \/ ~response.ok
        \/ (~failed /\ ~resp.ok) \/ ~err.ok
     THEN Refused
     ELSE [ok |-> TRUE, e |-> [requester |-> SubSeq(p, 1, 8), request |-> req.msg,
             response |-> IF failed THEN <<>> ELSE <<resp.msg>>, err |-> IF failed THEN err.data ELSE <<>>]]

(* Mutated form: the checksum is not compared. *)
intact_Any(payload, crc) == TRUE

intact(payload, crc) == ChecksumIEEE(payload) = crc

(* Mutated form: a log that ends inside an entry ends before it. *)
endsHere_Payload(b, n) == Len(b) < 16 + n

(* ReadFull of the header fails with EOF or ErrUnexpectedEOF. *)
endsHere(b, n) == Len(b) < 12

(* Entry by entry. *)
RECURSIVE ReadFrom(_)
ReadFrom(b) ==
  LET n == lengthAt(b, 9)
      payload == SubSeq(b, 13, 12 + n)
      d == unmarshalEntry(payload)
      rest == ReadFrom(from(b, 17 + n))
  IN IF endsHere(b, IF Len(b) < 12 THEN 0 ELSE n) THEN [ok |-> TRUE, entries |-> <<>>]
     ELSE IF Len(b) < 16 + n THEN Refused
     ELSE IF ~intact(payload, SubSeq(b, 13 + n, 16 + n)) THEN Refused
     ELSE IF ~d.ok THEN Refused
     ELSE IF ~rest.ok THEN Refused
     ELSE [rest EXCEPT !.entries = <<d.e @@ [at |-> SubSeq(b, 1, 8)]>> \o @]

----------------------------------------------------------------------------
logged(e) == [e EXCEPT !.request = sent(@),
                       !.response = IF e.err # <<>> THEN <<>> ELSE <<sent(@[1])>>]
untimed(e) == [e EXCEPT !.at = <<>>]

(* A log is read back as it was written. *)
LogRoundTrip(entries) ==
  LET w == WriteTo(entries) IN
  w.ok => ReadFrom(w.bytes) = [ok |-> TRUE, entries |-> [i \in DOMAIN entries |-> logged(entries[i])]]

(* A log that was cut is read only where what is left of the last entry is *)
(* less than a header; inside a payload or a checksum it is refused.       *)
CutLogIsSeen(entries) ==
  LET b == WriteTo(entries).bytes
      before(k) == Len(WriteTo(SubSeq(entries, 1, k)).bytes)
  IN WriteTo(entries).ok => \A n \in 0..Len(b) :
       LET r == ReadFrom(SubSeq(b, 1, n)) IN
       r.ok <=> \E k \in 0..Len(entries) : before(k) <= n /\ n < before(k) + 12

(* Octets b of the length of the log that are read at all are read as its  *)
(* entries, but for their times, which the checksum does not cover.        *)
DamagedLogIsSeen(entries, b) ==
  LET w == WriteTo(entries)
      r == ReadFrom(b) IN
  w.ok /\ r.ok /\ Len(b) = Len(w.bytes) =>
    [k \in DOMAIN r.entries |-> untimed(r.entries[k])] = [k \in DOMAIN entries |-> untimed(logged(entries[k]))]
=============================================================================
