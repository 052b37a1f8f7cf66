----------------------------- MODULE MCServices -----------------------------
(***************************************************************************)
(* Everything around a Controller in one run: a behaviour is about one of  *)
(* the components, or about the codecs.  In the latter st is [form, item], *)
(* something to send, seen the octets on the wire, and calls counts how    *)
(* often an octet was changed or the end cut off.  Forms without octets of *)
(* their own have none.                                                    *)
(***************************************************************************)
EXTENDS MCComponents

AW == INSTANCE AcfWire
BW == INSTANCE BridgeWire
BO == INSTANCE Bodies WITH Width <- 8
FO == INSTANCE Formal

eight == <<2, 17, 34, 51, 68, 85, 0, 1>>
four == <<0, 1, 2, 255>>

message(long, control, body) ==
  [long |-> long, bus |-> 769, txn |-> 9, evt |-> 5, hs |-> long, cs |-> TRUE, mtv |-> long,
   control |-> control, size |-> 4000, timestamp |-> eight, body |-> body]
acfHeader(timed, status) ==
  [timed |-> timed, valid |-> TRUE, seq |-> 7, len |-> 0, stream |-> eight, timestamp |-> four, status |-> status]
short == message(FALSE, {"read", "more"}, <<1, 2, 3>>)
long == message(TRUE, {"write", "response"}, <<>>)
Frames ==
  {[header |-> h, msgs |-> m] :
     h \in {acfHeader(FALSE, "Valid"), acfHeader(TRUE, "Uncertain"), acfHeader(TRUE, "Missing")},
     m \in {<<>>, <<short>>, <<long, short>>, <<short, [long EXCEPT !.evt = 16]>>,
            <<[short EXCEPT !.control = {"error"}, !.body = four]>>}}

condition == [sequencer |-> 258, op |-> 5, operand |-> four, advance |-> <<255, 255, 255, 254>>]
request(body) == [control |-> 3, body |-> body]
Requests ==
  {[kind |-> k, c |-> condition, inner |-> request(<<4>>)] : k \in {1, 129}}
    \cup {[kind |-> k, c |-> condition] : k \in {2, 130}}
    \cup {[kind |-> k, source |-> 300, inner |-> request(b)] : k \in {3, 131}, b \in {<<>>, <<9>>}}
    \cup {[kind |-> 4, items |-> i] : i \in {<<>>, <<request(<<>>)>>, <<request(four), request(<<1>>)>>}}
    \cup {[kind |-> 5, at |-> eight, inner |-> request(<<>>)], [kind |-> 6]}
    \cup {[kind |-> k, id |-> 513] : k \in {7, 8}}

segment(flag, body) == [control |-> flag, body |-> body]
ChainedAnswers == {[total |-> 2, items |-> <<segment(FALSE, <<1, 2>>), segment(TRUE, <<>>)>>], [total |-> 3, items |-> <<>>]}

Blank == [f \in AW!Fields |->
           LET i == CHOOSE j \in DOMAIN AW!Layout : AW!Layout[j][1] = f IN
           IF AW!Layout[i][2] = 4 THEN AW!zeros(4) ELSE 256 \div (3 - AW!Layout[i][2]) - i]
Maps ==
  {[general |-> Blank, pins |-> p, eps |-> e, streams |-> [streams |-> 3, inflight |-> 260],
    queues |-> [threshold |-> 1, flush |-> four, heartbeat |-> four]] :
     p \in {<<>>, <<[pin |-> 10, endpoint |-> 1, signal |-> 2], [pin |-> 11, endpoint |-> 1, signal |-> 0]>>},
     e \in {[a \in {} |-> {}], [a \in {1, 12} |-> [type |-> a, enabled |-> a = 1, data |-> SubSeq(four, 1, a % 4)]]}}

entry(err) == [at |-> eight, requester |-> eight, request |-> short, response |-> IF err = <<>> THEN <<long>> ELSE <<>>,
               err |-> err]
Logs == {<<>>, <<entry(<<>>)>>, <<entry(<<>>), entry(<<101>>)>>, <<[entry(<<>>) EXCEPT !.request.evt = 16]>>}

(* Requests through the REST and gRPC bridges; reads fail at address 0. *)
Relayed == [addr : {0, 255, 256}, control : {1, 2}, body : {<<>>, four}]
relayAnswers ==
  [r \in Relayed |-> [failed |-> r.addr = 0 /\ r.control = 1, bus |-> r.addr, txn |-> 77,
                      control |-> 8 + r.control, body |-> r.body]]

LinFrames == [id : {0, 5, 42, 63}, data : {<<>>, <<1>>, <<255, 255>>, <<128, 127, 1>>} \cup {[i \in 1..n |-> 7] : n \in {8, 9}},
              enhanced : BOOLEAN]

Upstreams == {[failed |-> TRUE, error |-> FALSE, body |-> <<>>]}
              \cup [failed : {FALSE}, error : BOOLEAN, body : {<<>>, <<7, 8>>}]
Pdus == {<<s, 1, 2>> \o b : s \in {34, 46, 16}, b \in {<<>>, <<5>>}}

Statuses == {[trigger |-> TRUE, addr |-> 1, count |-> n] : n \in {-1, 0, 300, 65535, 65536}}
              \cup {[trigger |-> FALSE, addr |-> 1, txn |-> 258, control |-> 3, body |-> b] : b \in {<<>>, <<1, 2>>}}
someip(type, service) ==
  [service |-> service, method |-> 5, client |-> 1, session |-> 65535, proto |-> 1, iface |-> 1, type |-> type, code |-> 0]

Traces(S, n) == UNION {[1..k -> S] : k \in 0..n}
sends(form, item, octets) == st = [form |-> form, item |-> item] /\ seen = octets

CodecInit ==
  /\ kind = "codec" /\ calls = 0
  /\ \/ \E f \in Frames : sends("frame", f, LET e == AW!EncodeFrame(f.header, f.msgs) IN IF e.ok THEN e.bytes ELSE <<>>)
     \/ \E e \in Requests : sends("request", e, AW!Encode(e))
     \/ \E a \in ChainedAnswers : sends("chained", a, <<>>)
     \/ \E b \in {<<>>, <<1>>} : sends("conditional", [matched |-> TRUE, value |-> four, body |-> b], <<>>)
     \/ \E n \in {0, 258} : sends("cancel", n, <<>>)
     \/ \E m \in Maps : sends("map", m, AW!EncodeRegisterMap(m))
     \/ \E l \in Logs : sends("log", l, AW!WriteTo(l).bytes)
     \/ \E f \in LinFrames : sends("lin", f, BW!LinEncodeFrame(f))
     \/ \E p \in Pdus, u \in Upstreams, c \in BOOLEAN : sends("uds", [closed |-> c, up |-> u], p)
     \/ \E s \in Statuses : sends("status", s, <<>>)
     \/ \E c \in [addr : {0, 255}, control : {1}, body : {<<>>, four}] : sends("command", c, <<>>)
     \/ \E t \in {0, 2}, s \in {9, 10}, u \in Upstreams : sends("someip", [h |-> someip(t, s), up |-> u], <<>>)
     \/ \E r \in Relayed : sends("relay", r, <<>>)
     \/ \E a \in {0, 5, 255}, d \in {<<>>, <<1>>, <<170, 85>>} : sends("iseled", [address |-> a, data |-> d], <<>>)
     \/ \E port \in {5000, 255} : sends("mdns", port, <<>>)
     \/ \E t \in Traces(BOOLEAN \X BOOLEAN, 4) : sends("loops", t, <<>>)
     \/ \E t \in Traces(0..2, 5) : sends("lifecycle", t, <<>>)
     \/ \E t \in Traces(BOOLEAN, 6) : sends("safestate", t, <<>>)

(* Requests are short: two of their octets may change. *)
mayChange == calls = 0 \/ (calls = 1 /\ st.form = "request")

Damage ==
  /\ mayChange
  /\ \E i \in DOMAIN seen : \E v \in {0, 1, 255, AW!byte(seen[i] + 1), AW!byte(seen[i] + 8), AW!byte(seen[i] + 128)} :
       v # seen[i] /\ seen' = [seen EXCEPT ![i] = v]
  /\ calls' = calls + 1
  /\ UNCHANGED st

Cut ==
  /\ mayChange
  /\ \E n \in 0..Len(seen) - 1 : seen' = SubSeq(seen, 1, n)
  /\ calls' = calls + 1
  /\ UNCHANGED st

CodecNext == kind = "codec" /\ (Damage \/ Cut)
----------------------------------------------------------------------------
is(form) == kind = "codec" /\ st.form = form
fresh(form) == is(form) /\ calls = 0

Init == kind \in Kinds /\ (ComponentInit \/ CodecInit)
Next == UNCHANGED kind /\ (ComponentNext \/ CodecNext)
Spec == Init /\ [][Next]_vars

----------------------------------------------------------------------------
(* What was encoded is read as it was sent: frames, requests and answers,  *)
(* register maps, record logs, Ethernet, MQTT, SOME/IP, UDS, REST and gRPC *)
(* messages, LIN frames by any LIN node, and mDNS announcements, with      *)
(* compressed names too.                                                   *)
ReadAsSent ==
  /\ fresh("frame") => AW!FrameRoundTrip(st.item.header, st.item.msgs)
  /\ is("frame") => BW!L2AsSent(SubSeq(eight, 1, 6), SubSeq(eight, 2, 7), seen)
  /\ fresh("request") => AW!ReadAsSent(st.item)
  /\ \A form \in {"conditional", "cancel", "chained"} : is(form) => AW!AnswerAsSent(form, st.item)
  /\ fresh("map") => AW!MapRoundTrip(st.item)
  /\ fresh("log") => AW!LogRoundTrip(st.item)
  /\ is("status") => BW!StatusAsSent(st.item)
  /\ is("command") => BW!CommandAsSent(st.item)
  /\ is("someip") => BW!SomeIpAnswers(st.item.h, four, 9, st.item.up)
  /\ is("uds") => BW!UdsAnswerTells(st.item.closed, seen, st.item.up)
  /\ is("relay") => BW!RelayedAsAnswered(st.item, relayAnswers)
  /\ fresh("lin") => BW!LinAddsUp(st.item)
  /\ is("mdns") => /\ BW!FoundAsAnnounced(eight, <<192, 168, 1, 7>>, st.item) /\ BW!QueryIsIgnored
                   /\ BW!CompressedIsFound(eight, <<192, 168, 1, 7>>, st.item)

(* Octets that were changed or cut off on the way are refused, or wholly   *)
(* understood in one way only: frames, requests, register maps, record     *)
(* logs, LIN frames and ISELED commands.                                   *)
DamageIsSeen ==
  /\ is("frame") => AW!AcceptedIsRead(seen)
  /\ is("request") => AW!OneReading(seen)
  /\ fresh("map") => AW!CutIsRefused(st.item)
  /\ is("map") => AW!AcceptedIsAMap(seen)
  /\ fresh("log") => AW!CutLogIsSeen(st.item)
  /\ is("log") => AW!DamagedLogIsSeen(st.item, seen)
  /\ is("lin") => BW!LinDamageIsSeen(st.item, seen)
  /\ is("iseled") => BO!CorruptionIsSeen(st.item)

(* The loops of the trace checker decide the temporal formulas they are    *)
(* named for, and its lifecycle and sequence checks accept exactly the     *)
(* walks through the lifecycle and the traces of one trip.                 *)
CheckerDecides ==
  /\ is("loops") => FO!LoopsDecide(st.item)
  /\ is("lifecycle") => FO!LifecycleMeans(st.item)
  /\ is("safestate") => FO!MonotonicityMeans(st.item)
=============================================================================
