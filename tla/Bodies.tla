------------------------------- MODULE Bodies -------------------------------
(***************************************************************************)
(* The bodies of endpoint requests: what the evt selector asks for, the    *)
(* write operations of the arithmetic class (acf/evt.go), and the commands *)
(* and responses of an ISELED chain (iseled/request.go, iseled/crc.go).    *)
(***************************************************************************)
EXTENDS Integers, FiniteSetsExt, SequencesExt

CONSTANT Width   \* bits of an operand

-----------------------------------------------------------------------------
(***************************************************************************)
(* The evt selector of a request (acf/evt.go): what it asks an endpoint to *)
(* do, and the write operations of the arithmetic class.                   *)
(***************************************************************************)
reserved == [action |-> "error"]
interface(ch, op) == [action |-> "interface", channel |-> ch, op |-> op]

(* sel is evt[2:0]; 7 is a configuration request in every class. *)
ClassifyEVT(class, sel) ==
  CASE sel = 7                                -> [action |-> "configure"]
    [] class = "ChannelSelect" /\ sel \in 0..5 -> interface(sel, 0)
    [] class = "ConfigOnly" /\ sel = 0         -> interface(0, 0)
    [] class = "Arithmetic" /\ sel \notin {4, 7} -> interface(0, sel)
    [] OTHER                                   -> reserved

EVTDisposition(class, m) ==
  IF m.evt # 0 /\ m.body = <<>> THEN reserved ELSE ClassifyEVT(class, m.evt)

bits(n) == {i \in 0..(Width - 1) : (n \div 2^i) % 2 = 1}
num(S) == MapThenSumSet(LAMBDA i : 2^i, S)
symdiff(S, T) == (S \ T) \cup (T \ S)
upTo(limit, n) == IF n > limit THEN limit ELSE n

(* set, or, and, xor, saturating add and subtract. *)
ApplyEVTWriteOp(op, payload, current, saturateAt) ==
  CASE op = 0 -> payload
    [] op = 1 -> num(bits(payload) \cup bits(current))
    [] op = 2 -> num(bits(payload) \cap bits(current))
    [] op = 3 -> num(symdiff(bits(payload), bits(current)))
    [] op = 5 -> upTo(saturateAt, payload + current)
    [] op = 6 -> IF payload <= current THEN 0
                                       ELSE upTo(saturateAt, payload - current)

-----------------------------------------------------------------------------
(***************************************************************************)
(* ISELED commands and aggregated answers (iseled/request.go) and the      *)
(* CRC-8 that guards each (iseled/crc.go).  Elements are bytes; the length *)
(* field is two of them.                                                   *)
(***************************************************************************)
xor(a, b) == num(symdiff(bits(a), bits(b)))

(* Polynomial 0x1D, initial value and final xor 0xFF, over Width = 8 bits. *)
shift(crc) == IF crc >= 128 THEN xor((crc * 2) % 256, 29) ELSE crc * 2
shifted8 == [crc \in 0..255 |-> FoldLeft(LAMBDA x, i : shift(x), crc, <<1, 2, 3, 4, 5, 6, 7, 8>>)]
crcByte(crc, byte) == shifted8[xor(crc, byte)]
ComputeCRC(data) == xor(FoldLeft(crcByte, 255, data), 255)

(* Mutated form: the address is left out of the checksum. *)
checksum_Data(addr, data) == ComputeCRC(data)

checksum(addr, data) == ComputeCRC(<<addr>> \o data)

EncodeCommand(addr, data) ==
  <<addr, (Len(data) \div 256) % 256, Len(data) % 256>> \o data \o <<checksum(addr, data)>>
payload(b) == SubSeq(b, 4, Len(b) - 1)

(* How long the command that begins at i says that it is. *)
saidLength(b, i) == 256 * b[i + 1] + b[i + 2] + 4
decodesCommand(b) ==
  /\ Len(b) >= 4
  /\ Len(b) = saidLength(b, 1)
  /\ b[Len(b)] = checksum(b[1], payload(b))
DecodeCommand(b) == [address |-> b[1], data |-> payload(b)]

EncodeAggregatedResponse(resp) ==
  <<Len(resp) % 256>> \o FlattenSeq([i \in DOMAIN resp |->
                                      EncodeCommand(resp[i].address, resp[i].data)])

(* The entries of an aggregated answer, each as long as its length says. *)
entryAt(b, k) ==
  FoldLeft(LAMBDA off, i : off + saidLength(b, off), 2, [i \in 1..(k - 1) |-> i])
DecodeAggregatedResponse(b) ==
  [k \in 1..b[1] |-> DecodeCommand(SubSeq(b, entryAt(b, k), entryAt(b, k + 1) - 1))]
decodesAggregate(b) ==
  /\ \A k \in 1..b[1] : decodesCommand(SubSeq(b, entryAt(b, k), entryAt(b, k + 1) - 1))
  /\ entryAt(b, b[1] + 1) = Len(b) + 1

----------------------------------------------------------------------------
(* No command with one byte changed on the way, address, length, data or   *)
(* checksum, is taken for another command.                                 *)
CorruptionIsSeen(cmd) ==
  LET b == EncodeCommand(cmd.address, cmd.data) IN
  /\ decodesCommand(b) /\ DecodeCommand(b) = cmd
  /\ \A i \in DOMAIN b, e \in {1, 2, 16, 128, 255} : ~decodesCommand([b EXCEPT ![i] = xor(@, e)])
=============================================================================
