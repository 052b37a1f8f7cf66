-------------------------------- MODULE Mdio --------------------------------
(***************************************************************************)
(* The MDIO endpoint (mdio/): registers named by access mode and device    *)
(* address, 16 or 32 bits wide, kept by the endpoint when no transport is  *)
(* fitted; an event for every access.  A data word is one element.         *)
(***************************************************************************)
EXTENDS Bodies

CONSTANTS Caller, RootBlocks, Configs, Requests, AddrSpace, DevAddrMax, Word, MaxTriggers
VARIABLES declared, regs, cfg, val, calls, agreed, triggers, fitted, hist

Zero == [enabled |-> FALSE]
Validate(c) == TRUE
EncodeConfig(c) == <<IF c.enabled THEN 1 ELSE 0>>
DecodeConfig(b) == [enabled |-> b[1] # 0]
Adopted(c, v) == v
Configured(c, v) == v

EP == INSTANCE Endpoint

ModeMMSSingleWord == 2
ModeMMSMultiWord == 3
mmsWideIndexMax == 1

DataWidth(r) ==
  IF r.mode \in {ModeMMSSingleWord, ModeMMSMultiWord} /\ r.addr <= mmsWideIndexMax THEN 2 ELSE 1
RequestValidate(r) == r.mode \in 0..3 /\ r.addr <= DevAddrMax
decodeRequest(b) == [mode |-> b \div AddrSpace, addr |-> b % AddrSpace]
encodeRequest(r) == (r.mode * AddrSpace) + (r.addr % AddrSpace)

(* Mutated form: every register is one word wide. *)
putData_Narrow(width, data) ==
  IF width = 2 THEN <<0, data % Word>> ELSE <<data % Word>>

putData(width, data) ==
  IF width = 2 THEN <<data \div Word, data % Word>> ELSE <<data % Word>>
getData(b) == IF Len(b) = 2 THEN (b[1] * Word) + b[2] ELSE b[1]

(* val: the registers written so far.  hist: the last write a follower of  *)
(* the drained events was told of, the registers whose last write was not  *)
(* overlapped, and the last read answered: the register, the value that    *)
(* was read and the body.                                                  *)
Init ==
  /\ EP!EndpointInit
  /\ val = <<>> /\ triggers = <<>> /\ fitted = FALSE
  /\ hist = [told |-> <<>>, alone |-> {}, read |-> {}]

SetTransport ==
  /\ fitted' = ~fitted
  /\ UNCHANGED <<declared, regs, cfg, val, calls, agreed, triggers, hist>>

HandleRequest(c, r) ==
  LET d == EVTDisposition("ConfigOnly", r) IN
  /\ d.action # "error"
  /\ EP!Check(c, IF d.action = "configure" THEN [pc |-> "encode", req |-> r]
                 ELSE [pc |-> "enabled", req |-> r])
  /\ UNCHANGED <<triggers, fitted, hist>>

(* Then the configuration is read and the body decoded: a header, and the  *)
(* data of a write, of the register's width.                               *)
Enabled(c) ==
  LET r == calls[c].req
      k == decodeRequest(Head(r.body))
      data == Tail(r.body)
  IN  /\ calls[c].pc = "enabled"
      /\ calls' = EP!set(c,
           IF cfg.enabled /\ RequestValidate(k) /\ Len(data) = IF r.write THEN DataWidth(k) ELSE 0
             THEN IF r.write THEN [pc |-> "write", key |-> k, data |-> getData(data)]
                             ELSE [pc |-> "read", key |-> k]
             ELSE EP!Idle)
      /\ UNCHANGED <<declared, regs, cfg, val, agreed, triggers, fitted, hist>>

put(f, k, v) == [x \in DOMAIN f \cup {k} |-> IF x = k THEN v ELSE f[x]]
registerOf(k) == IF k \in DOMAIN val THEN val[k] ELSE 0

(* write: the transport, which may fail, or the endpoint's own register, *)
write(c) ==
  LET k == calls[c].key
      busy == \E d \in Caller : calls[d].pc = "record" /\ calls[d].key = k
  IN  /\ calls[c].pc = "write"
      /\ \/ /\ ~fitted
            /\ val' = put(val, k, calls[c].data)
            /\ hist' = [hist EXCEPT !.alone = IF busy THEN @ \ {k} ELSE @ \cup {k}]
            /\ calls' = EP!set(c, [calls[c] EXCEPT !.pc = "record"])
         \/ /\ fitted
            /\ hist' = [hist EXCEPT !.alone = @ \ {k}]
            /\ calls' = EP!set(c, [calls[c] EXCEPT !.pc = "record"])
            /\ UNCHANGED val
         \/ fitted /\ EP!returns(c) /\ UNCHANGED <<val, hist>>
      /\ UNCHANGED <<declared, regs, cfg, agreed, triggers, fitted>>

recordWrite(c) ==
  /\ calls[c].pc = "record"
  /\ Len(triggers) < MaxTriggers
  /\ triggers' = Append(triggers, [key |-> calls[c].key, data |-> calls[c].data, write |-> TRUE])
  /\ EP!returns(c)
  /\ UNCHANGED <<declared, regs, cfg, val, agreed, fitted, hist>>

(* A transport may answer any 32 bits, also for a register of 16. *)
read(c) ==
  LET k == calls[c].key IN
  /\ calls[c].pc = "read"
  /\ \/ ~fitted /\ calls' = EP!set(c, [pc |-> "recordRead", key |-> k, data |-> registerOf(k)])
     \/ /\ fitted
        /\ \/ \E v \in 0..(Word^2 - 1) :
                calls' = EP!set(c, [pc |-> "recordRead", key |-> k, data |-> v])
           \/ EP!returns(c)
  /\ UNCHANGED <<declared, regs, cfg, val, agreed, triggers, fitted, hist>>

EncodeResponse(k, data) == putData(DataWidth(k), data)
DecodeResponse(b) == getData(b)

recordRead(c) ==
  LET k == calls[c].key IN
  /\ calls[c].pc = "recordRead"
  /\ Len(triggers) < MaxTriggers
  /\ triggers' = Append(triggers, [key |-> k, data |-> calls[c].data, write |-> FALSE])
  /\ hist' = [hist EXCEPT !.read = {<<k, calls[c].data, EncodeResponse(k, calls[c].data)>>}]
  /\ EP!returns(c)
  /\ UNCHANGED <<declared, regs, cfg, val, agreed, fitted>>

Configure(c) ==
  \/ \E new \in Configs : EP!ConfigureWrite(c, new)
  \/ EP!ConfigureStore(c, EP!Idle)

Configuring(c) ==
  /\ Configure(c) \/ EP!ApplyConfigRequest(c)
  /\ UNCHANGED <<triggers, fitted, hist>>

(* The write events for k, oldest first. *)
writesTo(k) == SelectSeq(triggers, LAMBDA e : e.write /\ e.key = k)
toldOf(k) ==
  LET w == writesTo(k) IN
  IF w # <<>> THEN w[Len(w)].data ELSE IF k \in DOMAIN hist.told THEN hist.told[k] ELSE 0

DrainTriggers ==
  /\ triggers # <<>>
  /\ triggers' = <<>>
  /\ hist' = [hist EXCEPT !.read = {}, !.told =
       [k \in DOMAIN @ \cup {triggers[i].key : i \in {j \in DOMAIN triggers : triggers[j].write}} |-> toldOf(k)]]
  /\ UNCHANGED <<declared, regs, cfg, val, calls, agreed, fitted>>

Root == EP!Rewrite /\ UNCHANGED <<triggers, fitted, hist>>

Next ==
  \/ \E c \in Caller : \/ Configuring(c) \/ Enabled(c) \/ write(c) \/ recordWrite(c)
                       \/ read(c) \/ recordRead(c)
                       \/ \E r \in Requests : HandleRequest(c, r)
  \/ SetTransport
  \/ DrainTriggers
  \/ Root

----------------------------------------------------------------------------
(* A follower of the events knows a register whose last write no other     *)
(* write to it overlapped, and a read is answered with the value that was  *)
(* read, over the register's whole width, and no more than that of a value *)
(* that a transport makes wider.                                           *)
EventsTellRegisters ==
  /\ \A k \in hist.alone :
       (\A c \in Caller : ~(calls[c].pc = "record" /\ calls[c].key = k)) => toldOf(k) = val[k]
  /\ \A a \in hist.read : DecodeResponse(a[3]) = a[2] % Word^DataWidth(a[1])
=============================================================================
