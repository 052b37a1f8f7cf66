-------------------------------- MODULE Uart --------------------------------
(***************************************************************************)
(* The UART endpoint (uart/): a receive FIFO that Receive and the default  *)
(* loopback fill and read requests empty, and the events of both ways.     *)
(***************************************************************************)
EXTENDS Bodies

CONSTANTS Caller, RootBlocks, Configs, Requests, Inputs, MaxBytes, MaxTriggers
VARIABLES declared, regs, cfg, val, calls, agreed, triggers, fitted, hist

Zero == [enabled |-> FALSE, baud |-> 0, dataBits |-> 0]
flag(b) == IF b THEN 1 ELSE 0

(* Parity, stop bits, flow control and timeout are checked and stored like *)
(* the two fields kept here, and nothing reads them.                       *)
Validate(c) == c.enabled => c.baud # 0 /\ c.dataBits \in 5..9
EncodeConfig(c) == <<flag(c.enabled), c.baud, c.dataBits>>
DecodeConfig(b) == [enabled |-> b[1] # 0, baud |-> b[2], dataBits |-> b[3]]
Adopted(c, v) == v
Configured(c, v) == v

EP == INSTANCE Endpoint

(* val: rxFIFO.  hist: the bytes received, those a client decoded from     *)
(* read responses, and the lengths of drained RX events added up.          *)
Init ==
  /\ EP!EndpointInit
  /\ val = <<>> /\ triggers = <<>> /\ fitted = FALSE
  /\ hist = [in |-> <<>>, out |-> <<>>, told |-> 0]

SetTransport ==
  /\ fitted' = ~fitted
  /\ UNCHANGED <<declared, regs, cfg, val, calls, agreed, triggers, hist>>

received(data) ==
  IF data = <<>> THEN UNCHANGED <<val, triggers, hist>>
  ELSE /\ Len(triggers) < MaxTriggers /\ Len(hist.in) + Len(data) <= MaxBytes
       /\ val' = val \o data
       /\ triggers' = Append(triggers, [kind |-> "RX", n |-> Len(data)])
       /\ hist' = [hist EXCEPT !.in = @ \o data]

Receive(data) ==
  /\ received(data)
  /\ UNCHANGED <<declared, regs, cfg, calls, agreed, fitted>>

(* A read must have no body; one of zero bytes is not a step. *)
HandleRequest(c, r) ==
  LET d == EVTDisposition("ConfigOnly", r) IN
  /\ d.action # "error"
  /\ d.action = "configure" \/ r.write \/ r.body = <<>>
  /\ EP!Check(c, IF d.action = "configure" THEN [pc |-> "encode", req |-> r]
                 ELSE IF r.write THEN [pc |-> "transmit", tx |-> r.body]
                 ELSE [pc |-> "enabled", want |-> r.want])
  /\ UNCHANGED <<triggers, fitted, hist>>

transmitBegin(c) ==
  /\ calls[c].pc = "transmit"
  /\ calls' = EP!set(c, IF cfg.enabled THEN [pc |-> "send", tx |-> calls[c].tx, fitted |-> fitted]
                                       ELSE EP!Idle)
  /\ UNCHANGED <<declared, regs, cfg, val, agreed, triggers, fitted, hist>>

(* The transport takes some of the bytes or fails; with none fitted they   *)
(* come back on the receive FIFO.                                          *)
transmitSend(c) ==
  LET k == calls[c] IN
  /\ k.pc = "send"
  /\ IF k.fitted
       THEN /\ \/ \E n \in 0..Len(k.tx) : calls' = EP!set(c, [pc |-> "sent", n |-> n])
               \/ EP!returns(c)
            /\ UNCHANGED <<val, triggers, hist>>
       ELSE received(k.tx) /\ calls' = EP!set(c, [pc |-> "sent", n |-> Len(k.tx)])
  /\ UNCHANGED <<declared, regs, cfg, agreed, fitted>>

transmitDone(c) ==
  /\ calls[c].pc = "sent"
  /\ Len(triggers) < MaxTriggers
  /\ triggers' = Append(triggers, [kind |-> "TX", n |-> calls[c].n])
  /\ EP!returns(c)
  /\ UNCHANGED <<declared, regs, cfg, val, agreed, fitted, hist>>

readEnabled(c) ==
  /\ calls[c].pc = "enabled"
  /\ calls' = EP!set(c, IF cfg.enabled THEN [calls[c] EXCEPT !.pc = "read"] ELSE EP!Idle)
  /\ UNCHANGED <<declared, regs, cfg, val, agreed, triggers, fitted, hist>>

EncodeReadResponse(complete, data) == <<flag(complete)>> \o data
DecodeReadResponse(b) == [complete |-> Head(b) # 0, data |-> Tail(b)]

(* Mutated form: a read that asks for more than there is empties the FIFO  *)
(* and answers nothing.                                                    *)
answer_Empty(want) ==
  IF want > Len(val) THEN EncodeReadResponse(FALSE, <<>>)
                     ELSE EncodeReadResponse(TRUE, SubSeq(val, 1, want))

answer(want) ==
  LET n == upTo(Len(val), want) IN EncodeReadResponse(n = want, SubSeq(val, 1, n))

read(c) ==
  LET want == calls[c].want
      got == DecodeReadResponse(answer(want))
  IN  /\ calls[c].pc = "read"
      /\ val' = SubSeq(val, upTo(Len(val), want) + 1, Len(val))
      /\ hist' = [hist EXCEPT !.out = @ \o got.data]
      /\ EP!returns(c)
      /\ UNCHANGED <<declared, regs, cfg, agreed, triggers, fitted>>

Configure(c) ==
  \/ \E new \in Configs : EP!ConfigureWrite(c, new)
  \/ EP!ConfigureStore(c, EP!Idle)

Configuring(c) ==
  /\ Configure(c) \/ EP!ApplyConfigRequest(c)
  /\ UNCHANGED <<triggers, fitted, hist>>

bytesTold(events) ==
  MapThenSumSet(LAMBDA i : IF events[i].kind = "RX" THEN events[i].n ELSE 0, DOMAIN events)

DrainTriggers ==
  /\ triggers # <<>>
  /\ triggers' = <<>>
  /\ hist' = [hist EXCEPT !.told = @ + bytesTold(triggers)]
  /\ UNCHANGED <<declared, regs, cfg, val, calls, agreed, fitted>>

Root == EP!Rewrite /\ UNCHANGED <<triggers, fitted, hist>>

Next ==
  \/ \E c \in Caller : \/ Configuring(c) \/ transmitBegin(c) \/ transmitSend(c)
                       \/ transmitDone(c) \/ readEnabled(c) \/ read(c)
                       \/ \E r \in Requests : HandleRequest(c, r)
  \/ \E data \in Inputs : Receive(data)
  \/ SetTransport
  \/ DrainTriggers
  \/ Root

----------------------------------------------------------------------------
(* Whatever reads, receptions, loopbacks and reconfigurations interleave,  *)
(* the bytes the clients decode, followed by those still queued, are the   *)
(* bytes received, each once and in order; and the events count them all.  *)
BytesOnceInOrder ==
  /\ hist.out \o val = hist.in
  /\ hist.told + bytesTold(triggers) = Len(hist.in)
=============================================================================
