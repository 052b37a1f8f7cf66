------------------------------- MODULE Iseled -------------------------------
(***************************************************************************)
(* The ISELED endpoint (iseled/): commands to one device of a chain or to  *)
(* all of them, and the aggregated answer of the chain.                    *)
(***************************************************************************)
EXTENDS Bodies

CONSTANTS Caller, RootBlocks, Configs, Requests, DeviceBroadcast, MaxTriggers
VARIABLES declared, regs, cfg, val, calls, agreed, triggers, fitted, hist

Zero == [enabled |-> FALSE, count |-> 0, timeout |-> 0]
Validate(c) == c.enabled => c.count # 0
EncodeConfig(c) == <<IF c.enabled THEN 1 ELSE 0, c.count, c.timeout>>
DecodeConfig(b) == [enabled |-> b[1] # 0, count |-> b[2], timeout |-> b[3]]
Adopted(c, v) == v
Configured(c, v) == v

EP == INSTANCE Endpoint

(* hist: the last answer, with the command and the chain length it was for. *)
Init ==
  /\ EP!EndpointInit
  /\ val = 0 /\ triggers = <<>> /\ fitted = FALSE /\ hist = {}

SetTransport ==
  /\ fitted' = ~fitted
  /\ UNCHANGED <<declared, regs, cfg, val, calls, agreed, triggers, hist>>

HandleRequest(c, r) ==
  LET d == EVTDisposition("ConfigOnly", r) IN
  /\ d.action # "error"
  /\ d.action = "configure" \/ (r.write /\ decodesCommand(r.body))
  /\ EP!Check(c, IF d.action = "configure" THEN [pc |-> "encode", req |-> r]
                 ELSE [pc |-> "command", cmd |-> DecodeCommand(r.body)])
  /\ UNCHANGED <<triggers, fitted, hist>>

(* Mutated form: an address one past the chain is let through. *)
reaches_OffByOne(address, count) == address = DeviceBroadcast \/ address <= count

reaches(address, count) == address = DeviceBroadcast \/ address < count

exchangeBegin(c) ==
  LET cmd == calls[c].cmd IN
  /\ calls[c].pc = "command"
  /\ calls' = EP!set(c, IF cfg.enabled /\ reaches(cmd.address, cfg.count)
                          THEN [pc |-> "exchange", cmd |-> cmd, count |-> cfg.count,
                                fitted |-> fitted]
                          ELSE EP!Idle)
  /\ UNCHANGED <<declared, regs, cfg, val, agreed, triggers, fitted, hist>>

defaultLoopback(cmd, count) ==
  IF cmd.address # DeviceBroadcast THEN <<cmd>>
  ELSE [i \in 1..count |-> [cmd EXCEPT !.address = i - 1]]

(* A transport answers for some of the chain or fails. *)
answers(k) ==
  IF k.fitted THEN {<<>>, <<k.cmd>>} ELSE {defaultLoopback(k.cmd, k.count)}

exchangeEnd(c) ==
  LET k == calls[c] IN
  /\ k.pc = "exchange"
  /\ \/ \E resp \in answers(k) :
          /\ Len(triggers) < MaxTriggers
          /\ triggers' = Append(triggers, Len(resp))
          /\ hist' = {[cmd |-> k.cmd, count |-> k.count, loop |-> ~k.fitted,
                       resp |-> resp, body |-> EncodeAggregatedResponse(resp)]}
     \/ k.fitted /\ UNCHANGED <<triggers, hist>>
  /\ EP!returns(c)
  /\ UNCHANGED <<declared, regs, cfg, val, agreed, fitted>>

Configure(c) ==
  \/ \E new \in Configs : EP!ConfigureWrite(c, new)
  \/ EP!ConfigureStore(c, EP!Idle)

Configuring(c) ==
  /\ Configure(c) \/ EP!ApplyConfigRequest(c)
  /\ UNCHANGED <<triggers, fitted, hist>>

DrainTriggers ==
  /\ triggers # <<>>
  /\ triggers' = <<>>
  /\ UNCHANGED <<declared, regs, cfg, val, calls, agreed, fitted, hist>>

Root == EP!Rewrite /\ UNCHANGED <<triggers, fitted, hist>>

Next ==
  \/ \E c \in Caller : \/ Configuring(c) \/ exchangeBegin(c) \/ exchangeEnd(c)
                       \/ \E r \in Requests : HandleRequest(c, r)
  \/ SetTransport
  \/ DrainTriggers
  \/ Root

----------------------------------------------------------------------------
(* The answer to a command decodes to the responses it was made of, and in *)
(* loopback those are one from the device addressed, or one from each      *)
(* device of the chain in order, never one from beyond it.                 *)
ChainAnswers ==
  \A a \in hist :
    /\ decodesAggregate(a.body)
    /\ DecodeAggregatedResponse(a.body) = a.resp
    /\ a.loop => /\ \A i \in DOMAIN a.resp : a.resp[i].address < a.count
                 /\ a.cmd.address = DeviceBroadcast =>
                      [i \in DOMAIN a.resp |-> a.resp[i].address] = [i \in 1..a.count |-> i - 1]
=============================================================================
