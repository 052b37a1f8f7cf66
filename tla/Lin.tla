-------------------------------- MODULE Lin --------------------------------
(***************************************************************************)
(* The LIN endpoint (lin/): the same exchange as I2C with a baud rate.     *)
(***************************************************************************)
EXTENDS Bodies

CONSTANTS Caller, RootBlocks, Configs, Requests, MaxTriggers
VARIABLES declared, regs, cfg, val, calls, agreed, triggers, fitted

Zero == [enabled |-> FALSE, baud |-> 0, trailing |-> 0]
Validate(c) == c.enabled => c.baud # 0
EncodeConfig(c) == <<IF c.enabled THEN 1 ELSE 0, c.baud, c.trailing>>
DecodeConfig(b) == [enabled |-> b[1] # 0, baud |-> b[2], trailing |-> b[3]]
Adopted(c, v) == v
Configured(c, v) == v

EP == INSTANCE Endpoint

Init == EP!EndpointInit /\ val = 0 /\ triggers = <<>> /\ fitted = FALSE

SetTransport ==
  /\ fitted' = ~fitted
  /\ UNCHANGED <<declared, regs, cfg, val, calls, agreed, triggers>>

HandleRequest(c, r) ==
  LET d == EVTDisposition("ConfigOnly", r) IN
  /\ d.action # "error"
  /\ d.action = "configure" \/ r.write
  /\ EP!Check(c, IF d.action = "configure" THEN [pc |-> "encode", req |-> r]
                 ELSE [pc |-> "transfer", n |-> Len(r.body)])
  /\ UNCHANGED <<triggers, fitted>>

transferBegin(c) ==
  /\ calls[c].pc = "transfer"
  /\ calls' = EP!set(c, IF cfg.enabled
                          THEN [pc |-> "exchange", n |-> calls[c].n, fitted |-> fitted]
                          ELSE EP!Idle)
  /\ UNCHANGED <<declared, regs, cfg, val, agreed, triggers, fitted>>

(* The transport answers with some bytes or fails; with none fitted the    *)
(* request's own come back.                                                *)
transferEnd(c) ==
  LET k == calls[c] IN
  /\ k.pc = "exchange"
  /\ \/ \E n \in IF k.fitted THEN 0..2 ELSE {k.n} :
          Len(triggers) < MaxTriggers /\ triggers' = Append(triggers, n)
     \/ k.fitted /\ UNCHANGED triggers
  /\ EP!returns(c)
  /\ UNCHANGED <<declared, regs, cfg, val, agreed, fitted>>

(* Mutated form: the endpoint takes the configuration first. *)
Configure_StoreFirst(c) ==
  \/ \E new \in Configs : /\ calls[c] = EP!Idle /\ Validate(new) /\ declared
                          /\ cfg' = new
                          /\ EP!begins(c, [pc |-> "store", new |-> new, clean |-> TRUE])
                          /\ UNCHANGED <<declared, regs, val>>
  \/ calls[c].pc = "store" /\ regs' = EncodeConfig(calls[c].new) /\ EP!succeeds(c, EP!Idle)
       /\ UNCHANGED <<declared, cfg, val>>

Configure(c) ==
  \/ \E new \in Configs : EP!ConfigureWrite(c, new)
  \/ EP!ConfigureStore(c, EP!Idle)

Configuring(c) ==
  /\ Configure(c) \/ EP!ApplyConfigRequest(c)
  /\ UNCHANGED <<triggers, fitted>>

DrainTriggers ==
  /\ triggers # <<>>
  /\ triggers' = <<>>
  /\ UNCHANGED <<declared, regs, cfg, val, calls, agreed, fitted>>

Root == EP!Rewrite /\ UNCHANGED <<triggers, fitted>>

Next ==
  \/ \E c \in Caller : \/ Configuring(c) \/ transferBegin(c) \/ transferEnd(c)
                       \/ \E r \in Requests : HandleRequest(c, r)
  \/ SetTransport
  \/ DrainTriggers
  \/ Root
=============================================================================
