-------------------------------- MODULE Adc --------------------------------
(***************************************************************************)
(* The ADC endpoint (adc/): a measurement samples the transport with no    *)
(* lock held, between the step that copies the configuration and the step  *)
(* that stores the value.                                                  *)
(***************************************************************************)
EXTENDS Bodies

CONSTANTS Caller, RootBlocks, Configs, Requests, Samples, MaxResolutionBits, MaxTriggers
VARIABLES declared, regs, cfg, val, calls, agreed, triggers, fitted

Zero == [enabled |-> FALSE, bits |-> 0, count |-> 0, combine |-> 0, mode |-> 0]
OnDemand == 0
Replace == 0
flag(b) == IF b THEN 1 ELSE 0

resolutionMask(b) == 2 ^ upTo(MaxResolutionBits, b) - 1
Validate(c) ==
  c.enabled => /\ c.bits \in 1..MaxResolutionBits
               /\ c.count # 0
               /\ {c.combine, c.mode} \subseteq {0, 1}
EncodeConfig(c) == <<flag(c.enabled), c.bits, c.count, c.combine, c.mode>>
DecodeConfig(b) == [enabled |-> b[1] # 0, bits |-> b[2], count |-> b[3],
                    combine |-> b[4], mode |-> b[5]]

(* adoptConfigBlock keeps the value; Configure masks it. *)
Adopted(c, v) == v
Configured(c, v) == v % (resolutionMask(c.bits) + 1)

EP == INSTANCE Endpoint

Init == EP!EndpointInit /\ val = 0 /\ triggers = <<>> /\ fitted = FALSE

SetTransport ==
  /\ fitted' = ~fitted
  /\ UNCHANGED <<declared, regs, cfg, val, calls, agreed, triggers>>

(* A write, or a read in the on-demand mode, starts a measurement; another *)
(* read changes nothing and is not a step.                                 *)
HandleRequest(c, r) ==
  LET d == EVTDisposition("ConfigOnly", r) IN
  /\ d.action # "error"
  /\ EP!Check(c, IF d.action = "configure" THEN [pc |-> "encode", req |-> r]
                 ELSE [pc |-> IF r.write THEN "trigger" ELSE "mode"])
  /\ UNCHANGED <<triggers, fitted>>

ReadMode(c) ==
  /\ calls[c].pc = "mode"
  /\ calls' = EP!set(c, IF cfg.mode = OnDemand THEN [pc |-> "trigger"] ELSE EP!Idle)
  /\ UNCHANGED <<declared, regs, cfg, val, agreed, triggers, fitted>>

TriggerBegin(c) ==
  /\ calls[c].pc = "trigger"
  /\ calls' = EP!set(c, IF cfg.enabled
                          THEN [pc |-> "sample", cfg |-> cfg, prev |-> val, fitted |-> fitted]
                          ELSE EP!Idle)
  /\ UNCHANGED <<declared, regs, cfg, val, agreed, triggers, fitted>>

mean(raws, mask, n) == MapThenSumSet(LAMBDA i : raws[i] % (mask + 1), 1..n) \div n

(* Mutated form: the combined value is not masked again. *)
measured_Wide(k, raws) ==
  LET avg == mean(raws, resolutionMask(k.cfg.bits), k.cfg.count)
  IN  IF k.cfg.combine = Replace THEN avg ELSE (k.prev + avg) \div 2

measured(k, raws) ==
  LET mask == resolutionMask(k.cfg.bits)
      avg == mean(raws, mask, k.cfg.count)
      final == IF k.cfg.combine = Replace THEN avg ELSE (k.prev + avg) \div 2
  IN  final % (mask + 1)

TriggerEnd(c) ==
  LET k == calls[c] IN
  /\ k.pc = "sample"
  /\ \/ \E raws \in [1..k.cfg.count -> IF k.fitted THEN Samples ELSE {0}] :
          /\ Len(triggers) < MaxTriggers
          /\ val' = measured(k, raws)
          /\ triggers' = Append(triggers, val')
     \/ k.fitted /\ UNCHANGED <<val, triggers>>      \* Sample failed
  /\ EP!returns(c)
  /\ UNCHANGED <<declared, regs, cfg, agreed, fitted>>

Configure(c) ==
  \/ \E new \in Configs : EP!ConfigureWrite(c, new)
  \/ EP!ConfigureStore(c, EP!Idle)

Configuring(c) ==
  /\ Configure(c) \/ EP!ApplyConfigRequest(c)
  /\ UNCHANGED <<triggers, fitted>>

DrainTriggers ==
  /\ triggers # <<>>
  /\ triggers' = <<>>
  /\ UNCHANGED <<declared, regs, cfg, val, calls, agreed, fitted>>

Root == EP!Rewrite /\ UNCHANGED <<triggers, fitted>>

Next ==
  \/ \E c \in Caller : \/ Configuring(c) \/ ReadMode(c) \/ TriggerBegin(c) \/ TriggerEnd(c)
                       \/ \E r \in Requests : HandleRequest(c, r)
  \/ SetTransport
  \/ DrainTriggers
  \/ Root

----------------------------------------------------------------------------
(* A measurement reports a value of the resolution it was made with, even  *)
(* when it is averaged with one stored under a wider resolution, before a  *)
(* reconfiguration.                                                        *)
MeasurementFits ==
  \A c \in Caller :
    calls[c].pc = "sample" /\ calls'[c] = EP!Idle /\ triggers' # triggers
      => val' <= resolutionMask(calls[c].cfg.bits)
=============================================================================
