-------------------------------- MODULE Gpio --------------------------------
(***************************************************************************)
(* The GPIO endpoint (gpio/): a port of pins, each an input that SetInputs *)
(* moves or an output that requests write, with an event for every change  *)
(* of a pin whose trigger is enabled.  A mask is a set of pins.            *)
(***************************************************************************)
EXTENDS Bodies

CONSTANTS Caller, RootBlocks, Configs, Requests, Inputs, MaxPins, MaxTriggers
VARIABLES declared, regs, cfg, val, calls, agreed, triggers, hist

Zero == [pins |-> 0, dir |-> {}, trig |-> {}]
activeMask(c) == {p \in 0..(MaxPins - 1) : p < c.pins}
Validate(c) == c.pins \in 1..MaxPins /\ c.dir \cup c.trig \subseteq activeMask(c)
EncodeConfig(c) == <<c.pins, c.dir, c.trig>>
DecodeConfig(b) == [pins |-> b[1], dir |-> b[2], trig |-> b[3]]

(* Mutated form: adopting a block leaves the value alone. *)
Adopted_All(c, v) == v

Adopted(c, v) == v \cap activeMask(c)
Configured(c, v) == v \cap activeMask(c)

EP == INSTANCE Endpoint

(* hist: the value at the last adoption or drained event, and the number   *)
(* of pending events that are older than it.                               *)
Init ==
  /\ EP!EndpointInit
  /\ val = {} /\ triggers = <<>>
  /\ hist = [value |-> {}, old |-> 0]

(* Mutated form: the event reports the change of every pin. *)
recordChangeLocked_AllPins(after) ==
  triggers' = IF symdiff(val, after) = {} THEN triggers
              ELSE Append(triggers, [mask |-> symdiff(val, after), value |-> after])

recordChangeLocked(after) ==
  LET changed == symdiff(val, after) \cap cfg.trig IN
  triggers' = IF changed = {} THEN triggers
              ELSE Append(triggers, [mask |-> changed, value |-> after])

SetInputs(mask) ==
  LET inMask == activeMask(cfg) \ cfg.dir IN
  /\ Len(triggers) < MaxTriggers
  /\ val' = (val \ inMask) \cup (mask \cap inMask)
  /\ recordChangeLocked(val')
  /\ UNCHANGED <<declared, regs, cfg, calls, agreed, hist>>

applyValue(operand, op, active) ==
  bits(ApplyEVTWriteOp(op, operand, num(val), num(active))) \cap active

applyWrite(c) ==
  LET active == activeMask(cfg)
      outMask == cfg.dir \cap active
      candidate == applyValue(Head(calls[c].req.body), calls[c].op, active)
  IN  /\ calls[c].pc = "write"
      /\ Len(triggers) < MaxTriggers
      /\ val' = (val \ outMask) \cup (candidate \cap outMask)
      /\ recordChangeLocked(val')
      /\ EP!returns(c)
      /\ UNCHANGED <<declared, regs, cfg, agreed, hist>>

(* A read changes nothing and is not a step. *)
HandleRequest(c, r) ==
  LET d == EVTDisposition("Arithmetic", r) IN
  /\ d.action # "error"
  /\ EP!Check(c, IF d.action = "configure" THEN [pc |-> "encode", req |-> r]
                 ELSE [pc |-> "write", req |-> r, op |-> d.op])
  /\ UNCHANGED <<triggers, hist>>

Configure(c) ==
  \/ \E new \in Configs : EP!ConfigureWrite(c, new)
  \/ EP!ConfigureStore(c, EP!Idle)

(* The configuration steps; one that adopts a block restarts the history. *)
Configuring(c) ==
  /\ Configure(c) \/ EP!ApplyConfigRequest(c)
  /\ hist' = IF cfg' = cfg /\ val' = val THEN hist
             ELSE [value |-> val', old |-> Len(triggers)]
  /\ UNCHANGED triggers

DrainTriggers ==
  /\ triggers # <<>>
  /\ triggers' = <<>>
  /\ hist' = [value |-> IF Len(triggers) > hist.old THEN triggers[Len(triggers)].value
                                                    ELSE hist.value,
              old |-> 0]
  /\ UNCHANGED <<declared, regs, cfg, val, calls, agreed>>

Root == EP!Rewrite /\ UNCHANGED <<triggers, hist>>

Next ==
  \/ \E c \in Caller : \/ Configuring(c) \/ applyWrite(c)
                       \/ \E r \in Requests : HandleRequest(c, r)
  \/ \E mask \in Inputs : SetInputs(mask)
  \/ DrainTriggers
  \/ Root

----------------------------------------------------------------------------
(* No reconfiguration, rollback or arithmetic write leaves a level on a    *)
(* pin that the endpoint's configuration does not have.                    *)
ValueOnPins == val \subseteq activeMask(cfg)

(* A client that reads the value after a configuration change and then     *)
(* follows the drained events knows the level of every pin whose trigger   *)
(* is enabled: the masks chain the reported values together with no edge   *)
(* missing, up to the current value.                                       *)
EventsTellEdges ==
  LET n == Len(triggers)
      before(i) == IF i = hist.old + 1 THEN hist.value ELSE triggers[i - 1].value
  IN  /\ \A i \in (hist.old + 1)..n :
           triggers[i].mask = symdiff(before(i), triggers[i].value) \cap cfg.trig
      /\ symdiff(before(n + 1), val) \cap cfg.trig = {}
=============================================================================
