-------------------------------- MODULE Pwm --------------------------------
(***************************************************************************)
(* The PWM endpoint (pwm/): an output whose waveform is combined with the  *)
(* applied one, driven on the transport and stored, each with the lock     *)
(* released in between; or an input that captures a waveform.              *)
(***************************************************************************)
EXTENDS Bodies

CONSTANTS Caller, RootBlocks, Configs, Requests, Captures, Saturate, MaxTriggers
VARIABLES declared, regs, cfg, val, calls, agreed, triggers, fitted, hist

RoleOutput == 0
Zero == [enabled |-> FALSE, role |-> RoleOutput, active |-> 0, period |-> 0]
flag(b) == IF b THEN 1 ELSE 0

EVTClassFor(role) == IF role = RoleOutput THEN "Arithmetic" ELSE "ConfigOnly"
Validate(c) ==
  c.enabled => c.role \in {0, 1} /\ (c.role = RoleOutput => c.active <= c.period)
EncodeConfig(c) == <<flag(c.enabled), c.role, c.active, c.period>>
DecodeConfig(b) == [enabled |-> b[1] # 0, role |-> b[2], active |-> b[3], period |-> b[4]]
Adopted(c, v) == v
Configured(c, v) == v

EP == INSTANCE Endpoint

(* val: the applied waveform and the signal captured, if any.              *)
(* hist: the waveform on the wire, and whether the last call that drove it *)
(* did so alone.                                                           *)
Init ==
  /\ EP!EndpointInit
  /\ val = [out |-> <<0, 0>>, captured |-> <<>>, lost |-> FALSE]
  /\ triggers = <<>> /\ fitted = FALSE
  /\ hist = [wire |-> <<0, 0>>, alone |-> TRUE]

SetOutputTransport ==
  /\ fitted' = ~fitted
  /\ UNCHANGED <<declared, regs, cfg, val, calls, agreed, triggers, hist>>

record(e) == Len(triggers) < MaxTriggers /\ triggers' = Append(triggers, e)

SetCapturedWaveform(w) ==
  /\ val' = [val EXCEPT !.captured = w, !.lost = FALSE]
  /\ record([kind |-> "CaptureUpdated", w |-> w])
  /\ UNCHANGED <<declared, regs, cfg, calls, agreed, fitted, hist>>

SetSignalLost ==
  /\ val' = [val EXCEPT !.lost = TRUE]
  /\ record([kind |-> "SignalLost", w |-> <<0, 0>>])
  /\ UNCHANGED <<declared, regs, cfg, calls, agreed, fitted, hist>>

(* The role is read after the access check and before the evt selector. *)
HandleRequest(c, r) ==
  /\ EP!Check(c, [pc |-> "role", req |-> r])
  /\ UNCHANGED <<triggers, fitted, hist>>

(* A read (of the applied or the captured waveform) ends here, unchanged. *)
Classify(c) ==
  LET r == calls[c].req
      d == EVTDisposition(EVTClassFor(cfg.role), r)
  IN  /\ calls[c].pc = "role"
      /\ calls' = EP!set(c,
           IF d.action = "configure" THEN [pc |-> "encode", req |-> r]
           ELSE IF d.action = "interface" /\ cfg.enabled /\ r.write /\ cfg.role = RoleOutput
             THEN [pc |-> "combine", op |-> d.op, w |-> r.body]
             ELSE EP!Idle)
      /\ UNCHANGED <<declared, regs, cfg, val, agreed, triggers, fitted, hist>>

applyWaveformOp(op, w) ==
  [i \in 1..2 |-> ApplyEVTWriteOp(op, w[i], val.out[i], Saturate)]

Combine(c) ==
  LET w == applyWaveformOp(calls[c].op, calls[c].w) IN
  /\ calls[c].pc = "combine"
  /\ calls' = EP!set(c, [pc |-> "drive", w |-> w])
  /\ UNCHANGED <<declared, regs, cfg, val, agreed, triggers, fitted, hist>>

(* Mutated form: a transport that fails does not end the call. *)
drive_Anyway(c) ==
  /\ calls' = EP!set(c, [calls[c] EXCEPT !.pc = "apply"])
  /\ hist' \in {hist, [wire |-> calls[c].w,
                       alone |-> \A d \in Caller : calls[d].pc # "apply"]}

drive(c) ==
  \/ /\ calls' = EP!set(c, [calls[c] EXCEPT !.pc = "apply"])
     /\ hist' = [wire |-> calls[c].w,
                 alone |-> \A d \in Caller : calls[d].pc # "apply"]
  \/ EP!returns(c) /\ UNCHANGED hist

(* Mutated form: the waveform is not validated. *)
applyOutputDrive_Unchecked(c) ==
  /\ calls[c].pc = "drive"
  /\ IF fitted THEN drive(c)
     ELSE /\ calls' = EP!set(c, [calls[c] EXCEPT !.pc = "apply"])
          /\ hist' = [hist EXCEPT !.alone = FALSE]
  /\ UNCHANGED <<declared, regs, cfg, val, agreed, triggers, fitted>>

(* applyOutput: the transport is read and driven, *)
applyOutputDrive(c) ==
  /\ calls[c].pc = "drive"
  /\ IF calls[c].w[1] > calls[c].w[2] THEN EP!returns(c) /\ UNCHANGED hist
     ELSE IF fitted THEN drive(c)
     ELSE /\ calls' = EP!set(c, [calls[c] EXCEPT !.pc = "apply"])
          /\ hist' = [hist EXCEPT !.alone = FALSE]
  /\ UNCHANGED <<declared, regs, cfg, val, agreed, triggers, fitted>>

(* and then the waveform is stored. *)
applyOutputStore(c) ==
  /\ calls[c].pc = "apply"
  /\ val' = [val EXCEPT !.out = calls[c].w]
  /\ record([kind |-> "OutputUpdated", w |-> calls[c].w])
  /\ EP!returns(c)
  /\ UNCHANGED <<declared, regs, cfg, agreed, fitted, hist>>

Configure(c) ==
  \/ \E new \in Configs : EP!ConfigureWrite(c, new)
  \/ EP!ConfigureStore(c,
       LET new == calls[c].new IN
       IF new.enabled /\ new.role = RoleOutput
         THEN [pc |-> "drive", w |-> <<new.active, new.period>>] ELSE EP!Idle)

Configuring(c) ==
  /\ Configure(c) \/ EP!ApplyConfigRequest(c)
  /\ UNCHANGED <<triggers, fitted, hist>>

DrainTriggers ==
  /\ triggers # <<>>
  /\ triggers' = <<>>
  /\ UNCHANGED <<declared, regs, cfg, val, calls, agreed, fitted, hist>>

Root == EP!Rewrite /\ UNCHANGED <<triggers, fitted, hist>>

Next ==
  \/ \E c \in Caller : \/ Configuring(c) \/ Classify(c) \/ Combine(c)
                       \/ applyOutputDrive(c) \/ applyOutputStore(c)
                       \/ \E r \in Requests : HandleRequest(c, r)
  \/ \E w \in Captures : SetCapturedWaveform(w) \/ SetSignalLost
  \/ SetOutputTransport
  \/ DrainTriggers
  \/ Root

----------------------------------------------------------------------------
(* Once a call has driven the output alone and stored the waveform, the    *)
(* waveform a read reports is the one on the wire, whatever calls failed   *)
(* in between, until two calls drive it at once or none is fitted to.      *)
AppliedIsOnTheWire ==
  hist.alone /\ (\A c \in Caller : calls[c].pc # "apply") => val.out = hist.wire

(* Neither the defaults nor any arithmetic on the two halves of the        *)
(* waveform puts on the wire, or stores, a pulse longer than its period.   *)
PulseWithinPeriod ==
  val.out[1] <= val.out[2] /\ hist.wire[1] <= hist.wire[2]
=============================================================================
