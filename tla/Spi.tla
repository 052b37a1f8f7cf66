-------------------------------- MODULE Spi --------------------------------
(***************************************************************************)
(* The SPI endpoint (spi/): channels with a configuration each, transfers  *)
(* bracketed by chip-select events, and SetChannelConfig, which replaces   *)
(* one channel in a copy of the whole configuration.                       *)
(***************************************************************************)
EXTENDS Bodies

CONSTANTS Caller, RootBlocks, Channels, ChannelConfigs, Requests, MaxTriggers
VARIABLES declared, regs, cfg, val, calls, agreed, triggers, fitted, hist

Off == [enabled |-> FALSE, clock |-> 0, mode |-> 0]
Zero == [ch \in Channels |-> Off]
flag(b) == IF b THEN 1 ELSE 0

(* The inter-transfer delay is stored like the clock and never read. *)
Validate(c) == \A ch \in Channels : c[ch].enabled => c[ch].clock # 0 /\ c[ch].mode \in 0..3
encodeChannelConfig(k) == <<flag(k.enabled), k.clock, k.mode>>
decodeChannelConfig(b) == [enabled |-> b[1] # 0, clock |-> b[2], mode |-> b[3]]
EncodeConfig(c) ==
  [i \in 1..(3 * Cardinality(Channels)) |->
     encodeChannelConfig(c[(i - 1) \div 3])[((i - 1) % 3) + 1]]
DecodeConfig(b) == [ch \in Channels |-> decodeChannelConfig(SubSeq(b, 3 * ch + 1, 3 * ch + 3))]
Adopted(c, v) == v
Configured(c, v) == v

EP == INSTANCE Endpoint WITH Configs <- {}

(* hist: per channel, the chip-select edges drained so far, added up. *)
Init ==
  /\ EP!EndpointInit
  /\ val = 0 /\ triggers = <<>> /\ fitted = [ch \in Channels |-> FALSE]
  /\ hist = [ch \in Channels |-> 0]

(* Mutated form: the other channels start from the zero value. *)
SetChannelConfigCopy_Fresh(c, ch, cc) ==
  /\ calls[c] = EP!Idle
  /\ EP!begins(c, [pc |-> "store", at |-> "copied", new |-> [Zero EXCEPT ![ch] = cc],
                   channel |-> ch, clean |-> TRUE])
  /\ UNCHANGED <<declared, regs, cfg, val, triggers, fitted, hist>>

(* SetChannelConfig: the copy with the channel replaced, *)
SetChannelConfigCopy(c, ch, cc) ==
  /\ calls[c] = EP!Idle
  /\ EP!begins(c, [pc |-> "store", at |-> "copied", new |-> [cfg EXCEPT ![ch] = cc],
                   channel |-> ch, clean |-> TRUE])
  /\ UNCHANGED <<declared, regs, cfg, val, triggers, fitted, hist>>

(* then Validate and the register map, *)
SetChannelConfigWrite(c) ==
  /\ calls[c].pc = "store" /\ calls[c].at = "copied"
  /\ IF Validate(calls[c].new) /\ declared
       THEN /\ regs' = EncodeConfig(calls[c].new)
            /\ calls' = [calls EXCEPT ![c].at = "written"]
       ELSE EP!returns(c) /\ UNCHANGED regs
  /\ UNCHANGED <<declared, cfg, val, agreed, triggers, fitted, hist>>

(* and the whole copy is stored. *)
SetChannelConfigStore(c) ==
  /\ calls[c].pc = "store" /\ calls[c].at = "written"
  /\ EP!ConfigureStore(c, EP!Idle)
  /\ UNCHANGED <<triggers, fitted, hist>>

SetTransport(ch) ==
  /\ fitted' = [fitted EXCEPT ![ch] = ~@]
  /\ UNCHANGED <<declared, regs, cfg, val, calls, agreed, triggers, hist>>

HandleRequest(c, r) ==
  LET d == EVTDisposition("ChannelSelect", r) IN
  /\ d.action # "error"
  /\ d.action = "configure" \/ r.write
  /\ EP!Check(c, IF d.action = "configure" THEN [pc |-> "encode", req |-> r]
                 ELSE [pc |-> "transfer", channel |-> d.channel, n |-> Len(r.body)])
  /\ UNCHANGED <<triggers, fitted, hist>>

transferBegin(c) ==
  LET ch == calls[c].channel IN
  /\ calls[c].pc = "transfer"
  /\ calls' = EP!set(c, IF cfg[ch].enabled
                          THEN [pc |-> "select", channel |-> ch, n |-> calls[c].n, fitted |-> fitted[ch]]
                          ELSE EP!Idle)
  /\ UNCHANGED <<declared, regs, cfg, val, agreed, triggers, fitted, hist>>

recordTrigger(kind, ch) ==
  /\ Len(triggers) < MaxTriggers
  /\ triggers' = Append(triggers, [kind |-> kind, channel |-> ch])
  /\ UNCHANGED <<declared, regs, cfg, val, agreed, fitted, hist>>

transferSelect(c) ==
  /\ calls[c].pc = "select"
  /\ recordTrigger("asserted", calls[c].channel)
  /\ calls' = [calls EXCEPT ![c].pc = "exchange"]

(* Mutated form: a transfer that fails returns at once. *)
transferExchange_Return(c) ==
  /\ calls[c].pc = "exchange"
  /\ \/ calls' = [calls EXCEPT ![c].pc = "deselect"]
     \/ calls[c].fitted /\ EP!returns(c)
  /\ UNCHANGED <<declared, regs, cfg, val, agreed, triggers, fitted, hist>>

(* The transport answers or fails; with none fitted the bytes come back. *)
transferExchange(c) ==
  /\ calls[c].pc = "exchange"
  /\ \/ calls' = [calls EXCEPT ![c].pc = "deselect"]
     \/ calls[c].fitted /\ calls' = [calls EXCEPT ![c].pc = "failed"]
  /\ UNCHANGED <<declared, regs, cfg, val, agreed, triggers, fitted, hist>>

transferDeselect(c) ==
  /\ calls[c].pc \in {"deselect", "failed"}
  /\ recordTrigger("released", calls[c].channel)
  /\ calls' = EP!set(c, IF calls[c].pc = "failed" THEN EP!Idle
                                                  ELSE [calls[c] EXCEPT !.pc = "complete"])

transferComplete(c) ==
  /\ calls[c].pc = "complete"
  /\ recordTrigger("complete", calls[c].channel)
  /\ EP!returns(c)

Configuring(c) ==
  /\ EP!ApplyConfigRequest(c)
  /\ UNCHANGED <<triggers, fitted, hist>>

edges(ch) ==
  MapThenSumSet(LAMBDA i : IF triggers[i].channel # ch THEN 0
                           ELSE CASE triggers[i].kind = "asserted" -> 1
                                  [] triggers[i].kind = "released" -> -1
                                  [] OTHER -> 0, DOMAIN triggers)

DrainTriggers ==
  /\ triggers # <<>>
  /\ triggers' = <<>>
  /\ hist' = [ch \in Channels |-> hist[ch] + edges(ch)]
  /\ UNCHANGED <<declared, regs, cfg, val, calls, agreed, fitted>>

Root == EP!Rewrite /\ UNCHANGED <<triggers, fitted, hist>>

Next ==
  \/ \E c \in Caller :
       \/ Configuring(c) \/ SetChannelConfigWrite(c) \/ SetChannelConfigStore(c)
       \/ transferBegin(c) \/ transferSelect(c) \/ transferExchange(c)
       \/ transferDeselect(c) \/ transferComplete(c)
       \/ \E r \in Requests : HandleRequest(c, r)
       \/ \E ch \in Channels, cc \in ChannelConfigs : SetChannelConfigCopy(c, ch, cc)
  \/ \E ch \in Channels : SetTransport(ch)
  \/ DrainTriggers
  \/ Root

----------------------------------------------------------------------------
(* A follower of the chip-select events sees a channel selected exactly as *)
(* often as transfers on it are between their two edges, however transfers *)
(* interleave, fail or are caught by a reconfiguration.                    *)
SelectsBalanced ==
  \A ch \in Channels :
    hist[ch] + edges(ch) =
      Cardinality({c \in Caller : /\ calls[c].pc \in {"exchange", "deselect", "failed"}
                                  /\ calls[c].channel = ch})

(* A SetChannelConfig that no other change overlapped leaves every channel *)
(* but its own as it was.                                                  *)
OneChannelChanges ==
  \A c \in Caller :
    calls[c].pc = "store" /\ calls'[c] = EP!Idle /\ calls[c].clean
      => \A ch \in Channels \ {calls[c].channel} : cfg'[ch] = cfg[ch]
=============================================================================
