----------------------------- MODULE PowerState -----------------------------
(***************************************************************************)
(* The wake-up endpoint (wakeup/): the power state, and the events of its  *)
(* changes, among them the handshake repeats a wake queues up front.       *)
(***************************************************************************)
EXTENDS Integers, SequencesExt

CONSTANTS Caller, RootBlocks, Configs, Targets, MaxWakes
VARIABLES declared, regs, cfg, val, calls, agreed, triggers

PowerStates == {"Normal", "Sleep", "StandBy"}
Zero == [enabled |-> FALSE, interval |-> 0, repeats |-> 0]
Validate(c) == c.enabled => c.interval # 0 /\ c.repeats # 0
EncodeConfig(c) == <<IF c.enabled THEN 1 ELSE 0, c.interval, c.repeats>>
DecodeConfig(b) == [enabled |-> b[1] # 0, interval |-> b[2], repeats |-> b[3]]
Adopted(c, v) == v
Configured(c, v) == v

EP == INSTANCE Endpoint

(* val: the power state, retentionLost, and (history) the repeats each     *)
(* wake so far has queued.                                                 *)
WakeupInit ==
  /\ EP!EndpointInit
  /\ val = [state |-> "Normal", retentionLost |-> FALSE, wakes |-> <<>>]
  /\ triggers = <<>>

SetRetentionLost ==
  /\ val' = [val EXCEPT !.retentionLost = TRUE]
  /\ UNCHANGED <<declared, regs, cfg, calls, agreed, triggers>>

Configure(c) ==
  /\ \/ \E new \in Configs : EP!ConfigureWrite(c, new)
     \/ EP!ConfigureStore(c, EP!Idle)
  /\ UNCHANGED triggers

(* A read, and a request while disabled, change nothing. *)
HandleRequest(c, target) ==
  /\ EP!Check(c, [pc |-> "enabled", target |-> target])
  /\ UNCHANGED triggers

Enabled(c) ==
  /\ calls[c].pc = "enabled"
  /\ calls' = EP!set(c, IF cfg.enabled THEN [calls[c] EXCEPT !.pc = "transition"] ELSE EP!Idle)
  /\ UNCHANGED <<declared, regs, cfg, val, agreed, triggers>>

change(state) == [kind |-> "PowerStateChanged", state |-> state]
handshakes(wake, start) ==
  [i \in 1..cfg.repeats |-> [kind |-> "WakeHandshake", wake |-> wake, start |-> start, seq |-> i - 1]]

transitionTo(c) ==
  LET target == calls[c].target
      waking == val.state = "Sleep" /\ target = "Normal"
      start == IF val.retentionLost THEN "Cold" ELSE "Hot"
  IN  /\ calls[c].pc = "transition"
      /\ \/ /\ target \in PowerStates \ {val.state}
            /\ waking => Len(val.wakes) < MaxWakes
            /\ val' = [state |-> target, retentionLost |-> val.retentionLost /\ ~waking,
                       wakes |-> val.wakes \o IF waking THEN <<cfg.repeats>> ELSE <<>>]
            /\ triggers' = triggers \o <<change(target)>>
                             \o IF waking THEN handshakes(Len(val.wakes) + 1, start) ELSE <<>>
         \/ target \notin PowerStates \ {val.state} /\ UNCHANGED <<val, triggers>>
      /\ EP!returns(c)
      /\ UNCHANGED <<declared, regs, cfg, agreed>>

Next ==
  \/ SetRetentionLost
  \/ \E c \in Caller : \/ Configure(c) \/ Enabled(c) \/ transitionTo(c)
                       \/ \E target \in Targets : HandleRequest(c, target)
  \/ EP!Rewrite /\ UNCHANGED triggers

-----------------------------------------------------------------------------
(***************************************************************************)
(* powerstate.Driver: it drains the wake-up endpoint's events, relays the  *)
(* power-state changes and sends the handshake repeats one per Pump, until *)
(* Acknowledge.  Pump holds the driver's lock throughout; Acknowledge      *)
(* clears the endpoint's queue and the driver's in two steps.              *)
(***************************************************************************)
VARIABLES
  pending,     \* Driver.pending
  pumping,     \* Pump holds Driver.mu and has drained the endpoint
  acking,      \* an Acknowledge call is between its two steps
  relayed,     \* history: the changes Pump returned
  changes,     \* history: the changes made
  sent,        \* history: per wake, the sequence numbers sent
  acked,       \* history: wakes before the last Acknowledge that returned,
  meant        \* and before the last Acknowledge that was called

driverVars == <<pending, pumping, acking, relayed, sent, acked, meant>>
endpointVars == <<declared, regs, cfg, val, calls, agreed, triggers>>
vars == <<driverVars, endpointVars, changes>>

Init ==
  /\ WakeupInit
  /\ pending = <<>> /\ pumping = FALSE /\ acking = FALSE
  /\ relayed = <<>> /\ changes = <<>>
  /\ sent = [w \in 1..MaxWakes |-> <<>>]
  /\ acked = 0 /\ meant = 0

isHandshake(e) == e.kind = "WakeHandshake"
isChange(e) == e.kind = "PowerStateChanged"
statesOf(events) == [i \in DOMAIN events |-> events[i].state]

EndpointStep ==
  /\ Next
  /\ changes' = IF val'.state = val.state THEN changes ELSE Append(changes, val'.state)
  /\ UNCHANGED driverVars

(* Mutated form: Pump returns when the endpoint has no event. *)
PumpDrain_OnlyNew ==
  /\ ~pumping
  /\ triggers # <<>>
  /\ pending' = pending \o SelectSeq(triggers, isHandshake)
  /\ relayed' = relayed \o statesOf(SelectSeq(triggers, isChange))
  /\ triggers' = <<>>
  /\ pumping' = (pending' # <<>>)
  /\ UNCHANGED <<declared, regs, cfg, val, calls, agreed, acking, changes, sent, acked, meant>>

(* Pump drains the endpoint; with nothing to send it returns. *)
PumpDrain ==
  /\ ~pumping
  /\ triggers # <<>> \/ pending # <<>>
  /\ pending' = pending \o SelectSeq(triggers, isHandshake)
  /\ relayed' = relayed \o statesOf(SelectSeq(triggers, isChange))
  /\ triggers' = <<>>
  /\ pumping' = (pending' # <<>>)
  /\ UNCHANGED <<declared, regs, cfg, val, calls, agreed, acking, changes, sent, acked, meant>>

(* Mutated form: a repeat whose transmission fails is dropped. *)
PumpFail_Drop ==
  /\ pumping
  /\ pending' = Tail(pending)
  /\ pumping' = FALSE
  /\ UNCHANGED <<endpointVars, acking, relayed, changes, sent, acked, meant>>

PumpFail ==
  /\ pumping
  /\ pumping' = FALSE
  /\ UNCHANGED <<endpointVars, pending, acking, relayed, changes, sent, acked, meant>>

PumpSend ==
  /\ pumping
  /\ sent' = [sent EXCEPT ![pending[1].wake] = Append(@, pending[1].seq)]
  /\ pending' = Tail(pending)
  /\ pumping' = FALSE
  /\ UNCHANGED <<endpointVars, acking, relayed, changes, acked, meant>>

(* Mutated form: every queued event is discarded. *)
AcknowledgeWake_All ==
  /\ ~acking
  /\ triggers' = <<>>
  /\ acking' = TRUE
  /\ meant' = Len(val.wakes)
  /\ UNCHANGED <<declared, regs, cfg, val, calls, agreed, pending, pumping, relayed, changes, sent, acked>>

(* Acknowledge, first the endpoint's AcknowledgeWake, *)
AcknowledgeWake ==
  /\ ~acking
  /\ triggers' = SelectSeq(triggers, isChange)
  /\ acking' = TRUE
  /\ meant' = Len(val.wakes)
  /\ UNCHANGED <<declared, regs, cfg, val, calls, agreed, pending, pumping, relayed, changes, sent, acked>>

(* then the driver's own queue. *)
AcknowledgeDriver ==
  /\ acking /\ ~pumping
  /\ pending' = <<>>
  /\ acking' = FALSE
  /\ acked' = Len(val.wakes)
  /\ UNCHANGED <<endpointVars, pumping, relayed, changes, sent, meant>>

DriverNext ==
  \/ EndpointStep \/ PumpDrain \/ PumpSend \/ PumpFail \/ AcknowledgeWake \/ AcknowledgeDriver

(* The driver's owner keeps calling Pump, and a transmission that is tried *)
(* again and again succeeds at last.                                       *)
Spec == Init /\ [][DriverNext]_vars /\ WF_vars(PumpDrain) /\ SF_vars(PumpSend)

----------------------------------------------------------------------------
queued(w) == SelectSeq(pending \o SelectSeq(triggers, isHandshake), LAMBDA h : h.wake = w)

(* The repeats of a wake go out in sequence, none skipped and none twice,  *)
(* whatever transmissions fail; and, of a wake that no Acknowledge has     *)
(* followed or overlapped, those sent and those queued are all of them.    *)
NoRepeatLost ==
  \A w \in DOMAIN val.wakes :
    /\ sent[w] = [i \in 1..Len(sent[w]) |-> i - 1]
    /\ LET q == queued(w) IN
         /\ \A i \in DOMAIN q : q[i].seq = Len(sent[w]) + i - 1
         /\ w > acked /\ w > meant => Len(sent[w]) + Len(q) = val.wakes[w]

(* Every power-state change is relayed once and in order: those relayed,   *)
(* followed by those queued, are the changes made, and neither Acknowledge *)
(* nor a transmission that fails loses one.                                *)
ChangesRelayed == relayed \o statesOf(SelectSeq(triggers, isChange)) = changes

(* A wake is announced: unless it is acknowledged, every repeat queued for *)
(* it is sent in the end.                                                  *)
announced(w) == meant >= w \/ acked >= w \/ (sent[w] # <<>> /\ queued(w) = <<>>)
allAnnounced == \A w \in DOMAIN val.wakes : announced(w)
WakeAnnounced == []<>allAnnounced
=============================================================================
