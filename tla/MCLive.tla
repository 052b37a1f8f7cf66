------------------------------- MODULE MCLive -------------------------------
(***************************************************************************)
(* The components with something that must eventually happen, in one run:  *)
(* the power-state driver with one requester and two wakes of one and two  *)
(* repeats, and the wrappers and bridges that callers may wait for.        *)
(***************************************************************************)
EXTENDS MCComponents

VARIABLES declared, regs, cfg, val, agreed, triggers,
  pending, pumping, acking, relayed, changes, sent, acked, meant

power == <<declared, regs, cfg, val, agreed, triggers, pending, pumping, acking, relayed, changes, sent, acked, meant>>

config(n) == [enabled |-> TRUE, interval |-> 1, repeats |-> n]

PS == INSTANCE PowerState WITH Caller <- {"x"}, RootBlocks <- {}, Configs <- {config(1), config(2)},
  Targets <- {"Normal", "Sleep"}, MaxWakes <- 2

Unused ==
  /\ declared = 0 /\ regs = 0 /\ cfg = 0 /\ val = 0 /\ agreed = 0 /\ triggers = 0 /\ pending = 0
  /\ pumping = 0 /\ acking = 0 /\ relayed = 0 /\ changes = 0 /\ sent = 0 /\ acked = 0 /\ meant = 0

Init ==
  /\ kind \in Kinds
  /\ \/ kind = "power" /\ PS!Init /\ st = 0 /\ seen = 0
     \/ ComponentInit /\ Unused

Next ==
  \/ kind = "power" /\ PS!DriverNext /\ UNCHANGED <<kind, st, seen>>
  \/ ComponentNext /\ UNCHANGED <<kind, power>>

(* The application calls Pump again and again, and a transmission that is  *)
(* tried again and again succeeds.                                         *)
PowerFairness ==
  /\ WF_<<vars, power>>(when("power", PS!PumpDrain /\ UNCHANGED <<st, seen>>))
  /\ SF_<<vars, power>>(when("power", PS!PumpSend /\ UNCHANGED <<st, seen>>))

Spec == Init /\ [][Next]_<<vars, power>> /\ WrapperFairness /\ BridgeFairness /\ PowerFairness

----------------------------------------------------------------------------
(* The power-state driver loses nothing: the repeats of a wake go out in   *)
(* sequence until it is acknowledged, and Pump relays every change of the  *)
(* power state, in order.                                                  *)
DriverTellsAll == kind = "power" => PS!NoRepeatLost /\ PS!ChangesRelayed

(* Again and again there is no wake left that is neither announced nor     *)
(* acknowledged.                                                           *)
WakeAnnounced == []<>(kind = "power" => PS!allAnnounced)

(* Nobody waits for ever: Deregister and Close of a shared-memory pair     *)
(* return, as do the requests on the bus they closed; Close of an MQTT or  *)
(* DDS bridge returns, whatever is queued or on its way upstream; requests *)
(* on a closed SOME/IP controller end; and an mDNS query ends once its     *)
(* context is done.                                                        *)
ClosingEnds ==
  LET onBus(c) == calls[c].pc \in {"send", "wait"} /\ st.bus[calls[c].gen].closed
      waiting == \/ kind = "shmem" /\ (st.mu \/ \E c \in Callers : onBus(c))
                 \/ kind \in {"mqtt", "dds"} /\ st.bridge.close = "waiting"
                 \/ kind = "someip" /\ st.closed /\ \E c \in Callers : ~at(c, "idle")
                 \/ kind = "browse" /\ calls # "idle" /\ st.queries[Len(st.queries)].done
  IN waiting ~> ~waiting
=============================================================================
