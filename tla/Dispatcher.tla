---------------------------- MODULE Dispatcher ----------------------------
(***************************************************************************)
(* request.Dispatcher: the request-lifecycle state machine of one RC       *)
(* endpoint.  Every exported method holds d.mu from entry to return, so a  *)
(* method is one atomic action, except Pump: Pump calls the endpoint's     *)
(* Handler and the SafeStateCheck, code of other components that run       *)
(* concurrently, so Pump is the sequence PumpBegin, one Execute step per   *)
(* ready ticket, HandlerReturns, PumpEnd, with the lock (pumping) held     *)
(* throughout.                                                             *)
(*                                                                         *)
(* Abstracted: request payloads and responses (a ticket keeps which        *)
(* outcome it got), the byte layout of the envelopes (request `ok` says    *)
(* whether the body decodes).  `calls` is a history field: how often the   *)
(* ticket's request reached the endpoint.  `opened` is a history variable: *)
(* the streams whose SafeStateCheck said yes in the current Pump.  The    *)
(* checks and TriggerPump calls of one Pump are taken at one instant.      *)
(***************************************************************************)
EXTENDS Integers, FiniteSets, Sequences

CONSTANTS
  Stream,      \* avtp.StreamID of the requesters
  Source,      \* ByteBusIDs of endpoints that can raise trigger events
  SeqId,       \* SequencerID registers
  Txn,         \* avtp.TransactionNum
  Requests,    \* the requests clients submit
  Admitted,    \* the streams AccessCheck admits
  MaxTicket,   \* bound: tickets ever submitted
  MaxNow,      \* bound: the caller-supplied clock
  MaxEvents,   \* bound: trigger events queued at one source
  MaxSeq       \* stands for math.MaxUint32, where registers saturate

Cancellations == {"CancelAll", "CancelTransaction", "CancelSequencer"}

BaseKind == {"Plain", "Compound", "CompoundWait", "Triggered", "Chained",
             "Timed"} \cup Cancellations

CompareOp == {"==", "!=", "<", "<=", ">", ">="}

State == {"Queued", "Started", "Executing", "Finalized"}

Outcome == {"none", "ok", "unmatched", "handlerError", "segmentFailed",
            "ticketCancelled", "purgedByWatchdog"}

(* An inbound acf.Message as the Dispatcher reads it: `envelope` is KindLong *)
(* with MTV false, base/safety the envelope's leading byte, the rest the     *)
(* fields the kind-specific decoders extract.                                *)
Request ==
  [envelope : BOOLEAN, ok : BOOLEAN, base : BaseKind, safety : BOOLEAN,
   txn : Txn, seq : SeqId, op : CompareOp, operand : 0..MaxSeq,
   advance : Int, src : Source, at : Nat, segs : Nat \ {0}, target : Txn]

Ticket == [from : Stream, req : Request, state : State, out : Outcome,
           calls : Nat]

ASSUME DispatcherAssumption ==
  /\ Requests \subseteq Request
  /\ Admitted \subseteq Stream
  /\ MaxTicket \in Nat
  /\ MaxNow \in Nat
  /\ MaxEvents \in Nat
  /\ MaxSeq \in Nat

VARIABLES
  tickets,    \* Dispatcher.tickets: TicketID -> ticket, the live ones only
  order,      \* Dispatcher.order: live TicketIDs in arrival order
  nextID,     \* Dispatcher.nextID
  safeState,  \* is a SafeStateCheck configured (Dispatcher.safeState # nil)
  pumps,      \* the sources with a registered TriggerPump
  seq,        \* the Sequencer bank
  now,        \* the latest clock value passed to Pump
  pumping,    \* a Pump call holds d.mu
  batch,      \* Pump's ready tickets not yet visited
  cur,        \* the ticket whose Handler call is in progress
  opened,     \* history: streams seen in safe state by this Pump
  inSafe,     \* environment: what the SafeStateCheck would answer now
  events      \* environment: trigger events queued at each source

dispatcherVars == <<tickets, order, nextID, safeState, pumps>>
pumpVars == <<pumping, batch, cur, opened>>
vars == <<dispatcherVars, pumpVars, seq, now, inSafe, events>>

NoTicket == -1

---------------------------------------------------------------------------
(* Kinds *)

(* Kind.Valid: only three kinds have a safety variant, and Plain is never *)
(* on the wire.                                                           *)
Valid(r) ==
  IF r.safety THEN r.base \in {"Compound", "CompoundWait", "Triggered"}
              ELSE r.base # "Plain"

IsCancellation(r) == r.base \in Cancellations

priorityRank ==
  [b \in BaseKind |->
     CASE b \in Cancellations  -> 0
       [] b = "Triggered"      -> 1
       [] b = "Timed"          -> 2
       [] b = "Compound"       -> 3
       [] b = "CompoundWait"   -> 4
       [] b = "Chained"        -> 5
       [] b = "Plain"          -> 6]

Evaluate(op, current, operand) ==
  CASE op = "==" -> current = operand
    [] op = "!=" -> current # operand
    [] op = "<"  -> current < operand
    [] op = "<=" -> current <= operand
    [] op = ">"  -> current > operand
    [] op = ">=" -> current >= operand

(* Mutated form: plain addition. *)
saturatingAdd_Unclamped(current, delta) == current + delta

saturatingAdd(current, delta) ==
  LET sum == current + delta IN
  IF sum > MaxSeq THEN MaxSeq ELSE IF sum < 0 THEN 0 ELSE sum

---------------------------------------------------------------------------
Init ==
  /\ tickets = [id \in {} |-> {}]
  /\ order = <<>>
  /\ nextID = 0
  /\ safeState = FALSE
  /\ pumps = {}
  /\ seq = [s \in SeqId |-> 0]
  /\ now = 0
  /\ pumping = FALSE
  /\ batch = {}
  /\ cur = NoTicket
  /\ opened = {}
  /\ inSafe \in [Stream -> BOOLEAN]
  /\ events = [s \in Source |-> 0]

---------------------------------------------------------------------------
(* Exported methods other than Pump; each needs d.mu, hence ~pumping. *)

RegisterTriggerSource(s) ==
  /\ ~pumping
  /\ pumps' = pumps \cup {s}
  /\ UNCHANGED <<tickets, order, nextID, safeState, pumpVars, seq, now,
                 inSafe, events>>

(* check is nil (FALSE) or non-nil (TRUE). *)
SetSafeStateCheck(check) ==
  /\ ~pumping
  /\ safeState' = check
  /\ UNCHANGED <<tickets, order, nextID, pumps, pumpVars, seq, now, inSafe,
                 events>>

(* isConditionalEnvelope and decodeInto: a message that is no conditional *)
(* envelope is a Plain request whatever its body's first byte is.         *)
Decoded(r) ==
  IF r.envelope THEN r ELSE [r EXCEPT !.base = "Plain", !.safety = FALSE]

Decodes(r) == ~r.envelope \/ (r.ok /\ Valid(r))

(* Submit's early returns: AccessCheck, decode errors, and a safety kind *)
(* without a configured SafeStateCheck.                                  *)
Admissible(x, r) ==
  /\ x \in Admitted
  /\ Decodes(r)
  /\ Decoded(r).safety => safeState

Submit(x, r) ==
  /\ ~pumping
  /\ nextID < MaxTicket
  /\ IF Admissible(x, r)
       THEN /\ tickets' = [id \in DOMAIN tickets \cup {nextID} |->
                 IF id = nextID
                   THEN [from |-> x, req |-> Decoded(r), state |-> "Queued",
                         out |-> "none", calls |-> 0]
                   ELSE tickets[id]]
            /\ order' = Append(order, nextID)
            /\ nextID' = nextID + 1
       ELSE UNCHANGED <<tickets, order, nextID>>
  /\ UNCHANGED <<safeState, pumps, pumpVars, seq, now, inSafe, events>>

(* order without its element at position i *)
Without(s, i) ==
  [j \in 1..(Len(s) - 1) |-> IF j < i THEN s[j] ELSE s[j + 1]]

(* Mutated form: Forget deletes the map entry only. *)
Forget_KeepsOrder(id) ==
  /\ ~pumping
  /\ tickets[id].state = "Finalized"
  /\ tickets' = [k \in DOMAIN tickets \ {id} |-> tickets[k]]
  /\ UNCHANGED <<order, nextID, safeState, pumps, pumpVars, seq, now, inSafe,
                 events>>

(* Forget is a no-op on a ticket that is not finalized. *)
Forget(id) ==
  /\ ~pumping
  /\ tickets[id].state = "Finalized"
  /\ tickets' = [k \in DOMAIN tickets \ {id} |-> tickets[k]]
  /\ \E i \in 1..Len(order) :
       /\ order[i] = id
       /\ order' = Without(order, i)
  /\ UNCHANGED <<nextID, safeState, pumps, pumpVars, seq, now, inSafe,
                 events>>

(* Mutated form: finalized tickets are finalized again. *)
finalizeWhere_Again(match, err) ==
  [id \in DOMAIN tickets |->
     IF id \in match
       THEN [tickets[id] EXCEPT !.state = "Finalized", !.out = err]
       ELSE tickets[id]]

(* finalizeWhereLocked(err, match) on the ticket table: match is the set of *)
(* TicketIDs its predicate selects.                                         *)
finalizeWhere(match, err) ==
  [id \in DOMAIN tickets |->
     IF id \in match /\ tickets[id].state # "Finalized"
       THEN [tickets[id] EXCEPT !.state = "Finalized", !.out = err]
       ELSE tickets[id]]

PurgeNonSafety ==
  /\ ~pumping
  /\ tickets' = finalizeWhere({id \in DOMAIN tickets : ~tickets[id].req.safety},
                              "purgedByWatchdog")
  /\ UNCHANGED <<order, nextID, safeState, pumps, pumpVars, seq, now, inSafe,
                 events>>

---------------------------------------------------------------------------
(* Pump *)

(* The state Pump's first loop leaves a ticket in. *)
startedState(id) ==
  IF tickets[id].state = "Queued" THEN "Started" ELSE tickets[id].state

safeStateReady(x) == safeState /\ inSafe[x]

isTriggeredOn(id, s) ==
  /\ startedState(id) = "Started"
  /\ tickets[id].req.base = "Triggered"
  /\ tickets[id].req.src = s

(* available[s] after the pump of s, if one is registered, was called. *)
available(s) == IF s \in pumps THEN events[s] ELSE 0

(* Mutated form: the safe-state gate is missing. *)
passesGate_Open(id) == startedState(id) = "Started"

passesGate(id) ==
  /\ startedState(id) = "Started"
  /\ tickets[id].req.safety => safeStateReady(tickets[id].from)

arrivedBefore(j, id) ==
  \E a, b \in 1..Len(order) : a < b /\ order[a] = j /\ order[b] = id

(* The readiness switch.  A Triggered ticket takes one available event of   *)
(* its source, oldest ticket first: it is ready when fewer tickets ahead of *)
(* it compete for that source than there are events.                        *)
isReady(id, t) ==
  /\ passesGate(id)
  /\ CASE tickets[id].req.base = "Triggered" ->
            LET s == tickets[id].req.src
                ahead == {j \in DOMAIN tickets :
                            /\ isTriggeredOn(j, s)
                            /\ passesGate(j)
                            /\ arrivedBefore(j, id)}
            IN  Cardinality(ahead) < available(s)
       [] tickets[id].req.base = "Timed" -> t >= tickets[id].req.at
       [] OTHER -> TRUE

(* Pump up to its execution loop: start, drain the trigger sources of the *)
(* started Triggered tickets, collect the ready tickets.                  *)
PumpBegin(t) ==
  /\ ~pumping
  /\ t >= now
  /\ now' = t
  /\ pumping' = TRUE
  /\ tickets' = [id \in DOMAIN tickets |->
                   [tickets[id] EXCEPT !.state = startedState(id)]]
  /\ batch' = {id \in DOMAIN tickets : isReady(id, t)}
  /\ opened' = {x \in Stream : safeStateReady(x)}
  /\ events' = [s \in Source |->
                  IF s \in pumps /\ \E id \in DOMAIN tickets : isTriggeredOn(id, s)
                    THEN 0 ELSE events[s]]
  /\ UNCHANGED <<order, nextID, safeState, pumps, cur, seq, inSafe>>

(* Mutated form: the sort is not stable. *)
isFirst_Unstable(id) ==
  /\ id \in batch
  /\ \A j \in batch : priorityRank[tickets[id].req.base]
                       <= priorityRank[tickets[j].req.base]

(* The ticket the stable sort by Kind.Priority puts first in what is left *)
(* of the batch.                                                          *)
isFirst(id) ==
  /\ id \in batch
  /\ \A j \in batch :
       LET rj == priorityRank[tickets[j].req.base]
           ri == priorityRank[tickets[id].req.base]
       IN  ri < rj \/ (ri = rj /\ ~arrivedBefore(j, id))

(* Mutated form: the loop index does not advance. *)
visit_Again(id) ==
  /\ pumping
  /\ cur = NoTicket
  /\ isFirst(id)
  /\ UNCHANGED <<order, nextID, safeState, pumps, now, pumping, batch, opened,
                 inSafe, events>>

(* What every iteration of the execution loop shares: the lock is held, no *)
(* Handler call is in progress, id is next.                                *)
visit(id) ==
  /\ pumping
  /\ cur = NoTicket
  /\ isFirst(id)
  /\ batch' = batch \ {id}
  /\ UNCHANGED <<order, nextID, safeState, pumps, now, pumping, opened,
                 inSafe, events>>

(* Already cleared by a cancellation earlier in this batch. *)
SkipFinalized(id) ==
  /\ visit(id)
  /\ tickets[id].state = "Finalized"
  /\ UNCHANGED <<tickets, cur, seq>>

callHandler(id) ==
  /\ tickets' = [tickets EXCEPT ![id].state = "Executing", ![id].calls = 1]
  /\ cur' = id

finalizeTicket(id, out) ==
  /\ tickets' = [tickets EXCEPT ![id].state = "Finalized", ![id].out = out]
  /\ UNCHANGED cur

(* Mutated form: a cancelled ticket of the batch is executed all the same. *)
ExecuteInner_Cancelled(id) ==
  /\ visit(id)
  /\ tickets[id].req.base \in {"Plain", "Triggered", "Timed", "Chained"}
  /\ callHandler(id)
  /\ UNCHANGED seq

(* Plain, Triggered, Timed, and the first segment of Chained. *)
ExecuteInner(id) ==
  /\ visit(id)
  /\ tickets[id].state # "Finalized"
  /\ tickets[id].req.base \in {"Plain", "Triggered", "Timed", "Chained"}
  /\ callHandler(id)
  /\ UNCHANGED seq

conditionHolds(r) == Evaluate(r.op, seq[r.seq], r.operand)

(* Conditional.evaluate, then the Handler call if the condition matched.  *)
(* The Sequencer is this Dispatcher's own, so d.mu keeps Get and Advance  *)
(* together; a bank that several Dispatchers share is not modelled.       *)
ExecuteCompound(id) ==
  LET r == tickets[id].req IN
  /\ visit(id)
  /\ tickets[id].state # "Finalized"
  /\ r.base = "Compound"
  /\ IF conditionHolds(r)
       THEN /\ seq' = [seq EXCEPT ![r.seq] = saturatingAdd(seq[r.seq], r.advance)]
            /\ callHandler(id)
       ELSE /\ finalizeTicket(id, "unmatched")
            /\ UNCHANGED seq

ExecuteCompoundWait(id) ==
  LET r == tickets[id].req IN
  /\ visit(id)
  /\ tickets[id].state # "Finalized"
  /\ r.base = "CompoundWait"
  /\ IF conditionHolds(r)
       THEN /\ seq' = [seq EXCEPT ![r.seq] = saturatingAdd(seq[r.seq], r.advance)]
            /\ finalizeTicket(id, "ok")
       ELSE /\ finalizeTicket(id, "unmatched")
            /\ UNCHANGED seq

(* The tickets a cancellation request selects.  CancelSequencer compares the *)
(* undecorated Kind, so it passes over the safety variants.                  *)
cancelMatch(id) ==
  LET r == tickets[id].req IN
  {j \in DOMAIN tickets :
     /\ j # id
     /\ CASE r.base = "CancelAll" -> TRUE
          [] r.base = "CancelTransaction" -> tickets[j].req.txn = r.target
          [] r.base = "CancelSequencer" ->
               /\ tickets[j].req.base \in {"Compound", "CompoundWait"}
               /\ ~tickets[j].req.safety
               /\ tickets[j].req.seq = r.seq}

ExecuteCancel(id) ==
  /\ visit(id)
  /\ tickets[id].state # "Finalized"
  /\ IsCancellation(tickets[id].req)
  /\ tickets' = [finalizeWhere(cancelMatch(id), "ticketCancelled")
                   EXCEPT ![id].state = "Finalized", ![id].out = "ok"]
  /\ UNCHANGED <<cur, seq>>

(* The Handler call in progress returns, with an error unless ok.  A Chained *)
(* ticket goes on to its next segment, and stops at the first failed one.    *)
HandlerReturns(ok) ==
  LET t == tickets[cur] IN
  /\ cur # NoTicket
  /\ IF t.req.base = "Chained" /\ ok /\ t.calls < t.req.segs
       THEN /\ tickets' = [tickets EXCEPT ![cur].calls = t.calls + 1]
            /\ UNCHANGED cur
       ELSE /\ tickets' = [tickets EXCEPT
                 ![cur].state = "Finalized",
                 ![cur].out = IF ok THEN "ok"
                              ELSE IF t.req.base = "Chained" THEN "segmentFailed"
                              ELSE "handlerError"]
            /\ cur' = NoTicket
  /\ UNCHANGED <<order, nextID, safeState, pumps, pumping, batch, opened, seq,
                 now, inSafe, events>>

PumpEnd ==
  /\ pumping
  /\ batch = {}
  /\ cur = NoTicket
  /\ pumping' = FALSE
  /\ opened' = {}
  /\ UNCHANGED <<dispatcherVars, batch, cur, seq, now, inSafe, events>>

---------------------------------------------------------------------------
(* The environment: what e2e.Supervisor answers for a stream changes, and *)
(* another endpoint queues a trigger event.  Neither takes d.mu.          *)

SafeStateChanges ==
  /\ inSafe' \in [Stream -> BOOLEAN]
  /\ UNCHANGED <<dispatcherVars, pumpVars, seq, now, events>>

TriggerRaised(s) ==
  /\ events[s] < MaxEvents
  /\ events' = [events EXCEPT ![s] = events[s] + 1]
  /\ UNCHANGED <<dispatcherVars, pumpVars, seq, now, inSafe>>

PumpStep ==
  \/ \E id \in batch : \/ SkipFinalized(id)
                       \/ ExecuteInner(id)
                       \/ ExecuteCompound(id)
                       \/ ExecuteCompoundWait(id)
                       \/ ExecuteCancel(id)
  \/ \E ok \in BOOLEAN : HandlerReturns(ok)
  \/ PumpEnd

Next ==
  \/ \E s \in Source : RegisterTriggerSource(s)
  \/ \E check \in BOOLEAN : SetSafeStateCheck(check)
  \/ \E x \in Stream, r \in Requests : Submit(x, r)
  \/ \E id \in DOMAIN tickets : Forget(id)
  \/ PurgeNonSafety
  \/ \E t \in 0..MaxNow : PumpBegin(t)
  \/ PumpStep
  \/ SafeStateChanges
  \/ \E s \in Source : TriggerRaised(s)

Spec == Init /\ [][Next]_vars

(* Pump's own steps run without waiting for anyone: the goroutine holding *)
(* d.mu is scheduled, and the Handler call it makes returns.              *)
FairSpec == Spec /\ WF_vars(PumpStep)

---------------------------------------------------------------------------
(* Type invariant. *)
TypeOK ==
  /\ DOMAIN tickets \subseteq 0..(nextID - 1)
  /\ tickets \in [DOMAIN tickets -> Ticket]
  /\ order \in Seq(Nat)
  /\ nextID \in Nat
  /\ safeState \in BOOLEAN
  /\ pumps \subseteq Source
  /\ seq \in [SeqId -> 0..MaxSeq]
  /\ now \in 0..MaxNow
  /\ pumping \in BOOLEAN
  /\ batch \subseteq DOMAIN tickets
  /\ cur \in DOMAIN tickets \cup {NoTicket}
  /\ opened \subseteq Stream
  /\ inSafe \in [Stream -> BOOLEAN]
  /\ events \in [Source -> Nat]

(* The order slice and the tickets map never disagree, and order is strictly *)
(* increasing: every loop of Pump, Pending and finalizeWhereLocked           *)
(* dereferences d.tickets[id] for each id of order without a nil check, and  *)
(* arrival order is what breaks ties in Pump.                                *)
OrderMatchesTickets ==
  /\ {order[i] : i \in 1..Len(order)} = DOMAIN tickets
  /\ \A i, j \in 1..Len(order) : i < j => order[i] < order[j]

(* The kinds whose base readiness is immediate, not gated on safe state. *)
alwaysReady(id) ==
  /\ ~tickets[id].req.safety
  /\ tickets[id].req.base \notin {"Triggered", "Timed"}

(* While the endpoint executes a ticket, no started ticket that needed no   *)
(* event, time or safe state is left behind with a better priority, or with *)
(* the same priority and an earlier arrival (priorityRank, "a pending       *)
(* cancellation must retire the requests it targets before any of them is   *)
(* allowed to execute").  It spans Pump calls: whatever was submitted       *)
(* before this Pump is in its batch.                                        *)
PriorityHeld ==
  cur # NoTicket =>
    \A j \in DOMAIN tickets :
      alwaysReady(j) /\ tickets[j].state \in {"Queued", "Started"} =>
        LET rj == priorityRank[tickets[j].req.base]
            rc == priorityRank[tickets[cur].req.base]
        IN  rc < rj \/ (rc = rj /\ cur < j)

callsMatchOutcome(t) ==
  LET most == IF t.req.base = "Chained" THEN t.req.segs ELSE 1
      silent == IsCancellation(t.req) \/ t.req.base = "CompoundWait"
  IN  /\ t.state \in {"Queued", "Started"} => t.calls = 0 /\ t.out = "none"
      /\ t.state = "Executing" => t.calls \in 1..most /\ t.out = "none"
      /\ t.state = "Finalized" =>
           /\ t.out # "none"
           /\ t.out \in {"ticketCancelled", "purgedByWatchdog", "unmatched"}
                 => t.calls = 0
           /\ t.out = "ok" => t.calls = IF silent THEN 0 ELSE most
           /\ t.out \in {"handlerError", "segmentFailed"}
                 => ~silent /\ t.calls \in 1..most

(* How often a request reaches the endpoint agrees with the outcome its    *)
(* requester is told: never before execution, never for a cancelled,       *)
(* purged or unmatched ticket, once for the single kinds, every segment of *)
(* a Chained ticket that reports success and no segment after a failed one.*)
EndpointCallsMatchOutcome ==
  \A id \in DOMAIN tickets : callsMatchOutcome(tickets[id])

(* A resolved ticket keeps its outcome until it is forgotten: no later     *)
(* cancellation or watchdog purge rewrites what Response already reported. *)
OutcomeIsFinal ==
  [][\A id \in DOMAIN tickets :
       tickets[id].state = "Finalized" /\ id \in DOMAIN tickets' =>
         tickets'[id] = tickets[id]]_vars

(* A safety ticket goes beyond Started only in a Pump that saw its requester *)
(* in safe state, unless a client cancelled it; a watchdog purge never       *)
(* resolves it (SafeStateCheck, PurgeNonSafety), even when the check was     *)
(* withdrawn after it was admitted.                                          *)
SafetyOnlyWhenOpened ==
  [][\A id \in DOMAIN tickets \cap DOMAIN tickets' :
       /\ tickets[id].req.safety
       /\ tickets[id].state \in {"Queued", "Started"}
       /\ tickets'[id].state \in {"Executing", "Finalized"}
       => \/ tickets[id].from \in opened
          \/ tickets'[id].out = "ticketCancelled"]_vars

(* Every Pump call returns: each ready ticket is visited once, a chain ends, *)
(* and d.mu is released.                                                     *)
PumpReturns == pumping ~> ~pumping
===========================================================================
