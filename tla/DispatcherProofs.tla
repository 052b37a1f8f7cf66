-------------------------- MODULE DispatcherProofs --------------------------
(***************************************************************************)
(* Proofs about Dispatcher, for every set of streams, sources, sequencers  *)
(* and requests and every bound, and about the specification that the      *)
(* endpoint packages behind it share, for any number of concurrent callers *)
(* and any configuration type.                                             *)
(***************************************************************************)
EXTENDS Dispatcher, Endpoint, TLAPS

-----------------------------------------------------------------------------
(* Dispatcher. *)

(* What is left of a Pump when it returned: nothing. *)
LockInv == ~pumping => batch = {} /\ cur = NoTicket

TypeInv == TypeOK /\ LockInv

(* A new ticket's request is a Request: what decodeInto leaves of the *)
(* message that was submitted.                                        *)
LEMMA DecodedType == ASSUME NEW r \in Request PROVE Decoded(r) \in Request
BY Zenon DEF Decoded, Request, BaseKind

(* Sequencer registers stay within their width (saturatingAdd). *)
LEMMA SaturatingAddType ==
  ASSUME NEW c \in 0..MaxSeq, NEW d \in Int
  PROVE  saturatingAdd(c, d) \in 0..MaxSeq
BY DispatcherAssumption DEF saturatingAdd

(* finalizeWhereLocked keeps the ticket table a ticket table. *)
LEMMA FinalizeWhereType ==
  ASSUME TypeOK, NEW match, NEW err \in Outcome
  PROVE  /\ DOMAIN finalizeWhere(match, err) = DOMAIN tickets
         /\ finalizeWhere(match, err) \in [DOMAIN tickets -> Ticket]
BY ZenonT(40) DEF TypeOK, finalizeWhere, Ticket, State

LEMMA InitTypeInv == Init => TypeInv
<1> SUFFICES ASSUME Init PROVE TypeInv
  OBVIOUS
<1>1. tickets \in [DOMAIN tickets -> Ticket] /\ DOMAIN tickets = {}
  BY DEF Init
<1>2. seq \in [SeqId -> 0..MaxSeq] /\ now \in 0..MaxNow
  BY DispatcherAssumption DEF Init
<1>3. order \in Seq(Nat) /\ nextID \in Nat /\ events \in [Source -> Nat]
  BY DEF Init
<1> QED
  BY Zenon, <1>1, <1>2, <1>3 DEF Init, TypeInv, TypeOK, LockInv

LEMMA SubmitTypeInv ==
  ASSUME TypeInv, NEW x \in Stream, NEW r \in Requests, Submit(x, r)
  PROVE  TypeInv'
<1>1. Decoded(r) \in Request
  BY DispatcherAssumption, DecodedType
<1>2. CASE Admissible(x, r)
  <2> DEFINE new == [from |-> x, req |-> Decoded(r), state |-> "Queued",
                     out |-> "none", calls |-> 0]
  <2>1. new \in Ticket
    BY <1>1 DEF Ticket, State, Outcome
  <2> HIDE DEF new
  <2>2. /\ tickets' = [id \in DOMAIN tickets \cup {nextID} |->
                         IF id = nextID THEN new ELSE tickets[id]]
        /\ order' = Append(order, nextID)
        /\ nextID' = nextID + 1
    BY <1>2 DEF Submit, new
  <2>3. /\ DOMAIN tickets' = DOMAIN tickets \cup {nextID}
        /\ tickets' \in [DOMAIN tickets' -> Ticket]
    BY <2>1, <2>2 DEF TypeInv, TypeOK
  <2>4. order' \in Seq(Nat) /\ nextID' \in Nat
    BY <2>2 DEF TypeInv, TypeOK
  <2>5. DOMAIN tickets' \subseteq 0..(nextID' - 1)
    BY <2>2, <2>3 DEF TypeInv, TypeOK
  <2> QED
    BY SMTT(30), <2>3, <2>4, <2>5 DEF Submit, TypeInv, TypeOK, LockInv, pumpVars
<1>3. CASE ~Admissible(x, r)
  BY <1>3 DEF Submit, TypeInv, TypeOK, LockInv, pumpVars
<1> QED
  BY <1>2, <1>3

(* Deleting one position of a sequence leaves a sequence, one shorter. *)
LEMMA WithoutType ==
  ASSUME NEW s \in Seq(Nat), NEW i \in 1..Len(s)
  PROVE  Without(s, i) \in Seq(Nat) /\ Len(Without(s, i)) = Len(s) - 1
<1>1. Len(s) - 1 \in Nat
  OBVIOUS
<1>2. Without(s, i) \in [1..(Len(s) - 1) -> Nat]
  BY SMTT(30) DEF Without
<1> QED
  BY SMTT(30), <1>1, <1>2 DEF Without

LEMMA ForgetTypeInv ==
  ASSUME TypeInv, NEW id \in DOMAIN tickets, Forget(id)
  PROVE  TypeInv'
<1>1. /\ DOMAIN tickets' = DOMAIN tickets \ {id}
      /\ tickets' \in [DOMAIN tickets' -> Ticket]
  BY DEF Forget, TypeInv, TypeOK
<1>2. PICK i \in 1..Len(order) : order' = Without(order, i)
  BY DEF Forget
<1>3. order' \in Seq(Nat)
  BY <1>2, WithoutType DEF TypeInv, TypeOK
<1> QED
  BY Zenon, <1>1, <1>3 DEF Forget, TypeInv, TypeOK, LockInv, pumpVars

LEMMA PurgeTypeInv == ASSUME TypeInv, PurgeNonSafety PROVE TypeInv'
<1> DEFINE match == {id \in DOMAIN tickets : ~tickets[id].req.safety}
<1>1. tickets' = finalizeWhere(match, "purgedByWatchdog")
  BY DEF PurgeNonSafety
<1>2. "purgedByWatchdog" \in Outcome
  BY DEF Outcome
<1>3. /\ DOMAIN tickets' = DOMAIN tickets
      /\ tickets' \in [DOMAIN tickets' -> Ticket]
  BY <1>1, <1>2, FinalizeWhereType DEF TypeInv
<1> QED
  BY Zenon, <1>3 DEF PurgeNonSafety, TypeInv, TypeOK, LockInv, pumpVars

LEMMA PumpBeginTypeInv ==
  ASSUME TypeInv, NEW t \in 0..MaxNow, PumpBegin(t)
  PROVE  TypeInv'
<1>1. /\ DOMAIN tickets' = DOMAIN tickets
      /\ tickets' \in [DOMAIN tickets' -> Ticket]
  BY ZenonT(60) DEF PumpBegin, TypeInv, TypeOK, Ticket, State, startedState
<1>2. events' \in [Source -> Nat]
  BY DEF PumpBegin, TypeInv, TypeOK
<1>3. batch' \subseteq DOMAIN tickets'
  BY <1>1 DEF PumpBegin
<1> QED
  BY Zenon, <1>1, <1>2, <1>3 DEF PumpBegin, TypeInv, TypeOK, LockInv

(* What an iteration of Pump's execution loop leaves alone. *)
LEMMA VisitTypeInv ==
  ASSUME TypeInv, NEW id \in batch, visit(id),
         DOMAIN tickets' = DOMAIN tickets,
         tickets' \in [DOMAIN tickets' -> Ticket],
         cur' \in {cur, id},
         seq' \in [SeqId -> 0..MaxSeq]
  PROVE  TypeInv'
BY DEF visit, TypeInv, TypeOK, LockInv

LEMMA CallHandlerType ==
  ASSUME TypeInv, NEW id \in DOMAIN tickets, callHandler(id)
  PROVE  /\ DOMAIN tickets' = DOMAIN tickets
         /\ tickets' \in [DOMAIN tickets' -> Ticket]
BY ZenonT(60) DEF callHandler, TypeInv, TypeOK, Ticket, State

LEMMA FinalizeTicketType ==
  ASSUME TypeInv, NEW id \in DOMAIN tickets, NEW out \in Outcome,
         finalizeTicket(id, out)
  PROVE  /\ DOMAIN tickets' = DOMAIN tickets
         /\ tickets' \in [DOMAIN tickets' -> Ticket]
BY ZenonT(60) DEF finalizeTicket, TypeInv, TypeOK, Ticket, State

LEMMA RequestFields ==
  ASSUME TypeOK, NEW id \in DOMAIN tickets
  PROVE  /\ tickets[id] \in Ticket
         /\ tickets[id].req \in Request
         /\ tickets[id].req.seq \in SeqId
         /\ tickets[id].req.advance \in Int
         /\ tickets[id].req.safety \in BOOLEAN
         /\ tickets[id].req.segs \in Nat \ {0}
         /\ tickets[id].from \in Stream
         /\ tickets[id].calls \in Nat
         /\ tickets[id].state \in State
         /\ tickets[id].out \in Outcome
BY Zenon DEF TypeOK, Ticket, Request

LEMMA AdvanceType ==
  ASSUME TypeOK, NEW id \in DOMAIN tickets,
         seq' = [seq EXCEPT ![tickets[id].req.seq] =
                   saturatingAdd(seq[tickets[id].req.seq], tickets[id].req.advance)]
  PROVE  seq' \in [SeqId -> 0..MaxSeq]
BY Zenon, RequestFields, SaturatingAddType DEF TypeOK

LEMMA ExecuteTypeInv ==
  ASSUME TypeInv, NEW id \in batch,
         SkipFinalized(id) \/ ExecuteInner(id) \/ ExecuteCompound(id)
           \/ ExecuteCompoundWait(id) \/ ExecuteCancel(id)
  PROVE  TypeInv'
<1> id \in DOMAIN tickets
  BY DEF TypeInv, TypeOK
<1>1. CASE SkipFinalized(id)
  BY Zenon, <1>1, VisitTypeInv DEF SkipFinalized, TypeInv, TypeOK
<1>2. CASE ExecuteInner(id)
  BY Zenon, <1>2, VisitTypeInv, CallHandlerType DEF ExecuteInner, callHandler, TypeInv, TypeOK
<1>3. CASE ExecuteCompound(id)
  <2>1. CASE conditionHolds(tickets[id].req)
    <3>1. visit(id) /\ callHandler(id) /\ cur' = id
      BY <1>3, <2>1 DEF ExecuteCompound, callHandler
    <3>2. seq' \in [SeqId -> 0..MaxSeq]
      BY <1>3, <2>1, AdvanceType DEF ExecuteCompound, TypeInv
    <3> QED
      BY <3>1, <3>2, VisitTypeInv, CallHandlerType
  <2>2. CASE ~conditionHolds(tickets[id].req)
    <3>1. visit(id) /\ finalizeTicket(id, "unmatched") /\ cur' = cur /\ seq' = seq
      BY <1>3, <2>2 DEF ExecuteCompound, finalizeTicket
    <3>2. "unmatched" \in Outcome
      BY DEF Outcome
    <3> QED
      BY SMTT(30), <3>1, <3>2, VisitTypeInv, FinalizeTicketType DEF TypeInv, TypeOK
  <2> QED
    BY <2>1, <2>2
<1>4. CASE ExecuteCompoundWait(id)
  <2>1. CASE conditionHolds(tickets[id].req)
    <3>1. visit(id) /\ finalizeTicket(id, "ok") /\ cur' = cur
      BY <1>4, <2>1 DEF ExecuteCompoundWait, finalizeTicket
    <3>2. seq' \in [SeqId -> 0..MaxSeq]
      BY <1>4, <2>1, AdvanceType DEF ExecuteCompoundWait, TypeInv
    <3>3. "ok" \in Outcome
      BY DEF Outcome
    <3> QED
      BY <3>1, <3>2, <3>3, VisitTypeInv, FinalizeTicketType
  <2>2. CASE ~conditionHolds(tickets[id].req)
    <3>1. visit(id) /\ finalizeTicket(id, "unmatched") /\ cur' = cur /\ seq' = seq
      BY <1>4, <2>2 DEF ExecuteCompoundWait, finalizeTicket
    <3>2. "unmatched" \in Outcome
      BY DEF Outcome
    <3> QED
      BY <3>1, <3>2, VisitTypeInv, FinalizeTicketType DEF TypeInv, TypeOK
  <2> QED
    BY <2>1, <2>2
<1>5. CASE ExecuteCancel(id)
  <2> DEFINE cleared == finalizeWhere(cancelMatch(id), "ticketCancelled")
  <2>1. /\ DOMAIN cleared = DOMAIN tickets
        /\ cleared \in [DOMAIN tickets -> Ticket]
    BY FinalizeWhereType DEF Outcome, TypeInv
  <2>2. tickets' = [cleared EXCEPT ![id].state = "Finalized", ![id].out = "ok"]
    BY <1>5 DEF ExecuteCancel
  <2> HIDE DEF cleared
  <2>3. /\ DOMAIN tickets' = DOMAIN tickets
        /\ tickets' \in [DOMAIN tickets' -> Ticket]
    <3>1. id \in DOMAIN tickets
      BY DEF TypeInv, TypeOK
    <3>2. cleared[id] \in Ticket
      BY <2>1, <3>1
    <3>3. [cleared[id] EXCEPT !.state = "Finalized", !.out = "ok"] \in Ticket
      BY Zenon, <3>2 DEF Ticket, State, Outcome
    <3>4. tickets' = [cleared EXCEPT ![id] = [cleared[id] EXCEPT !.state = "Finalized", !.out = "ok"]]
      BY Zenon, <2>1, <2>2, <3>1, <3>2 DEF Ticket
    <3> QED
      BY <2>1, <3>1, <3>3, <3>4
  <2> QED
    BY Zenon, <1>5, <2>3, VisitTypeInv DEF ExecuteCancel, TypeInv, TypeOK
<1> QED
  BY <1>1, <1>2, <1>3, <1>4, <1>5

LEMMA HandlerReturnsTypeInv ==
  ASSUME TypeInv, NEW ok \in BOOLEAN, HandlerReturns(ok)
  PROVE  TypeInv'
<1>1. cur \in DOMAIN tickets
  BY DEF HandlerReturns, TypeInv, TypeOK
<1> DEFINE goesOn == tickets[cur].req.base = "Chained" /\ ok
                       /\ tickets[cur].calls < tickets[cur].req.segs
           out == IF ok THEN "ok"
                  ELSE IF tickets[cur].req.base = "Chained" THEN "segmentFailed"
                  ELSE "handlerError"
<1>2. /\ DOMAIN tickets' = DOMAIN tickets
      /\ tickets' \in [DOMAIN tickets' -> Ticket]
      /\ cur' \in {cur, NoTicket}
  <2>1. CASE goesOn
    <3>1. /\ tickets' = [tickets EXCEPT ![cur].calls = tickets[cur].calls + 1]
          /\ cur' = cur
      BY <2>1 DEF HandlerReturns
    <3>2. tickets[cur].calls + 1 \in Nat
      BY <1>1, RequestFields DEF TypeInv
    <3> DEFINE n == tickets[cur].calls + 1
    <3> HIDE DEF n
    <3> QED
      BY ZenonT(40), <1>1, <3>1, <3>2 DEF TypeInv, TypeOK, Ticket, n
  <2>2. CASE ~goesOn
    <3>1. out \in Outcome
      BY DEF Outcome
    <3>2. /\ tickets' = [tickets EXCEPT ![cur].state = "Finalized", ![cur].out = out]
          /\ cur' = NoTicket
      BY <2>2 DEF HandlerReturns
    <3> HIDE DEF out
    <3> QED
      BY ZenonT(40), <1>1, <3>1, <3>2, SMTT(90) DEF TypeInv, TypeOK, Ticket, State
  <2> QED
    BY <2>1, <2>2
<1> QED
  BY <1>1, <1>2 DEF HandlerReturns, TypeInv, TypeOK, LockInv

LEMMA OtherTypeInv ==
  ASSUME TypeInv,
         \/ \E s \in Source : RegisterTriggerSource(s)
         \/ \E check \in BOOLEAN : SetSafeStateCheck(check)
         \/ PumpEnd
         \/ SafeStateChanges
         \/ \E s \in Source : TriggerRaised(s)
         \/ UNCHANGED vars
  PROVE  TypeInv'
<1>1. CASE \E s \in Source : RegisterTriggerSource(s)
  BY <1>1 DEF RegisterTriggerSource, TypeInv, TypeOK, LockInv, pumpVars
<1>2. CASE \E check \in BOOLEAN : SetSafeStateCheck(check)
  BY <1>2 DEF SetSafeStateCheck, TypeInv, TypeOK, LockInv, pumpVars
<1>3. CASE PumpEnd
  BY Zenon, <1>3 DEF PumpEnd, TypeInv, TypeOK, LockInv, dispatcherVars
<1>4. CASE SafeStateChanges
  <2>1. inSafe' \in [Stream -> BOOLEAN]
    BY <1>4 DEF SafeStateChanges, TypeInv, TypeOK
  <2> QED
    BY <1>4, <2>1 DEF SafeStateChanges, TypeInv, TypeOK, LockInv, dispatcherVars, pumpVars
<1>5. CASE \E s \in Source : TriggerRaised(s)
  <2>1. events' \in [Source -> Nat]
    BY <1>5 DEF TriggerRaised, TypeInv, TypeOK
  <2> QED
    BY SMTT(30), <1>5, <2>1 DEF TriggerRaised, TypeInv, TypeOK, LockInv, dispatcherVars, pumpVars
<1>6. CASE UNCHANGED vars
  BY <1>6 DEF TypeInv, TypeOK, LockInv, vars, dispatcherVars, pumpVars
<1> QED
  BY <1>1, <1>2, <1>3, <1>4, <1>5, <1>6

LEMMA NextTypeInv == TypeInv /\ [Next]_vars => TypeInv'
<1> SUFFICES ASSUME TypeInv, [Next]_vars PROVE TypeInv'
  OBVIOUS
<1>1. CASE \E x \in Stream, r \in Requests : Submit(x, r)
  BY <1>1, SubmitTypeInv
<1>2. CASE \E id \in DOMAIN tickets : Forget(id)
  BY <1>2, ForgetTypeInv
<1>3. CASE PurgeNonSafety
  BY <1>3, PurgeTypeInv
<1>4. CASE \E t \in 0..MaxNow : PumpBegin(t)
  BY <1>4, PumpBeginTypeInv
<1>5. CASE \E id \in batch : SkipFinalized(id) \/ ExecuteInner(id)
             \/ ExecuteCompound(id) \/ ExecuteCompoundWait(id) \/ ExecuteCancel(id)
  BY <1>5, ExecuteTypeInv
<1>6. CASE \E ok \in BOOLEAN : HandlerReturns(ok)
  BY <1>6, HandlerReturnsTypeInv
<1> QED
  BY <1>1, <1>2, <1>3, <1>4, <1>5, <1>6, OtherTypeInv DEF Next, PumpStep

LEMMA TypeInvHolds == Spec => []TypeInv
BY InitTypeInv, NextTypeInv, PTL DEF Spec

(* The state of a Dispatcher is well typed, and between two Pump calls no   *)
(* ticket is left in a batch or in execution.                               *)
THEOREM TypeCorrect == Spec => []TypeOK
<1>1. TypeInv => TypeOK
  BY DEF TypeInv
<1> QED
  BY <1>1, TypeInvHolds, PTL

---------------------------------------------------------------------------
(* The order slice and the tickets map *)

LEMMA SubmitOrder ==
  ASSUME TypeInv, OrderMatchesTickets,
         NEW x \in Stream, NEW r \in Requests, Submit(x, r)
  PROVE  OrderMatchesTickets'
<1>1. CASE Admissible(x, r)
  <2>1. /\ DOMAIN tickets' = DOMAIN tickets \cup {nextID}
        /\ order' = Append(order, nextID)
    BY <1>1 DEF Submit
  <2>2. order \in Seq(Nat) /\ nextID \in Nat /\ DOMAIN tickets \subseteq 0..(nextID - 1)
    BY DEF TypeInv, TypeOK
  <2>3. /\ Len(order') = Len(order) + 1
        /\ \A i \in 1..Len(order) : order'[i] = order[i]
        /\ order'[Len(order) + 1] = nextID
        /\ Len(order) \in Nat
    BY <2>1, <2>2
  <2>4. \A i \in 1..Len(order) : order[i] \in DOMAIN tickets /\ order[i] < nextID
    BY <2>2 DEF OrderMatchesTickets
  <2>5. {order'[i] : i \in 1..Len(order')} = DOMAIN tickets'
    BY <2>1, <2>3 DEF OrderMatchesTickets
  <2>6. ASSUME NEW i \in 1..Len(order'), NEW j \in 1..Len(order'), i < j
        PROVE  order'[i] < order'[j]
    <3>1. i \in 1..Len(order) /\ order'[i] = order[i] /\ order[i] < nextID
      BY <2>3, <2>4, <2>6
    <3>2. CASE j = Len(order) + 1
      BY <2>3, <3>1, <3>2
    <3>3. CASE j # Len(order) + 1
      <4>1. j \in 1..Len(order) /\ order'[j] = order[j]
        BY <2>3, <3>3
      <4> QED
        BY <2>6, <3>1, <4>1 DEF OrderMatchesTickets
    <3> QED
      BY <3>2, <3>3
  <2> QED
    BY <2>5, <2>6 DEF OrderMatchesTickets
<1>2. CASE ~Admissible(x, r)
  BY <1>2 DEF Submit, OrderMatchesTickets
<1> QED
  BY <1>1, <1>2

LEMMA ForgetOrder ==
  ASSUME TypeInv, OrderMatchesTickets, NEW id \in DOMAIN tickets, Forget(id)
  PROVE  OrderMatchesTickets'
<1>1. DOMAIN tickets' = DOMAIN tickets \ {id}
  BY DEF Forget
<1>2. PICK p \in 1..Len(order) : order[p] = id /\ order' = Without(order, p)
  BY DEF Forget
<1>3. order \in Seq(Nat) /\ Len(order) \in Nat
  BY DEF TypeInv, TypeOK
<1>4. /\ Len(order') = Len(order) - 1
      /\ \A i \in 1..(Len(order) - 1) :
           order'[i] = IF i < p THEN order[i] ELSE order[i + 1]
  BY <1>2, <1>3, WithoutType DEF Without
<1>5. \A i, j \in 1..Len(order) : i < j => order[i] < order[j]
  BY DEF OrderMatchesTickets
<1>6. \A i \in 1..Len(order) : order[i] = id <=> i = p
  BY <1>2, <1>3, <1>5
<1>7. ASSUME NEW k \in DOMAIN tickets' PROVE \E i \in 1..Len(order') : order'[i] = k
  <2>1. PICK j \in 1..Len(order) : order[j] = k
    BY <1>1 DEF OrderMatchesTickets
  <2>2. j # p
    BY <1>1, <1>2, <2>1
  <2>3. CASE j < p
    <3>1. j \in 1..(Len(order) - 1) /\ j \in 1..Len(order')
      BY <1>3, <1>4, <2>3
    <3> QED
      BY <1>4, <2>1, <2>3, <3>1
  <2>4. CASE j > p
    <3>1. /\ j - 1 \in 1..(Len(order) - 1)
          /\ j - 1 \in 1..Len(order')
          /\ ~(j - 1 < p)
          /\ (j - 1) + 1 = j
      BY <1>3, <1>4, <2>4
    <3>2. order'[j - 1] = order[j]
      BY <1>4, <3>1
    <3> QED
      BY <2>1, <3>1, <3>2
  <2> QED
    BY <1>3, <2>2, <2>3, <2>4
<1>8. ASSUME NEW i \in 1..Len(order') PROVE order'[i] \in DOMAIN tickets'
  <2>1. PICK j \in 1..Len(order) : j # p /\ order'[i] = order[j]
    BY SMTT(30), <1>3, <1>4
  <2> QED
    BY <1>1, <1>6, <2>1 DEF OrderMatchesTickets
<1>9. ASSUME NEW i \in 1..Len(order'), NEW j \in 1..Len(order'), i < j
      PROVE  order'[i] < order'[j]
  <2>1. /\ i \in 1..(Len(order) - 1) /\ j \in 1..(Len(order) - 1)
        /\ i \in 1..Len(order) /\ i + 1 \in 1..Len(order)
        /\ j \in 1..Len(order) /\ j + 1 \in 1..Len(order)
        /\ i < j + 1 /\ i + 1 < j + 1
    BY SMTT(30), <1>3, <1>4, <1>9
  <2>2. /\ order'[i] = IF i < p THEN order[i] ELSE order[i + 1]
        /\ order'[j] = IF j < p THEN order[j] ELSE order[j + 1]
    BY Zenon, <1>4, <2>1
  <2>3. /\ order[i] < order[j]
        /\ order[i] < order[j + 1]
        /\ order[i + 1] < order[j + 1]
    BY <1>5, <1>9, <2>1
  <2>4. j < p => i < p
    BY <1>9
  <2> QED
    BY <2>2, <2>3, <2>4
<1> QED
  BY Zenon, <1>7, <1>8, <1>9 DEF OrderMatchesTickets

(* Only Submit and Forget touch the order or the set of tickets. *)
LEMMA OrderUntouched ==
  ASSUME TypeInv,
         \/ \E s \in Source : RegisterTriggerSource(s)
         \/ \E check \in BOOLEAN : SetSafeStateCheck(check)
         \/ PurgeNonSafety
         \/ \E t \in 0..MaxNow : PumpBegin(t)
         \/ PumpStep
         \/ SafeStateChanges
         \/ \E s \in Source : TriggerRaised(s)
         \/ UNCHANGED vars
  PROVE  order' = order /\ DOMAIN tickets' = DOMAIN tickets
<1>1. CASE PurgeNonSafety
  BY Zenon, <1>1 DEF PurgeNonSafety, finalizeWhere
<1>2. CASE \E t \in 0..MaxNow : PumpBegin(t)
  BY <1>2 DEF PumpBegin
<1>3. CASE PumpStep
  <2>1. ASSUME NEW id \in batch, SkipFinalized(id) PROVE UNCHANGED <<order, tickets>>
    BY <2>1 DEF SkipFinalized, visit
  <2>2. ASSUME NEW id \in batch, ExecuteInner(id)
        PROVE  order' = order /\ DOMAIN tickets' = DOMAIN tickets
    BY <2>2 DEF ExecuteInner, visit, callHandler, TypeInv, TypeOK
  <2>3. ASSUME NEW id \in batch, ExecuteCompound(id) \/ ExecuteCompoundWait(id)
        PROVE  order' = order /\ DOMAIN tickets' = DOMAIN tickets
    BY Zenon, <2>3 DEF ExecuteCompound, ExecuteCompoundWait, visit, callHandler,
                finalizeTicket, TypeInv, TypeOK
  <2>4. ASSUME NEW id \in batch, ExecuteCancel(id)
        PROVE  order' = order /\ DOMAIN tickets' = DOMAIN tickets
    BY Zenon, <2>4 DEF ExecuteCancel, visit, finalizeWhere, TypeInv, TypeOK
  <2>5. ASSUME NEW ok \in BOOLEAN, HandlerReturns(ok)
        PROVE  order' = order /\ DOMAIN tickets' = DOMAIN tickets
    BY <2>5 DEF HandlerReturns, TypeInv, TypeOK
  <2>6. CASE PumpEnd
    BY <2>6 DEF PumpEnd, dispatcherVars
  <2> QED
    BY <1>3, <2>1, <2>2, <2>3, <2>4, <2>5, <2>6 DEF PumpStep
<1>4. CASE UNCHANGED vars
  BY <1>4 DEF vars, dispatcherVars
<1> QED
  BY <1>1, <1>2, <1>3, <1>4 DEF RegisterTriggerSource, SetSafeStateCheck,
     SafeStateChanges, TriggerRaised, dispatcherVars

LEMMA NextOrder ==
  TypeInv /\ OrderMatchesTickets /\ [Next]_vars => OrderMatchesTickets'
<1> SUFFICES ASSUME TypeInv, OrderMatchesTickets, [Next]_vars
             PROVE  OrderMatchesTickets'
  OBVIOUS
<1>1. CASE \E x \in Stream, r \in Requests : Submit(x, r)
  BY <1>1, SubmitOrder
<1>2. CASE \E id \in DOMAIN tickets : Forget(id)
  BY <1>2, ForgetOrder
<1>3. CASE order' = order /\ DOMAIN tickets' = DOMAIN tickets
  BY <1>3 DEF OrderMatchesTickets
<1> QED
  BY <1>1, <1>2, <1>3, OrderUntouched DEF Next

(* The order slice and the tickets map agree in every reachable state, so *)
(* the loops that dereference d.tickets[id] for each id of d.order never  *)
(* meet a missing ticket, and order is the order of arrival.              *)
THEOREM OrderAgrees == Spec => []OrderMatchesTickets
<1>1. Init => OrderMatchesTickets
  BY DEF Init, OrderMatchesTickets
<1> QED
  BY <1>1, TypeInvHolds, NextOrder, PTL DEF Spec

---------------------------------------------------------------------------
(* Execution and outcome *)

HandlerKinds == {"Plain", "Triggered", "Timed", "Chained", "Compound"}

(* The executing ticket is the one whose Handler call is in progress. *)
ExecInv ==
  /\ \A id \in DOMAIN tickets : tickets[id].state = "Executing" <=> id = cur
  /\ cur # NoTicket => tickets[cur].req.base \in HandlerKinds

DispatchInv == ExecInv /\ EndpointCallsMatchOutcome

(* The states a ticket can be in when no Handler call is in progress. *)
LEMMA IdleState ==
  ASSUME TypeInv, ExecInv, cur = NoTicket, NEW id \in DOMAIN tickets
  PROVE  tickets[id].state # "Executing"
BY DEF TypeInv, TypeOK, ExecInv, NoTicket

(* A ticket resolved without a Handler call. *)
LEMMA ResolvedSilently ==
  ASSUME NEW t \in Ticket, callsMatchOutcome(t), t.state \in {"Queued", "Started"},
         NEW o \in Outcome,
         \/ o \in {"ticketCancelled", "purgedByWatchdog", "unmatched"}
         \/ o = "ok" /\ (IsCancellation(t.req) \/ t.req.base = "CompoundWait")
  PROVE  callsMatchOutcome([t EXCEPT !.state = "Finalized", !.out = o])
BY DEF callsMatchOutcome, Ticket, IsCancellation

(* A ticket handed to the Handler. *)
LEMMA HandedOver ==
  ASSUME NEW t \in Ticket, callsMatchOutcome(t), t.state \in {"Queued", "Started"}
  PROVE  callsMatchOutcome([t EXCEPT !.state = "Executing", !.calls = 1])
BY DEF callsMatchOutcome, Ticket, Request, State

(* A ticket whose Handler call returned. *)
LEMMA Returned ==
  ASSUME NEW t \in Ticket, callsMatchOutcome(t), t.state = "Executing",
         t.req.base \in HandlerKinds
  PROVE  /\ t.req.base = "Chained" /\ t.calls < t.req.segs
              => callsMatchOutcome([t EXCEPT !.calls = t.calls + 1])
         /\ ~(t.req.base = "Chained" /\ t.calls < t.req.segs)
              => callsMatchOutcome([t EXCEPT !.state = "Finalized", !.out = "ok"])
         /\ \A o \in {"handlerError", "segmentFailed"} :
              callsMatchOutcome([t EXCEPT !.state = "Finalized", !.out = o])
<1>1. t.req \in Request /\ t.req.segs \in Nat \ {0} /\ t.calls \in Nat
  BY DEF Ticket, Request
<1>2. ~IsCancellation(t.req) /\ t.req.base # "CompoundWait"
  BY DEF IsCancellation, Cancellations, HandlerKinds
<1>3. t.calls \in 1..(IF t.req.base = "Chained" THEN t.req.segs ELSE 1) /\ t.out = "none"
  BY DEF callsMatchOutcome
<1>4. ASSUME t.req.base = "Chained", t.calls < t.req.segs
      PROVE  callsMatchOutcome([t EXCEPT !.calls = t.calls + 1])
  BY <1>1, <1>3, <1>4 DEF callsMatchOutcome, Ticket
<1>5. ASSUME ~(t.req.base = "Chained" /\ t.calls < t.req.segs)
      PROVE  callsMatchOutcome([t EXCEPT !.state = "Finalized", !.out = "ok"])
  BY <1>1, <1>2, <1>3, <1>5 DEF callsMatchOutcome, Ticket, IsCancellation
<1>6. ASSUME NEW o \in {"handlerError", "segmentFailed"}
      PROVE  callsMatchOutcome([t EXCEPT !.state = "Finalized", !.out = o])
  BY <1>1, <1>2, <1>3, <1>6 DEF callsMatchOutcome, Ticket, IsCancellation
<1> QED
  BY <1>4, <1>5, <1>6

(* Steps that change tickets only by starting, resolving or forgetting ones *)
(* that are not in execution, or not at all.                                *)
LEMMA QuietCalls ==
  ASSUME TypeInv, DispatchInv, cur' = cur, cur = NoTicket,
         DOMAIN tickets' \subseteq DOMAIN tickets,
         \A k \in DOMAIN tickets' :
           /\ tickets'[k].state # "Executing"
           /\ callsMatchOutcome(tickets'[k])
  PROVE  DispatchInv'
BY DEF DispatchInv, ExecInv, EndpointCallsMatchOutcome, TypeInv, TypeOK, NoTicket

LEMMA SubmitCalls ==
  ASSUME TypeInv, DispatchInv, NEW x \in Stream, NEW r \in Requests, Submit(x, r)
  PROVE  DispatchInv'
<1>1. cur' = cur /\ cur = NoTicket
  BY DEF Submit, pumpVars, TypeInv, LockInv
<1>2. CASE Admissible(x, r)
  <2> DEFINE new == [from |-> x, req |-> Decoded(r), state |-> "Queued",
                     out |-> "none", calls |-> 0]
  <2>1. callsMatchOutcome(new) /\ new.state # "Executing"
    BY SMTT(30) DEF callsMatchOutcome
  <2> HIDE DEF new
  <2>2. tickets' = [id \in DOMAIN tickets \cup {nextID} |->
                      IF id = nextID THEN new ELSE tickets[id]]
    BY <1>2 DEF Submit, new
  <2>3. nextID \notin DOMAIN tickets /\ nextID # NoTicket /\ NoTicket \notin DOMAIN tickets
    BY DEF TypeInv, TypeOK, NoTicket
  <2>4. \A k \in DOMAIN tickets' :
          tickets'[k].state # "Executing" /\ callsMatchOutcome(tickets'[k]) /\ k # NoTicket
    BY SMTT(30), <1>1, <2>1, <2>2, <2>3, IdleState DEF DispatchInv, EndpointCallsMatchOutcome
  <2> QED
    BY <1>1, <2>4 DEF DispatchInv, ExecInv, EndpointCallsMatchOutcome
<1>3. CASE ~Admissible(x, r)
  BY <1>1, <1>3 DEF Submit, DispatchInv, ExecInv, EndpointCallsMatchOutcome
<1> QED
  BY <1>2, <1>3

(* finalizeWhereLocked, when no Handler call is in progress. *)
LEMMA FinalizeWhereCalls ==
  ASSUME TypeInv, DispatchInv, cur = NoTicket, NEW match,
         NEW err \in {"ticketCancelled", "purgedByWatchdog"},
         NEW k \in DOMAIN tickets
  PROVE  /\ finalizeWhere(match, err)[k].state # "Executing"
         /\ callsMatchOutcome(finalizeWhere(match, err)[k])
<1>1. tickets[k] \in Ticket /\ tickets[k].state \in State /\ tickets[k].state # "Executing"
  BY RequestFields, IdleState DEF TypeInv, DispatchInv
<1>2. callsMatchOutcome(tickets[k])
  BY DEF DispatchInv, EndpointCallsMatchOutcome
<1>3. CASE k \in match /\ tickets[k].state # "Finalized"
  <2>1. finalizeWhere(match, err)[k]
          = [tickets[k] EXCEPT !.state = "Finalized", !.out = err]
    BY <1>3 DEF finalizeWhere
  <2>2. tickets[k].state \in {"Queued", "Started"} /\ err \in Outcome
    BY <1>1, <1>3 DEF State, Outcome
  <2>3. callsMatchOutcome([tickets[k] EXCEPT !.state = "Finalized", !.out = err])
    BY Zenon, <1>1, <1>2, <2>2, ResolvedSilently
  <2> QED
    BY <1>1, <2>1, <2>3 DEF Ticket
<1>4. CASE ~(k \in match /\ tickets[k].state # "Finalized")
  BY <1>1, <1>2, <1>4 DEF finalizeWhere
<1> QED
  BY <1>3, <1>4

LEMMA PurgeCalls == ASSUME TypeInv, DispatchInv, PurgeNonSafety PROVE DispatchInv'
<1> DEFINE match == {id \in DOMAIN tickets : ~tickets[id].req.safety}
<1>1. /\ tickets' = finalizeWhere(match, "purgedByWatchdog")
      /\ cur' = cur /\ cur = NoTicket
  BY DEF PurgeNonSafety, pumpVars, TypeInv, LockInv
<1>2. DOMAIN tickets' = DOMAIN tickets
  BY Zenon, <1>1 DEF finalizeWhere
<1> HIDE DEF match
<1> QED
  BY <1>1, <1>2, FinalizeWhereCalls, QuietCalls

LEMMA PumpBeginCalls ==
  ASSUME TypeInv, DispatchInv, NEW t \in 0..MaxNow, PumpBegin(t)
  PROVE  DispatchInv'
<1>1. /\ tickets' = [id \in DOMAIN tickets |->
                       [tickets[id] EXCEPT !.state = startedState(id)]]
      /\ cur' = cur /\ cur = NoTicket
  BY DEF PumpBegin, TypeInv, LockInv
<1>2. ASSUME NEW k \in DOMAIN tickets
      PROVE  /\ tickets'[k].state # "Executing"
             /\ callsMatchOutcome(tickets'[k])
  <2>1. tickets[k] \in Ticket /\ tickets[k].state # "Executing"
    BY <1>1, RequestFields, IdleState DEF TypeInv, DispatchInv
  <2>2. callsMatchOutcome(tickets[k])
    BY DEF DispatchInv, EndpointCallsMatchOutcome
  <2>3. tickets'[k] = [tickets[k] EXCEPT !.state = startedState(k)]
    BY <1>1
  <2> QED
    BY <2>1, <2>2, <2>3 DEF startedState, callsMatchOutcome, Ticket
<1> QED
  BY <1>1, <1>2, QuietCalls

(* One ticket is handed to the Handler. *)
LEMMA CallHandlerCalls ==
  ASSUME TypeInv, DispatchInv, NEW id \in DOMAIN tickets, cur = NoTicket,
         tickets[id].state # "Finalized", tickets[id].req.base \in HandlerKinds,
         callHandler(id)
  PROVE  DispatchInv'
<1>1. /\ tickets[id] \in Ticket
      /\ tickets[id].state \in {"Queued", "Started"}
      /\ callsMatchOutcome(tickets[id])
  BY RequestFields, IdleState DEF TypeInv, DispatchInv, EndpointCallsMatchOutcome, State
<1> DEFINE new == [tickets[id] EXCEPT !.state = "Executing", !.calls = 1]
<1>2. /\ callsMatchOutcome(new)
      /\ new.state = "Executing"
      /\ new.req = tickets[id].req
  BY Zenon, <1>1, HandedOver DEF Ticket
<1>3. /\ cur' = id
      /\ DOMAIN tickets' = DOMAIN tickets
      /\ tickets'[id] = new
      /\ \A k \in DOMAIN tickets \ {id} : tickets'[k] = tickets[k]
  BY DEF callHandler, TypeInv, TypeOK
<1> HIDE DEF new
<1>4. ExecInv'
  BY <1>2, <1>3, IdleState DEF ExecInv, DispatchInv
<1>5. EndpointCallsMatchOutcome'
  BY <1>2, <1>3 DEF DispatchInv, EndpointCallsMatchOutcome
<1> QED
  BY <1>4, <1>5 DEF DispatchInv

(* One ticket is resolved without a Handler call. *)
LEMMA FinalizeTicketCalls ==
  ASSUME TypeInv, DispatchInv, NEW id \in DOMAIN tickets, cur = NoTicket,
         tickets[id].state # "Finalized",
         NEW out \in Outcome,
         out = "unmatched" \/ (out = "ok" /\ tickets[id].req.base = "CompoundWait"),
         finalizeTicket(id, out)
  PROVE  DispatchInv'
<1>1. /\ tickets[id] \in Ticket
      /\ tickets[id].state \in {"Queued", "Started"}
      /\ callsMatchOutcome(tickets[id])
  BY RequestFields, IdleState DEF TypeInv, DispatchInv, EndpointCallsMatchOutcome, State
<1> DEFINE new == [tickets[id] EXCEPT !.state = "Finalized", !.out = out]
<1>2. callsMatchOutcome(new) /\ new.state = "Finalized"
  BY Zenon, <1>1, ResolvedSilently DEF Ticket
<1>3. /\ cur' = cur
      /\ DOMAIN tickets' = DOMAIN tickets
      /\ tickets'[id] = new
      /\ \A k \in DOMAIN tickets \ {id} : tickets'[k] = tickets[k]
  BY DEF finalizeTicket, TypeInv, TypeOK
<1> HIDE DEF new
<1>4. ASSUME NEW k \in DOMAIN tickets'
      PROVE  tickets'[k].state # "Executing" /\ callsMatchOutcome(tickets'[k])
  BY SMTT(30), <1>2, <1>3, IdleState DEF DispatchInv, EndpointCallsMatchOutcome
<1> QED
  BY <1>3, <1>4, QuietCalls

LEMMA ExecuteCalls ==
  ASSUME TypeInv, DispatchInv, NEW id \in batch,
         SkipFinalized(id) \/ ExecuteInner(id) \/ ExecuteCompound(id)
           \/ ExecuteCompoundWait(id) \/ ExecuteCancel(id)
  PROVE  DispatchInv'
<1>1. id \in DOMAIN tickets /\ cur = NoTicket
  BY SMTT(30) DEF TypeInv, TypeOK, SkipFinalized, ExecuteInner, ExecuteCompound,
         ExecuteCompoundWait, ExecuteCancel, visit
<1>2. CASE SkipFinalized(id)
  BY <1>2 DEF SkipFinalized, DispatchInv, ExecInv, EndpointCallsMatchOutcome
<1>3. CASE ExecuteInner(id)
  BY <1>1, <1>3, CallHandlerCalls DEF ExecuteInner, HandlerKinds
<1>4. CASE ExecuteCompound(id)
  <2>1. tickets[id].state # "Finalized" /\ tickets[id].req.base \in HandlerKinds
    BY Zenon, <1>4 DEF ExecuteCompound, HandlerKinds
  <2>2. callHandler(id) \/ finalizeTicket(id, "unmatched")
    BY Zenon, <1>4 DEF ExecuteCompound
  <2>3. "unmatched" \in Outcome
    BY DEF Outcome
  <2> QED
    BY <1>1, <2>1, <2>2, <2>3, CallHandlerCalls, FinalizeTicketCalls
<1>5. CASE ExecuteCompoundWait(id)
  <2>1. tickets[id].state # "Finalized" /\ tickets[id].req.base = "CompoundWait"
    BY Zenon, <1>5 DEF ExecuteCompoundWait
  <2>2. finalizeTicket(id, "ok") \/ finalizeTicket(id, "unmatched")
    BY Zenon, <1>5 DEF ExecuteCompoundWait
  <2>3. "unmatched" \in Outcome /\ "ok" \in Outcome
    BY DEF Outcome
  <2> QED
    BY SMTT(30), <1>1, <2>1, <2>2, <2>3, FinalizeTicketCalls
<1>6. CASE ExecuteCancel(id)
  <2> DEFINE cleared == finalizeWhere(cancelMatch(id), "ticketCancelled")
             new == [tickets[id] EXCEPT !.state = "Finalized", !.out = "ok"]
  <2>1. /\ tickets[id] \in Ticket
        /\ tickets[id].state \in {"Queued", "Started"}
        /\ callsMatchOutcome(tickets[id])
    BY <1>1, <1>6, RequestFields, IdleState
    DEF ExecuteCancel, TypeInv, DispatchInv, EndpointCallsMatchOutcome, State
  <2>2. callsMatchOutcome(new) /\ new.state = "Finalized"
    BY Zenon, <1>6, <2>1, ResolvedSilently DEF ExecuteCancel, Ticket, Outcome
  <2>3. cleared[id] = tickets[id] /\ DOMAIN cleared = DOMAIN tickets
    BY <1>1 DEF finalizeWhere, cancelMatch
  <2>4. tickets' = [cleared EXCEPT ![id].state = "Finalized", ![id].out = "ok"] /\ cur' = cur
    BY <1>6 DEF ExecuteCancel
  <2>5. \A k \in DOMAIN tickets :
          cleared[k].state # "Executing" /\ callsMatchOutcome(cleared[k])
    BY SMTT(30), <1>1, FinalizeWhereCalls
  <2>6. cleared = [k \in DOMAIN tickets |-> cleared[k]]
    BY DEF finalizeWhere
  <2> HIDE DEF cleared
  <2>7. /\ DOMAIN tickets' = DOMAIN tickets
        /\ tickets'[id] = new
        /\ \A k \in DOMAIN tickets \ {id} : tickets'[k] = cleared[k]
    BY <1>1, <2>3, <2>4, <2>6
  <2> HIDE DEF new
  <2> QED
    BY <1>1, <2>2, <2>4, <2>5, <2>7, QuietCalls
<1> QED
  BY <1>2, <1>3, <1>4, <1>5, <1>6

LEMMA HandlerReturnsCalls ==
  ASSUME TypeInv, DispatchInv, NEW ok \in BOOLEAN, HandlerReturns(ok)
  PROVE  DispatchInv'
<1>1. /\ cur \in DOMAIN tickets /\ cur # NoTicket
      /\ tickets[cur] \in Ticket
      /\ tickets[cur].state = "Executing"
      /\ tickets[cur].req.base \in HandlerKinds
      /\ callsMatchOutcome(tickets[cur])
      /\ NoTicket \notin DOMAIN tickets
  BY RequestFields DEF HandlerReturns, TypeInv, TypeOK, DispatchInv, ExecInv,
     EndpointCallsMatchOutcome, NoTicket
<1> DEFINE goesOn == tickets[cur].req.base = "Chained"
                       /\ tickets[cur].calls < tickets[cur].req.segs
           out == IF ok THEN "ok"
                  ELSE IF tickets[cur].req.base = "Chained" THEN "segmentFailed"
                  ELSE "handlerError"
<1>2. CASE goesOn /\ ok
  <2> DEFINE new == [tickets[cur] EXCEPT !.calls = tickets[cur].calls + 1]
  <2>1. tickets' = [tickets EXCEPT ![cur].calls = tickets[cur].calls + 1] /\ cur' = cur
    BY <1>2 DEF HandlerReturns
  <2>2. callsMatchOutcome(new)
    BY Zenon, <1>1, <1>2, Returned
  <2>3. new.state = "Executing" /\ new.req = tickets[cur].req
    BY <1>1 DEF Ticket
  <2>4. /\ DOMAIN tickets' = DOMAIN tickets
        /\ tickets'[cur] = new
        /\ \A k \in DOMAIN tickets \ {cur} : tickets'[k] = tickets[k]
    BY <1>1, <2>1 DEF TypeInv, TypeOK
  <2> HIDE DEF new
  <2> QED
    BY <1>1, <2>1, <2>2, <2>3, <2>4 DEF DispatchInv, ExecInv, EndpointCallsMatchOutcome
<1>3. CASE ~(goesOn /\ ok)
  <2> DEFINE new == [tickets[cur] EXCEPT !.state = "Finalized", !.out = out]
  <2>1. /\ tickets' = [tickets EXCEPT ![cur].state = "Finalized", ![cur].out = out]
        /\ cur' = NoTicket
    BY <1>3 DEF HandlerReturns
  <2>2. callsMatchOutcome(new)
    <3>1. CASE ok
      <4>1. out = "ok" /\ ~goesOn
        BY <1>3, <3>1
      <4> HIDE DEF out
      <4> QED
        BY Zenon, <1>1, <4>1, Returned
    <3>2. CASE ~ok
      <4>1. out \in {"segmentFailed", "handlerError"}
        BY <3>2
      <4> HIDE DEF out
      <4> QED
        BY Zenon, <1>1, <4>1, Returned
    <3> QED
      BY <3>1, <3>2
  <2> HIDE DEF out
  <2>3. new.state = "Finalized"
    BY <1>1 DEF Ticket
  <2>4. /\ DOMAIN tickets' = DOMAIN tickets
        /\ tickets'[cur] = new
        /\ \A k \in DOMAIN tickets \ {cur} : tickets'[k] = tickets[k]
    BY <1>1, <2>1 DEF TypeInv, TypeOK
  <2> HIDE DEF new
  <2> QED
    BY <1>1, <2>1, <2>2, <2>3, <2>4 DEF DispatchInv, ExecInv, EndpointCallsMatchOutcome
<1> QED
  BY <1>2, <1>3

LEMMA NextCalls == TypeInv /\ DispatchInv /\ [Next]_vars => DispatchInv'
<1> SUFFICES ASSUME TypeInv, DispatchInv, [Next]_vars PROVE DispatchInv'
  OBVIOUS
<1>1. CASE \E x \in Stream, r \in Requests : Submit(x, r)
  BY <1>1, SubmitCalls
<1>2. CASE \E id \in DOMAIN tickets : Forget(id)
  <2>1. PICK id \in DOMAIN tickets : Forget(id)
    BY <1>2
  <2>2. /\ cur' = cur /\ cur = NoTicket
        /\ tickets' = [k \in DOMAIN tickets \ {id} |-> tickets[k]]
    BY <2>1 DEF Forget, pumpVars, TypeInv, LockInv
  <2>3. \A k \in DOMAIN tickets' : k \in DOMAIN tickets /\ tickets'[k] = tickets[k]
    BY <2>2
  <2> QED
    BY Zenon, <2>2, <2>3, IdleState, QuietCalls DEF DispatchInv, EndpointCallsMatchOutcome
<1>3. CASE PurgeNonSafety
  BY <1>3, PurgeCalls
<1>4. CASE \E t \in 0..MaxNow : PumpBegin(t)
  BY <1>4, PumpBeginCalls
<1>5. CASE \E id \in batch : SkipFinalized(id) \/ ExecuteInner(id)
             \/ ExecuteCompound(id) \/ ExecuteCompoundWait(id) \/ ExecuteCancel(id)
  BY <1>5, ExecuteCalls
<1>6. CASE \E ok \in BOOLEAN : HandlerReturns(ok)
  BY <1>6, HandlerReturnsCalls
<1>7. CASE UNCHANGED <<tickets, cur>>
  BY <1>7 DEF DispatchInv, ExecInv, EndpointCallsMatchOutcome
<1> QED
  BY Zenon, <1>1, <1>2, <1>3, <1>4, <1>5, <1>6, <1>7
  DEF Next, PumpStep, RegisterTriggerSource, SetSafeStateCheck, PumpEnd,
      SafeStateChanges, TriggerRaised, vars, dispatcherVars, pumpVars

LEMMA CallsInvHolds == Spec => []DispatchInv
<1>1. Init => DispatchInv
  BY DEF Init, DispatchInv, ExecInv, EndpointCallsMatchOutcome
<1> QED
  BY <1>1, TypeInvHolds, NextCalls, PTL DEF Spec

(* What a requester is told about a ticket and how often its request reached *)
(* the endpoint always agree, whatever is cancelled, purged, chained or      *)
(* fails in between.                                                         *)
THEOREM CallsAgreeWithOutcome == Spec => []EndpointCallsMatchOutcome
<1>1. DispatchInv => EndpointCallsMatchOutcome
  BY DEF DispatchInv
<1> QED
  BY <1>1, CallsInvHolds, PTL

---------------------------------------------------------------------------
(* What a step may do to a ticket *)

(* Every safety ticket Pump selected belongs to a stream it saw in safe     *)
(* state.                                                                   *)
GateInv == \A id \in batch : tickets[id].req.safety => tickets[id].from \in opened

(* How step may change ticket k: not at all, or, if it is not resolved, by  *)
(* starting it, executing it as part of the batch, finishing its execution, *)
(* cancelling it, or purging it if it is no safety request.                 *)
ticketStep(k) ==
  \/ tickets'[k] = tickets[k]
  \/ /\ tickets[k].state # "Finalized"
     /\ tickets'[k].req = tickets[k].req
     /\ tickets'[k].from = tickets[k].from
     /\ \/ tickets'[k].state = "Started"
        \/ k \in batch
        \/ tickets[k].state = "Executing"
        \/ tickets'[k].out = "ticketCancelled"
        \/ ~tickets[k].req.safety

LEMMA FinalizeWhereStep ==
  ASSUME TypeInv, NEW match, NEW err, NEW k \in DOMAIN tickets
  PROVE  \/ finalizeWhere(match, err)[k] = tickets[k]
         \/ /\ k \in match
            /\ tickets[k].state # "Finalized"
            /\ finalizeWhere(match, err)[k].req = tickets[k].req
            /\ finalizeWhere(match, err)[k].from = tickets[k].from
            /\ finalizeWhere(match, err)[k].out = err
BY DEF finalizeWhere, TypeInv, TypeOK, Ticket

LEMMA StepShape ==
  ASSUME TypeInv, DispatchInv, [Next]_vars,
         NEW k \in DOMAIN tickets, k \in DOMAIN tickets'
  PROVE  ticketStep(k)
<1>1. CASE \E x \in Stream, r \in Requests : Submit(x, r)
  BY SMTT(30), <1>1 DEF Submit, ticketStep, TypeInv, TypeOK
<1>2. CASE \E id \in DOMAIN tickets : Forget(id)
  BY Zenon, <1>2 DEF Forget, ticketStep
<1>3. CASE PurgeNonSafety
  BY SMTT(30), <1>3, FinalizeWhereStep DEF PurgeNonSafety, ticketStep
<1>4. CASE \E t \in 0..MaxNow : PumpBegin(t)
  <2>1. tickets'[k] = [tickets[k] EXCEPT !.state = startedState(k)]
    BY <1>4 DEF PumpBegin
  <2>2. tickets[k] \in Ticket
    BY DEF TypeInv, TypeOK
  <2> QED
    BY <2>1, <2>2 DEF startedState, ticketStep, Ticket
<1>5. ASSUME NEW id \in batch,
             SkipFinalized(id) \/ ExecuteInner(id) \/ ExecuteCompound(id)
               \/ ExecuteCompoundWait(id)
      PROVE  ticketStep(k)
  <2>1. \/ tickets' = tickets
        \/ tickets[id].state # "Finalized" /\ callHandler(id)
        \/ tickets[id].state # "Finalized" /\ \E o \in Outcome : finalizeTicket(id, o)
    BY Zenon, <1>5 DEF SkipFinalized, ExecuteInner, ExecuteCompound, ExecuteCompoundWait, Outcome
  <2>2. id \in DOMAIN tickets /\ tickets[id] \in Ticket
    BY DEF TypeInv, TypeOK
  <2>3. k # id => tickets'[k] = tickets[k]
    BY <2>1 DEF callHandler, finalizeTicket, TypeInv, TypeOK
  <2>4. \/ tickets'[id] = tickets[id]
        \/ /\ tickets[id].state # "Finalized"
           /\ tickets'[id].req = tickets[id].req
           /\ tickets'[id].from = tickets[id].from
    BY <2>1, <2>2, ZenonT(60) DEF callHandler, finalizeTicket, TypeInv, TypeOK, Ticket
  <2> QED
    BY <2>3, <2>4 DEF ticketStep
<1>6. ASSUME NEW id \in batch, ExecuteCancel(id) PROVE ticketStep(k)
  <2> DEFINE cleared == finalizeWhere(cancelMatch(id), "ticketCancelled")
  <2>1. tickets' = [cleared EXCEPT ![id].state = "Finalized", ![id].out = "ok"]
    BY <1>6 DEF ExecuteCancel
  <2>2. /\ id \in DOMAIN tickets /\ tickets[id] \in Ticket
        /\ tickets[id].state # "Finalized"
        /\ cleared[id] = tickets[id]
        /\ cleared = [j \in DOMAIN tickets |-> cleared[j]]
    BY Zenon, <1>6 DEF TypeInv, TypeOK, ExecuteCancel, finalizeWhere, cancelMatch
  <2>3. \/ cleared[k] = tickets[k]
        \/ /\ tickets[k].state # "Finalized"
           /\ cleared[k].req = tickets[k].req
           /\ cleared[k].from = tickets[k].from
           /\ cleared[k].out = "ticketCancelled"
    BY SMTT(30), FinalizeWhereStep
  <2> HIDE DEF cleared
  <2>4. CASE k = id
    <3>1. tickets'[id] = [tickets[id] EXCEPT !.state = "Finalized", !.out = "ok"]
      BY <2>1, <2>2
    <3> QED
      BY <2>2, <2>4, <3>1 DEF ticketStep, Ticket
  <2>5. CASE k # id
    BY <2>1, <2>2, <2>3, <2>5 DEF ticketStep
  <2> QED
    BY <2>4, <2>5
<1>7. ASSUME NEW ok \in BOOLEAN, HandlerReturns(ok) PROVE ticketStep(k)
  <2>1. cur \in DOMAIN tickets /\ tickets[cur] \in Ticket /\ tickets[cur].state = "Executing"
    BY <1>7 DEF HandlerReturns, TypeInv, TypeOK, DispatchInv, ExecInv
  <2>2. k # cur => tickets'[k] = tickets[k]
    BY <1>7, <2>1 DEF HandlerReturns, TypeInv, TypeOK
  <2>3. tickets'[cur].req = tickets[cur].req /\ tickets'[cur].from = tickets[cur].from
    BY <1>7, <2>1 DEF HandlerReturns, TypeInv, TypeOK, Ticket
  <2> QED
    BY <2>1, <2>2, <2>3 DEF ticketStep
<1>8. CASE tickets' = tickets
  BY <1>8 DEF ticketStep
<1> QED
  BY Zenon, <1>1, <1>2, <1>3, <1>4, <1>5, <1>6, <1>7, <1>8
  DEF Next, PumpStep, RegisterTriggerSource, SetSafeStateCheck, PumpEnd,
      SafeStateChanges, TriggerRaised, vars, dispatcherVars, pumpVars

(* Whatever Response reported for a resolved ticket stays what it reports, *)
(* until Forget: no cancellation or purge resolves a ticket twice.         *)
THEOREM OutcomesFinal == Spec => OutcomeIsFinal
<1>1. TypeInv /\ DispatchInv /\ [Next]_vars =>
        [\A id \in DOMAIN tickets :
           tickets[id].state = "Finalized" /\ id \in DOMAIN tickets' =>
             tickets'[id] = tickets[id]]_vars
  BY StepShape DEF ticketStep
<1> QED
  BY <1>1, TypeInvHolds, CallsInvHolds, PTL DEF Spec, OutcomeIsFinal

---------------------------------------------------------------------------
(* The safe-state gate *)

(* Except when a Pump begins, the batch only shrinks, and while it is not *)
(* empty the history of the gate is kept.                                 *)
LEMMA BatchShrinks ==
  ASSUME TypeInv, [Next]_vars
  PROVE  \/ \E t \in 0..MaxNow : PumpBegin(t)
         \/ batch' \subseteq batch /\ (batch' # {} => opened' = opened)
<1>1. CASE \E id \in batch : SkipFinalized(id) \/ ExecuteInner(id)
             \/ ExecuteCompound(id) \/ ExecuteCompoundWait(id) \/ ExecuteCancel(id)
  BY SMTT(30), <1>1 DEF SkipFinalized, ExecuteInner, ExecuteCompound, ExecuteCompoundWait,
              ExecuteCancel, visit
<1>2. CASE PumpEnd
  BY <1>2 DEF PumpEnd
<1>3. CASE UNCHANGED <<batch, opened>>
  BY <1>3
<1> QED
  BY Zenon, <1>1, <1>2, <1>3
  DEF Next, PumpStep, RegisterTriggerSource, SetSafeStateCheck, Submit, Forget,
      PurgeNonSafety, HandlerReturns, SafeStateChanges, TriggerRaised, vars, pumpVars

LEMMA NextGate == TypeInv /\ TypeInv' /\ DispatchInv /\ GateInv /\ [Next]_vars => GateInv'
<1> SUFFICES ASSUME TypeInv, TypeInv', DispatchInv, GateInv, [Next]_vars,
                    NEW id \in batch', tickets'[id].req.safety
             PROVE  tickets'[id].from \in opened'
  BY DEF GateInv
<1>1. CASE \E t \in 0..MaxNow : PumpBegin(t)
  <2>1. PICK t \in 0..MaxNow : PumpBegin(t)
    BY <1>1
  <2>2. id \in DOMAIN tickets /\ isReady(id, t)
    BY <2>1 DEF PumpBegin
  <2>3. tickets[id] \in Ticket /\ tickets[id].from \in Stream
    BY <2>2, RequestFields DEF TypeInv
  <2>4. tickets'[id] = [tickets[id] EXCEPT !.state = startedState(id)]
    BY <2>1, <2>2 DEF PumpBegin
  <2>5. tickets'[id].req = tickets[id].req /\ tickets'[id].from = tickets[id].from
    BY <2>3, <2>4 DEF Ticket
  <2>6. safeStateReady(tickets[id].from)
    BY <2>2, <2>5 DEF isReady, passesGate
  <2>7. opened' = {x \in Stream : safeStateReady(x)}
    BY <2>1 DEF PumpBegin
  <2> QED
    BY <2>3, <2>5, <2>6, <2>7
<1>2. CASE batch' \subseteq batch /\ (batch' # {} => opened' = opened)
  <2>1. id \in batch /\ id \in DOMAIN tickets /\ id \in DOMAIN tickets' /\ opened' = opened
    BY SMTT(30), <1>2 DEF TypeInv, TypeOK
  <2>2. tickets'[id].req = tickets[id].req /\ tickets'[id].from = tickets[id].from
    BY SMTT(30), <2>1, StepShape DEF ticketStep
  <2> QED
    BY <2>1, <2>2 DEF GateInv
<1> QED
  BY <1>1, <1>2, BatchShrinks

LEMMA GateInvHolds == Spec => []GateInv
<1>1. Init => GateInv
  BY DEF Init, GateInv
<1> QED
  BY <1>1, TypeInvHolds, CallsInvHolds, NextGate, PTL DEF Spec

(* A safety request is executed only by a Pump that saw its requester in   *)
(* safe state, and no purge resolves it; only a client's cancellation can. *)
THEOREM SafetyGated == Spec => SafetyOnlyWhenOpened
<1>1. TypeInv /\ DispatchInv /\ GateInv /\ [Next]_vars =>
        [\A id \in DOMAIN tickets \cap DOMAIN tickets' :
           /\ tickets[id].req.safety
           /\ tickets[id].state \in {"Queued", "Started"}
           /\ tickets'[id].state \in {"Executing", "Finalized"}
           => \/ tickets[id].from \in opened
              \/ tickets'[id].out = "ticketCancelled"]_vars
  <2> SUFFICES ASSUME TypeInv, DispatchInv, GateInv, [Next]_vars,
                      NEW id \in DOMAIN tickets \cap DOMAIN tickets',
                      tickets[id].req.safety,
                      tickets[id].state \in {"Queued", "Started"},
                      tickets'[id].state \in {"Executing", "Finalized"},
                      tickets'[id].out # "ticketCancelled"
               PROVE  tickets[id].from \in opened
    OBVIOUS
  <2>1. ticketStep(id)
    BY StepShape
  <2>2. id \in batch
    BY <2>1 DEF ticketStep
  <2> QED
    BY <2>2 DEF GateInv
<1> QED
  BY <1>1, TypeInvHolds, CallsInvHolds, GateInvHolds, PTL DEF Spec, SafetyOnlyWhenOpened

---------------------------------------------------------------------------
(* Priority *)

(* While a Pump runs, every ticket that needed nothing to be ready and has  *)
(* not been visited is still in the batch.                                  *)
BatchInv ==
  pumping => \A j \in DOMAIN tickets :
    alwaysReady(j) /\ tickets[j].state \in {"Queued", "Started"} => j \in batch

PriorityInv == BatchInv /\ PriorityHeld

(* The first ticket of the batch precedes every other one in the sense of *)
(* PriorityHeld.                                                          *)
LEMMA FirstPrecedes ==
  ASSUME TypeInv, OrderMatchesTickets, NEW id \in batch, isFirst(id),
         NEW j \in batch, j # id
  PROVE  LET rj == priorityRank[tickets[j].req.base]
             ri == priorityRank[tickets[id].req.base]
         IN  ri < rj \/ (ri = rj /\ id < j)
<1>1. PICK a \in 1..Len(order) : order[a] = id
  BY Zenon DEF TypeInv, TypeOK, OrderMatchesTickets
<1>2. PICK b \in 1..Len(order) : order[b] = j
  BY SMTT(30) DEF TypeInv, TypeOK, OrderMatchesTickets
<1>3. ~arrivedBefore(j, id) => ~(b < a)
  BY <1>1, <1>2 DEF arrivedBefore
<1>4. a # b /\ a \in Nat /\ b \in Nat
  BY <1>1, <1>2
<1>5. a < b => id < j
  BY <1>1, <1>2 DEF OrderMatchesTickets
<1>6. ~arrivedBefore(j, id) => id < j
  BY <1>3, <1>4, <1>5
<1> QED
  BY SMTT(30), <1>6 DEF isFirst

(* What every step of the execution loop does to the ticket it visits: it *)
(* is not left waiting.                                                   *)
LEMMA VisitedIsServed ==
  ASSUME TypeInv, NEW id \in batch,
         SkipFinalized(id) \/ ExecuteInner(id) \/ ExecuteCompound(id)
           \/ ExecuteCompoundWait(id) \/ ExecuteCancel(id)
  PROVE  /\ tickets'[id].state \in {"Executing", "Finalized"}
         /\ isFirst(id) /\ batch' = batch \ {id} /\ pumping /\ pumping'
         /\ cur' \in {NoTicket, id}
<1>1. id \in DOMAIN tickets /\ tickets[id] \in Ticket
  BY DEF TypeInv, TypeOK
<1>2. visit(id) /\ isFirst(id) /\ batch' = batch \ {id} /\ pumping /\ pumping' /\ cur = NoTicket
  BY SMTT(30) DEF SkipFinalized, ExecuteInner, ExecuteCompound, ExecuteCompoundWait,
         ExecuteCancel, visit
<1>3. \/ tickets' = tickets /\ tickets[id].state = "Finalized" /\ cur' = cur
      \/ callHandler(id)
      \/ \E o \in Outcome : finalizeTicket(id, o)
      \/ ExecuteCancel(id)
  BY Zenon DEF SkipFinalized, ExecuteInner, ExecuteCompound, ExecuteCompoundWait, Outcome
<1>4. CASE callHandler(id)
  BY <1>1, <1>2, <1>4 DEF callHandler, TypeInv, TypeOK, Ticket
<1>5. CASE \E o \in Outcome : finalizeTicket(id, o)
  BY <1>1, <1>2, <1>5 DEF finalizeTicket, TypeInv, TypeOK, Ticket
<1>6. CASE ExecuteCancel(id)
  <2> DEFINE cleared == finalizeWhere(cancelMatch(id), "ticketCancelled")
  <2>1. /\ tickets' = [cleared EXCEPT ![id].state = "Finalized", ![id].out = "ok"]
        /\ cur' = cur
    BY <1>6 DEF ExecuteCancel
  <2>2. /\ cleared[id] = tickets[id]
        /\ cleared = [j \in DOMAIN tickets |-> cleared[j]]
    BY Zenon, <1>1 DEF finalizeWhere, cancelMatch
  <2> HIDE DEF cleared
  <2>3. tickets'[id] = [tickets[id] EXCEPT !.state = "Finalized", !.out = "ok"]
    BY <1>1, <2>1, <2>2
  <2> QED
    BY ZenonT(40), <1>1, <1>2, <2>1, <2>3 DEF Ticket
<1> QED
  BY Zenon, <1>2, <1>3, <1>4, <1>5, <1>6

LEMMA VisitPriority ==
  ASSUME TypeInv, TypeInv', DispatchInv, OrderMatchesTickets, PriorityInv, [Next]_vars,
         NEW id \in batch,
         SkipFinalized(id) \/ ExecuteInner(id) \/ ExecuteCompound(id)
           \/ ExecuteCompoundWait(id) \/ ExecuteCancel(id)
  PROVE  PriorityInv'
<1>1. /\ tickets'[id].state \in {"Executing", "Finalized"}
      /\ isFirst(id) /\ batch' = batch \ {id} /\ pumping /\ pumping'
      /\ cur' \in {NoTicket, id}
      /\ id \in DOMAIN tickets
  BY Zenon, VisitedIsServed DEF TypeInv, TypeOK
<1>2. DOMAIN tickets' = DOMAIN tickets
  BY SMTT(30), OrderUntouched DEF PumpStep
<1>3. cur = NoTicket
  BY SMTT(30) DEF SkipFinalized, ExecuteInner, ExecuteCompound, ExecuteCompoundWait,
         ExecuteCancel, visit
<1>4. \A k \in DOMAIN tickets : tickets'[k].req = tickets[k].req
  BY SMTT(30), <1>2, StepShape DEF ticketStep
<1>5. ASSUME NEW j \in DOMAIN tickets, alwaysReady(j)',
             tickets'[j].state \in {"Queued", "Started"}
      PROVE  j \in batch /\ j # id
  <2>1. tickets[j].state # "Executing" /\ tickets[j].state \in State
    BY Zenon, <1>3, IdleState, RequestFields DEF TypeInv, DispatchInv
  <2>2. tickets[j].state # "Finalized"
    BY Zenon, <1>2, <1>5, StepShape DEF ticketStep
  <2>3. alwaysReady(j)
    BY SMTT(30), <1>4, <1>5 DEF alwaysReady
  <2> QED
    BY Zenon, <1>1, <1>5, <2>1, <2>2, <2>3 DEF PriorityInv, BatchInv, State
<1>6. BatchInv'
  BY Zenon, <1>1, <1>2, <1>5 DEF BatchInv
<1>7. PriorityHeld'
  <2> SUFFICES ASSUME cur' # NoTicket, NEW j \in DOMAIN tickets, alwaysReady(j)',
                      tickets'[j].state \in {"Queued", "Started"}
               PROVE  LET rj == priorityRank[tickets'[j].req.base]
                          rc == priorityRank[tickets'[id].req.base]
                      IN  rc < rj \/ (rc = rj /\ id < j)
    BY Zenon, <1>1, <1>2 DEF PriorityHeld
  <2>1. j \in batch /\ j # id
    BY Zenon, <1>5
  <2>2. tickets'[j].req = tickets[j].req /\ tickets'[id].req = tickets[id].req
    BY Zenon, <1>1, <1>4
  <2>3. LET rj == priorityRank[tickets[j].req.base]
            rc == priorityRank[tickets[id].req.base]
        IN  rc < rj \/ (rc = rj /\ id < j)
    BY Zenon, <1>1, <2>1, FirstPrecedes
  <2> QED
    BY Zenon, <2>2, <2>3
<1> QED
  BY <1>6, <1>7 DEF PriorityInv

LEMMA PumpBeginPriority ==
  ASSUME TypeInv, NEW t \in 0..MaxNow, PumpBegin(t)
  PROVE  PriorityInv'
<1>1. cur' = NoTicket
  BY DEF PumpBegin, TypeInv, LockInv
<1>2. ASSUME NEW j \in DOMAIN tickets', alwaysReady(j)',
             tickets'[j].state \in {"Queued", "Started"}
      PROVE  j \in batch'
  <2>1. j \in DOMAIN tickets /\ tickets[j] \in Ticket
        /\ tickets'[j] = [tickets[j] EXCEPT !.state = startedState(j)]
    BY DEF PumpBegin, TypeInv, TypeOK
  <2>2. tickets'[j].req = tickets[j].req /\ tickets'[j].state = startedState(j)
    BY <2>1 DEF Ticket
  <2>3. startedState(j) = "Started"
    BY <1>2, <2>2 DEF startedState
  <2>4. ~tickets[j].req.safety /\ tickets[j].req.base \notin {"Triggered", "Timed"}
    BY SMTT(30), <1>2, <2>2 DEF alwaysReady
  <2>5. isReady(j, t)
    BY <2>3, <2>4 DEF isReady, passesGate
  <2> QED
    BY <2>1, <2>5 DEF PumpBegin
<1> QED
  BY Zenon, <1>1, <1>2 DEF PriorityInv, BatchInv, PriorityHeld

LEMMA HandlerReturnsPriority ==
  ASSUME TypeInv, DispatchInv, PriorityInv, NEW ok \in BOOLEAN, HandlerReturns(ok)
  PROVE  PriorityInv'
<1>1. cur \in DOMAIN tickets /\ tickets[cur] \in Ticket /\ tickets[cur].state = "Executing"
  BY DEF HandlerReturns, TypeInv, TypeOK, DispatchInv, ExecInv
<1>2. /\ batch' = batch /\ pumping' = pumping /\ cur' \in {cur, NoTicket}
      /\ DOMAIN tickets' = DOMAIN tickets
      /\ \A k \in DOMAIN tickets \ {cur} : tickets'[k] = tickets[k]
  BY <1>1 DEF HandlerReturns, TypeInv, TypeOK
<1>3. /\ tickets'[cur].req = tickets[cur].req
      /\ tickets'[cur].state \in {"Executing", "Finalized"}
  BY <1>1 DEF HandlerReturns, TypeInv, TypeOK, Ticket
<1>4. \A j \in DOMAIN tickets :
        tickets'[j].state \in {"Queued", "Started"} => j # cur /\ tickets'[j] = tickets[j]
  BY <1>2, <1>3
<1>5. BatchInv'
  BY SMTT(30), <1>2, <1>4 DEF PriorityInv, BatchInv, alwaysReady
<1>6. PriorityHeld'
  BY Zenon, <1>2, <1>3, <1>4 DEF PriorityInv, PriorityHeld, alwaysReady
<1> QED
  BY <1>5, <1>6 DEF PriorityInv

LEMMA NextPriority ==
  TypeInv /\ TypeInv' /\ DispatchInv /\ OrderMatchesTickets /\ PriorityInv /\ [Next]_vars
    => PriorityInv'
<1> SUFFICES ASSUME TypeInv, TypeInv', DispatchInv, OrderMatchesTickets, PriorityInv,
                    [Next]_vars
             PROVE  PriorityInv'
  OBVIOUS
<1>1. CASE \E id \in batch : SkipFinalized(id) \/ ExecuteInner(id)
             \/ ExecuteCompound(id) \/ ExecuteCompoundWait(id) \/ ExecuteCancel(id)
  BY <1>1, VisitPriority
<1>2. CASE \E t \in 0..MaxNow : PumpBegin(t)
  BY <1>2, PumpBeginPriority
<1>3. CASE \E ok \in BOOLEAN : HandlerReturns(ok)
  BY <1>3, HandlerReturnsPriority
<1>4. CASE ~pumping'
  BY Zenon, <1>4 DEF PriorityInv, BatchInv, PriorityHeld, TypeInv, LockInv
<1>5. CASE UNCHANGED <<tickets, pumping, batch, cur>>
  BY Zenon, <1>5 DEF PriorityInv, BatchInv, PriorityHeld, alwaysReady
<1>6. CASE \/ \E s \in Source : RegisterTriggerSource(s)
           \/ \E check \in BOOLEAN : SetSafeStateCheck(check)
           \/ \E x \in Stream, r \in Requests : Submit(x, r)
           \/ \E id \in DOMAIN tickets : Forget(id)
           \/ PurgeNonSafety
           \/ PumpEnd
  <2>1. ~pumping'
    BY Zenon, <1>6 DEF RegisterTriggerSource, SetSafeStateCheck, Submit, Forget,
       PurgeNonSafety, PumpEnd, pumpVars
  <2> QED
    BY <1>4, <2>1
<1>7. CASE \/ SafeStateChanges
           \/ \E s \in Source : TriggerRaised(s)
           \/ UNCHANGED vars
  BY SMTT(30), <1>5, <1>7 DEF SafeStateChanges, TriggerRaised, vars, dispatcherVars, pumpVars
<1> QED
  BY <1>1, <1>2, <1>3, <1>6, <1>7 DEF Next, PumpStep

(* While the endpoint executes a ticket, no ticket that was ready at once    *)
(* and ranks before it, or ranks with it and arrived earlier, is waiting.    *)
THEOREM PriorityRespected == Spec => []PriorityHeld
<1>1. Init => PriorityInv
  BY SMTT(30) DEF Init, PriorityInv, BatchInv, PriorityHeld
<1>2. PriorityInv => PriorityHeld
  BY DEF PriorityInv
<1> QED
  BY <1>1, <1>2, TypeInvHolds, CallsInvHolds, OrderAgrees, NextPriority, PTL DEF Spec
-----------------------------------------------------------------------------
(* Endpoint. *)

(* What a package's codec does: a block is not empty, and an application's *)
(* configuration is read back from its block.                              *)
CodecSound ==
  /\ \A x : 1 \in DOMAIN EncodeConfig(x)
  /\ \A x \in Configs : Validate(x) => DecodeConfig(EncodeConfig(x)) = x

Active == {c \in Caller : calls[c].pc \in ConfigSteps}

(* The records of the calls that change the configuration. *)
Shaped(call) ==
  /\ call.pc = "store" => call = [pc |-> "store", new |-> call.new, clean |-> call.clean]
  /\ call.pc \in {"adopt", "persist", "rollback"} =>
       call = [pc |-> call.pc, current |-> call.current, clean |-> call.clean, patched |-> call.patched]
  /\ call.pc \in ConfigSteps => call.clean \in BOOLEAN

CallsInv ==
  /\ calls = [c \in Caller |-> calls[c]]
  /\ \A c \in Caller : Shaped(calls[c])

(* Marking a call that changes the configuration leaves its other fields.  *)
LEMMA Marking ==
  ASSUME NEW r, Shaped(r), r.pc \in ConfigSteps, NEW b \in BOOLEAN
  PROVE  /\ Shaped([r EXCEPT !.clean = b])
         /\ [r EXCEPT !.clean = b].pc = r.pc
         /\ [r EXCEPT !.clean = b].clean = b
         /\ r.pc = "store" => [r EXCEPT !.clean = b].new = r.new
         /\ r.pc # "store" => [r EXCEPT !.clean = b].patched = r.patched
<1>1. CASE r.pc = "store"
  <2>1. r = [pc |-> "store", new |-> r.new, clean |-> r.clean]
    BY <1>1 DEF Shaped
  <2>2. [r EXCEPT !.clean = b] = [pc |-> "store", new |-> r.new, clean |-> b]
    BY <2>1
  <2> QED
    BY <1>1, <2>2 DEF Shaped
<1>2. CASE r.pc \in {"adopt", "persist", "rollback"}
  <2>1. r = [pc |-> r.pc, current |-> r.current, clean |-> r.clean, patched |-> r.patched]
    BY <1>2 DEF Shaped
  <2>2. [r EXCEPT !.clean = b] = [pc |-> r.pc, current |-> r.current, clean |-> b, patched |-> r.patched]
    BY <2>1
  <2> QED
    BY <1>2, <2>2 DEF Shaped
<1> QED
  BY <1>1, <1>2 DEF ConfigSteps

(* Moving such a call on to another of its steps.                          *)
LEMMA Moving ==
  ASSUME NEW r, Shaped(r), r.pc \in {"adopt", "persist", "rollback"},
         NEW place \in {"adopt", "persist", "rollback"}
  PROVE  /\ Shaped([r EXCEPT !.pc = place])
         /\ [r EXCEPT !.pc = place].pc = place
         /\ [r EXCEPT !.pc = place].clean = r.clean
         /\ [r EXCEPT !.pc = place].patched = r.patched
<1>1. r = [pc |-> r.pc, current |-> r.current, clean |-> r.clean, patched |-> r.patched]
  BY DEF Shaped
<1>2. [r EXCEPT !.pc = place] = [pc |-> place, current |-> r.current, clean |-> r.clean, patched |-> r.patched]
  BY <1>1
<1>3. r.clean \in BOOLEAN
  BY DEF Shaped, ConfigSteps
<1> QED
  BY <1>2, <1>3 DEF Shaped

LEMMA InitCalls == EndpointInit => CallsInv
  BY SMTT(30) DEF EndpointInit, CallsInv, Shaped, Idle, ConfigSteps

(* begins puts c where call says and marks the calls it overlaps.          *)
LEMMA Beginning ==
  ASSUME CallsInv, NEW c \in Caller, NEW call, begins(c, call), Shaped(call), call.pc \in ConfigSteps
  PROVE  /\ CallsInv'
         /\ calls'[c].pc = call.pc
         /\ calls'[c].clean = (others(c) = {})
         /\ call.pc = "store" => calls'[c].new = call.new
         /\ call.pc # "store" => calls'[c].patched = call.patched
         /\ \A d \in Caller \ {c} :
              /\ calls'[d].pc = calls[d].pc
              /\ d \in Active => ~calls'[d].clean
              /\ calls[d].pc = "store" => calls'[d].new = calls[d].new
              /\ calls[d].pc \in {"adopt", "persist"} => calls'[d].patched = calls[d].patched
<1>1. calls'[c] = [call EXCEPT !.clean = (others(c) = {})]
  BY DEF begins
<1>2. Shaped(calls'[c]) /\ calls'[c].pc = call.pc /\ calls'[c].clean = (others(c) = {})
      /\ (call.pc = "store" => calls'[c].new = call.new)
      /\ (call.pc # "store" => calls'[c].patched = call.patched)
  BY ZenonT(40), <1>1, Marking, (others(c) = {}) \in BOOLEAN
<1>3. ASSUME NEW d \in Caller \ {c}
      PROVE  /\ Shaped(calls'[d])
             /\ calls'[d].pc = calls[d].pc
             /\ d \in Active => ~calls'[d].clean
             /\ calls[d].pc = "store" => calls'[d].new = calls[d].new
             /\ calls[d].pc \in {"adopt", "persist"} => calls'[d].patched = calls[d].patched
  <2>1. Shaped(calls[d])
    BY DEF CallsInv
  <2>2. CASE d \in others(c)
    <3>1. calls'[d] = [calls[d] EXCEPT !.clean = FALSE] /\ calls[d].pc \in ConfigSteps
      BY <2>2 DEF begins, others
    <3> QED
      BY ZenonT(40), <2>1, <3>1, Marking, FALSE \in BOOLEAN
  <2>3. CASE d \notin others(c)
    BY <2>1, <2>3 DEF begins, others, Active
  <2> QED
    BY Zenon, <2>2, <2>3
<1>4. calls' = [d \in Caller |-> calls'[d]]
  BY DEF begins
<1> QED
  BY Zenon, <1>2, <1>3, <1>4 DEF CallsInv

(* The register map shows the configuration in use. *)
Agree == \/ regs = <<>> /\ cfg = Zero
         \/ regs # <<>> /\ DecodeConfig(regs) = cfg

(* What each call under way knows.  A call stays clean only while it is    *)
(* the only change of configuration, and agreed lasts only as long as the  *)
(* call under way, if any, is clean.                                       *)
CallKnows(c) ==
  /\ calls[c].pc = "store" => calls[c].new \in Configs /\ Validate(calls[c].new)
  /\ calls[c].pc = "store" /\ calls[c].clean => declared /\ regs = EncodeConfig(calls[c].new)
  /\ calls[c].pc = "adopt" /\ agreed => Agree
  /\ calls[c].pc = "persist" /\ calls[c].clean => DecodeConfig(calls[c].patched) = cfg
  /\ calls[c].pc \in {"adopt", "persist"} => calls[c].patched # <<>>
  /\ calls[c].pc = "rollback" => ~agreed
  /\ agreed /\ c \in Active => calls[c].clean
  /\ c \in Active /\ calls[c].clean => Active = {c}

AgreeInv ==
  /\ CallsInv
  /\ agreed \in BOOLEAN
  /\ agreed => declared
  /\ agreed /\ Active = {} => Agree
  /\ \A c \in Caller : CallKnows(c)

(* A call that returns is no longer one that changes the configuration.    *)
LEMMA Returning ==
  ASSUME CallsInv, NEW c \in Caller, NEW next, next.pc \notin ConfigSteps, calls' = set(c, next)
  PROVE  CallsInv' /\ Active' = Active \ {c} /\ \A d \in Caller \ {c} : calls'[d] = calls[d]
<1>1. calls'[c] = next /\ \A d \in Caller \ {c} : calls'[d] = calls[d]
  BY DEF set, CallsInv
<1>2. calls' = [d \in Caller |-> calls'[d]]
  BY DEF set, CallsInv
<1>3. Shaped(next)
  BY DEF Shaped, ConfigSteps
<1> QED
  BY <1>1, <1>2, <1>3 DEF CallsInv, Active

LEMMA BeginsAgree ==
  ASSUME AgreeInv, NEW c \in Caller, c \notin Active, NEW call, begins(c, call), Shaped(call),
         \/ /\ call.pc = "adopt" /\ call.patched # <<>> /\ UNCHANGED <<declared, regs, cfg>>
         \/ /\ call.pc = "store" /\ call.new \in Configs /\ Validate(call.new)
            /\ declared /\ regs' = EncodeConfig(call.new) /\ UNCHANGED <<declared, cfg>>
  PROVE  AgreeInv'
<1>0. call.pc \in ConfigSteps
  BY DEF ConfigSteps
<1>1. /\ CallsInv'
      /\ calls'[c].pc = call.pc
      /\ calls'[c].clean = (others(c) = {})
      /\ call.pc = "store" => calls'[c].new = call.new
      /\ call.pc # "store" => calls'[c].patched = call.patched
      /\ \A d \in Caller \ {c} :
           /\ calls'[d].pc = calls[d].pc
           /\ d \in Active => ~calls'[d].clean
           /\ calls[d].pc = "store" => calls'[d].new = calls[d].new
           /\ calls[d].pc \in {"adopt", "persist"} => calls'[d].patched = calls[d].patched
  BY <1>0, Beginning, Zenon DEF AgreeInv
<1>2. Active' = Active \cup {c} /\ others(c) = Active
  BY Zenon, <1>0, <1>1 DEF Active, others
<1>3. agreed' = (agreed /\ Active = {}) /\ agreed' \in BOOLEAN
  BY <1>2 DEF begins, AgreeInv
<1>4. CallKnows(c)'
  <2>1. agreed' => Agree /\ declared
    BY Zenon, <1>3 DEF AgreeInv
  <2>2. calls'[c].clean = (Active = {}) /\ Active' = Active \cup {c}
    BY Zenon, <1>1, <1>2
  <2>3. (agreed' /\ c \in Active' => calls'[c].clean)
        /\ (c \in Active' /\ calls'[c].clean => Active' = {c})
    BY Zenon, <1>3, <2>2
  <2>4. CASE call.pc = "adopt"
    <3>1. calls'[c].pc = "adopt" /\ calls'[c].patched # <<>> /\ UNCHANGED <<regs, cfg>>
      BY Zenon, <1>1, <2>4
    <3>2. agreed' => Agree'
      BY Zenon, <2>1, <3>1 DEF Agree
    <3> QED
      BY Zenon, <2>3, <3>1, <3>2 DEF CallKnows
  <2>5. CASE call.pc = "store"
    <3>1. calls'[c].pc = "store" /\ calls'[c].new = call.new
          /\ declared' /\ regs' = EncodeConfig(call.new) /\ call.new \in Configs /\ Validate(call.new)
      <4>1. call.pc # "adopt"
        BY <2>5
      <4>2. call.new \in Configs /\ Validate(call.new) /\ declared /\ regs' = EncodeConfig(call.new)
            /\ declared' = declared
        BY Zenon, <4>1
      <4> QED
        BY Zenon, <1>1, <2>5, <4>2
    <3> QED
      BY Zenon, <2>3, <3>1 DEF CallKnows
  <2> QED
    BY <2>4, <2>5
<1>5. ASSUME NEW d \in Caller \ {c} PROVE CallKnows(d)'
  <2>1. CallKnows(d)
    BY Zenon DEF AgreeInv
  <2>2. d \in Active' => d \in Active /\ ~calls'[d].clean /\ ~agreed'
    BY Zenon, <1>1, <1>2, <1>3
  <2>3. calls'[d].pc \in ConfigSteps => d \in Active'
    BY Zenon, <1>1 DEF Active
  <2> QED
    BY Zenon, <1>1, <2>1, <2>2, <2>3 DEF CallKnows, ConfigSteps
<1>6. c \in Active' /\ (agreed' => declared')
  BY Zenon, <1>2, <1>3 DEF AgreeInv
<1> QED
  BY Zenon, <1>1, <1>3, <1>4, <1>5, <1>6 DEF AgreeInv

LEMMA PatchNonempty ==
  ASSUME NEW block, NEW start, NEW data, 1 \in DOMAIN block
  PROVE  patch(block, start, data) # <<>>
<1>1. 1 \in DOMAIN patch(block, start, data)
  BY DEF patch
<1>2. 1 \notin DOMAIN <<>>
  OBVIOUS
<1> QED
  BY <1>1, <1>2

LEMMA EncodeAgree ==
  ASSUME CodecSound, AgreeInv, NEW c \in Caller, ApplyEncode(c)
  PROVE  AgreeInv'
<1>1. calls[c].pc = "encode" /\ c \notin Active /\ UNCHANGED <<declared, regs, cfg>>
  BY Zenon DEF ApplyEncode, Active, ConfigSteps
<1>2. CASE returns(c) /\ UNCHANGED agreed
  <2>1. CallsInv' /\ Active' = Active \ {c} /\ \A d \in Caller \ {c} : calls'[d] = calls[d]
    BY Zenon, <1>2, Returning DEF returns, Idle, ConfigSteps, AgreeInv
  <2>2. Active' = Active
    BY <1>1, <2>1
  <2>3. calls'[c] = Idle
    BY <1>2 DEF returns, set, AgreeInv, CallsInv
  <2>4. CallKnows(c)'
    BY SMTT(30), <1>1, <2>2, <2>3 DEF CallKnows, Idle
  <2>5. ASSUME NEW d \in Caller \ {c} PROVE CallKnows(d)'
    BY Zenon, <1>1, <1>2, <2>1, <2>2 DEF CallKnows, AgreeInv, Agree
  <2> QED
    BY Zenon, <1>1, <1>2, <2>1, <2>2, <2>4, <2>5 DEF AgreeInv, Agree
<1>3. ASSUME NEW current, NEW start, NEW data, current = EncodeConfig(cfg),
             begins(c, [pc |-> "adopt", current |-> current, clean |-> TRUE,
                        patched |-> patch(current, start, data)])
      PROVE  AgreeInv'
  <2> DEFINE call == [pc |-> "adopt", current |-> current, clean |-> TRUE,
                      patched |-> patch(current, start, data)]
  <2>1. call.pc = "adopt" /\ call.patched # <<>>
    BY <1>3, PatchNonempty DEF CodecSound
  <2>2. Shaped(call)
    BY Zenon DEF Shaped
  <2>3. begins(c, call)
    BY <1>3
  <2> HIDE DEF call
  <2> QED
    BY Zenon, <1>1, <2>1, <2>2, <2>3, BeginsAgree
<1> QED
  BY Zenon, <1>2, <1>3 DEF ApplyEncode

(* Some call is clean, or the endpoint agreed, only if no other change is  *)
(* under way.                                                              *)
LEMMA Alone ==
  ASSUME AgreeInv, NEW c \in Active, NEW d \in Active, agreed \/ calls[d].clean
  PROVE  c = d
<1>1. c \in Caller /\ d \in Caller
  BY DEF Active
<1>2. calls[d].clean
  BY Zenon, <1>1 DEF AgreeInv, CallKnows
<1> QED
  BY Zenon, <1>1, <1>2 DEF AgreeInv, CallKnows

LEMMA AdoptAgree ==
  ASSUME AgreeInv, NEW c \in Caller, ApplyAdopt(c)
  PROVE  AgreeInv'
<1>1. calls[c].pc = "adopt" /\ c \in Active /\ UNCHANGED <<declared, regs, agreed>> /\ CallKnows(c)
      /\ Shaped(calls[c])
  BY DEF ApplyAdopt, Active, ConfigSteps, AgreeInv, CallsInv
<1>2. CASE adopts(calls[c].patched) /\ calls' = [calls EXCEPT ![c].pc = "persist"]
  <2>1. calls'[c] = [calls[c] EXCEPT !.pc = "persist"] /\ calls' = [d \in Caller |-> calls'[d]]
        /\ \A d \in Caller \ {c} : calls'[d] = calls[d]
    BY <1>2 DEF AgreeInv, CallsInv
  <2>2. Shaped(calls'[c]) /\ calls'[c].pc = "persist" /\ calls'[c].clean = calls[c].clean
        /\ calls'[c].patched = calls[c].patched
    <3> DEFINE r == calls[c]
    <3>1. Shaped(r) /\ r.pc \in {"adopt", "persist", "rollback"}
      BY <1>1
    <3> HIDE DEF r
    <3>2. /\ Shaped([r EXCEPT !.pc = "persist"])
          /\ [r EXCEPT !.pc = "persist"].pc = "persist"
          /\ [r EXCEPT !.pc = "persist"].clean = r.clean
          /\ [r EXCEPT !.pc = "persist"].patched = r.patched
      BY Zenon, <3>1, Moving
    <3> QED
      BY <2>1, <3>2 DEF r
  <2>3. CallsInv' /\ Active' = Active
    BY ZenonT(40), <1>1, <2>1, <2>2 DEF AgreeInv, CallsInv, Active, ConfigSteps
  <2>4. DecodeConfig(calls[c].patched) = cfg'
    BY <1>2 DEF adopts
  <2>5. CallKnows(c)'
    BY Zenon, <1>1, <2>2, <2>3, <2>4 DEF CallKnows
  <2>6. ASSUME NEW d \in Caller \ {c} PROVE CallKnows(d)'
    <3>1. CallKnows(d) /\ calls'[d] = calls[d]
      BY <2>1 DEF AgreeInv
    <3>2. d \in Active => ~agreed /\ ~calls[d].clean
      BY <1>1, Alone
    <3>3. calls[d].pc \in ConfigSteps => d \in Active
      BY DEF Active
    <3> QED
      BY Zenon, <1>1, <2>3, <3>1, <3>2, <3>3 DEF CallKnows, ConfigSteps
  <2> QED
    BY Zenon, <1>1, <2>3, <2>5, <2>6 DEF AgreeInv
<1>3. CASE returns(c) /\ UNCHANGED <<cfg, val>>
  <2>1. CallsInv' /\ Active' = Active \ {c} /\ \A d \in Caller \ {c} : calls'[d] = calls[d]
    BY Zenon, <1>3, Returning DEF returns, Idle, ConfigSteps, AgreeInv
  <2>2. calls'[c] = Idle
    BY <1>3 DEF returns, set, AgreeInv, CallsInv
  <2>3. agreed => Agree'
    BY Zenon, <1>1, <1>3 DEF CallKnows, Agree
  <2>4. CallKnows(c)'
    <3>1. c \notin Active' /\ calls'[c].pc \notin {"store", "adopt", "persist", "rollback"}
      BY <2>1, <2>2 DEF Idle
    <3> QED
      BY Zenon, <3>1 DEF CallKnows
  <2>5. ASSUME NEW d \in Caller \ {c} PROVE CallKnows(d)'
    <3>1. d \in Active' => Active # {c}
      BY Zenon, <1>1, <2>1
    <3> QED
      BY Zenon, <1>1, <1>3, <2>1, <2>3, <3>1, Alone DEF CallKnows, AgreeInv
  <2> QED
    BY Zenon, <1>1, <2>1, <2>3, <2>4, <2>5 DEF AgreeInv
<1> QED
  BY <1>2, <1>3 DEF ApplyAdopt

LEMMA PersistAgree ==
  ASSUME AgreeInv, NEW c \in Caller, ApplyPersist(c)
  PROVE  AgreeInv'
<1>1. calls[c].pc = "persist" /\ c \in Active /\ UNCHANGED <<declared, cfg>> /\ CallKnows(c)
      /\ Shaped(calls[c])
  BY DEF ApplyPersist, Active, ConfigSteps, AgreeInv, CallsInv
<1>2. CASE declared /\ regs' = calls[c].patched /\ succeeds(c, Idle)
  <2>1. CallsInv' /\ Active' = Active \ {c} /\ \A d \in Caller \ {c} : calls'[d] = calls[d]
    BY Zenon, <1>2, Returning DEF succeeds, Idle, ConfigSteps, AgreeInv
  <2>2. calls'[c] = Idle
    BY <1>2 DEF succeeds, set, AgreeInv, CallsInv
  <2>3. agreed' \in BOOLEAN /\ (agreed' => calls[c].clean)
    BY Zenon, <1>1, <1>2 DEF succeeds, AgreeInv, CallKnows, Shaped, ConfigSteps
  <2>4. agreed' => Active' = {} /\ Agree'
    BY Zenon, <1>1, <1>2, <2>1, <2>3 DEF CallKnows, Agree
  <2>5. CallKnows(c)'
    BY SMTT(30), <2>1, <2>2 DEF CallKnows, Idle
  <2>6. ASSUME NEW d \in Caller \ {c} PROVE CallKnows(d)'
    <3>1. CallKnows(d) /\ calls'[d] = calls[d]
      BY Zenon, <2>1 DEF AgreeInv
    <3>2. d \in Active => ~calls[d].clean
      BY <1>1, Alone
    <3>3. calls[d].pc \in ConfigSteps => d \in Active /\ d \in Active'
      BY <2>1 DEF Active
    <3> QED
      BY Zenon, <1>1, <2>1, <2>4, <3>1, <3>2, <3>3 DEF CallKnows, ConfigSteps
  <2> QED
    BY Zenon, <1>1, <1>2, <2>1, <2>3, <2>4, <2>5, <2>6 DEF AgreeInv
<1>3. CASE ~declared /\ calls' = [calls EXCEPT ![c].pc = "rollback"] /\ UNCHANGED <<regs, agreed>>
  <2>1. calls'[c] = [calls[c] EXCEPT !.pc = "rollback"] /\ calls' = [d \in Caller |-> calls'[d]]
        /\ \A d \in Caller \ {c} : calls'[d] = calls[d]
    BY <1>3 DEF AgreeInv, CallsInv
  <2>2. Shaped(calls'[c]) /\ calls'[c].pc = "rollback" /\ calls'[c].clean = calls[c].clean
    <3> DEFINE r == calls[c]
    <3>1. Shaped(r) /\ r.pc \in {"adopt", "persist", "rollback"}
      BY <1>1
    <3> HIDE DEF r
    <3>2. /\ Shaped([r EXCEPT !.pc = "rollback"])
          /\ [r EXCEPT !.pc = "rollback"].pc = "rollback"
          /\ [r EXCEPT !.pc = "rollback"].clean = r.clean
          /\ [r EXCEPT !.pc = "rollback"].patched = r.patched
      BY Zenon, <3>1, Moving
    <3> QED
      BY <2>1, <3>2 DEF r
  <2>3. CallsInv' /\ Active' = Active
    BY ZenonT(40), <1>1, <2>1, <2>2 DEF AgreeInv, CallsInv, Active, ConfigSteps
  <2>4. ~agreed /\ ~agreed'
    BY <1>3 DEF AgreeInv
  <2>5. CallKnows(c)'
    BY Zenon, <1>1, <2>2, <2>3, <2>4 DEF CallKnows
  <2>6. ASSUME NEW d \in Caller \ {c} PROVE CallKnows(d)'
    BY <1>1, <1>3, <2>1, <2>3, <2>4 DEF CallKnows, AgreeInv
  <2> QED
    BY <1>1, <1>3, <2>3, <2>4, <2>5, <2>6 DEF AgreeInv
<1> QED
  BY <1>2, <1>3 DEF ApplyPersist

LEMMA RollbackAgree ==
  ASSUME AgreeInv, NEW c \in Caller, ApplyRollback(c)
  PROVE  AgreeInv'
<1>1. calls[c].pc = "rollback" /\ c \in Active /\ returns(c) /\ UNCHANGED <<declared, regs, agreed>>
  BY Zenon DEF ApplyRollback, Active, ConfigSteps
<1>2. ~agreed /\ ~agreed'
  BY Zenon, <1>1 DEF AgreeInv, CallKnows
<1>3. CallsInv' /\ Active' = Active \ {c} /\ \A d \in Caller \ {c} : calls'[d] = calls[d]
  BY Zenon, <1>1, Returning DEF returns, Idle, ConfigSteps, AgreeInv
<1>4. calls'[c] = Idle
  BY <1>1 DEF returns, set, AgreeInv, CallsInv
<1>5. CallKnows(c)'
  BY <1>3, <1>4 DEF CallKnows, Idle
<1>6. ASSUME NEW d \in Caller \ {c} PROVE CallKnows(d)'
  <2>1. CallKnows(d) /\ calls'[d] = calls[d]
    BY Zenon, <1>3 DEF AgreeInv
  <2>2. d \in Active => ~calls[d].clean
    BY Zenon, <1>1, Alone
  <2>3. calls[d].pc \in ConfigSteps => d \in Active
    BY DEF Active
  <2> QED
    BY Zenon, <1>1, <1>2, <1>3, <2>1, <2>2, <2>3 DEF CallKnows, ConfigSteps
<1> QED
  BY Zenon, <1>1, <1>2, <1>3, <1>5, <1>6 DEF AgreeInv

LEMMA ConfigureAgree ==
  ASSUME AgreeInv, NEW c \in Caller, NEW new \in Configs, ConfigureWrite(c, new)
  PROVE  AgreeInv'
<1> DEFINE call == [pc |-> "store", new |-> new, clean |-> TRUE]
<1>1. c \notin Active
  BY SMTT(30) DEF ConfigureWrite, Active, Idle, ConfigSteps
<1>2. call.pc = "store" /\ call.new = new /\ Shaped(call)
  BY Zenon DEF Shaped
<1>3. begins(c, call) /\ Validate(new) /\ declared /\ regs' = EncodeConfig(new) /\ UNCHANGED <<declared, cfg>>
  BY DEF ConfigureWrite
<1> HIDE DEF call
<1> QED
  BY Zenon, <1>1, <1>2, <1>3, BeginsAgree

LEMMA StoreAgree ==
  ASSUME CodecSound, AgreeInv, NEW c \in Caller,
         calls'[c].pc \notin ConfigSteps, ConfigureStore(c, calls'[c])
  PROVE  AgreeInv'
<1>1. calls[c].pc = "store" /\ c \in Active /\ UNCHANGED <<declared, regs>> /\ CallKnows(c)
      /\ Shaped(calls[c]) /\ cfg' = calls[c].new /\ succeeds(c, calls'[c])
  BY DEF ConfigureStore, Active, ConfigSteps, AgreeInv, CallsInv
<1>2. CallsInv' /\ Active' = Active \ {c} /\ \A d \in Caller \ {c} : calls'[d] = calls[d]
  BY Zenon, <1>1, Returning DEF succeeds, AgreeInv
<1>3. calls'[c].pc \notin ConfigSteps
  OBVIOUS
<1>4. agreed' \in BOOLEAN /\ (agreed' => calls[c].clean)
  BY Zenon, <1>1 DEF succeeds, AgreeInv, CallKnows, Shaped, ConfigSteps
<1>5. agreed' => Active' = {} /\ Agree' /\ declared'
  <2>1. 1 \notin DOMAIN <<>>
    OBVIOUS
  <2>2. 1 \in DOMAIN EncodeConfig(calls[c].new)
    BY DEF CodecSound
  <2>3. EncodeConfig(calls[c].new) # <<>>
    BY <2>1, <2>2
  <2>4. DecodeConfig(EncodeConfig(calls[c].new)) = calls[c].new
    BY Zenon, <1>1 DEF CallKnows, CodecSound
  <2>5. agreed' => declared /\ regs = EncodeConfig(calls[c].new) /\ Active = {c}
    BY Zenon, <1>1, <1>4 DEF CallKnows
  <2> QED
    BY Zenon, <1>1, <1>2, <2>3, <2>4, <2>5 DEF Agree
<1>6. CallKnows(c)'
  BY Zenon, <1>2, <1>3 DEF CallKnows, ConfigSteps
<1>7. ASSUME NEW d \in Caller \ {c} PROVE CallKnows(d)'
  <2>1. CallKnows(d) /\ calls'[d] = calls[d]
    BY Zenon, <1>2 DEF AgreeInv
  <2>2. d \in Active => ~calls[d].clean
    BY Zenon, <1>1, Alone
  <2>3. calls[d].pc \in ConfigSteps => d \in Active /\ d \in Active'
    BY Zenon, <1>2 DEF Active
  <2> QED
    BY Zenon, <1>1, <1>2, <1>5, <2>1, <2>2, <2>3 DEF CallKnows, ConfigSteps
<1> QED
  BY Zenon, <1>1, <1>2, <1>4, <1>5, <1>6, <1>7 DEF AgreeInv

LEMMA RewriteAgree == ASSUME AgreeInv, Rewrite PROVE AgreeInv'
<1>1. ~agreed' /\ agreed' \in BOOLEAN /\ UNCHANGED cfg /\ calls' = [d \in Caller |-> calls'[d]]
  BY Zenon DEF Rewrite, WriteEP0
<1>2. ASSUME NEW d \in Caller
      PROVE  /\ Shaped(calls'[d]) /\ calls'[d].pc = calls[d].pc
             /\ d \in Active => ~calls'[d].clean
             /\ calls[d].pc = "store" => calls'[d].new = calls[d].new
             /\ calls[d].pc \in {"adopt", "persist"} => calls'[d].patched = calls[d].patched
  <2>1. Shaped(calls[d])
    BY DEF AgreeInv, CallsInv
  <2>2. CASE d \in Active
    <3>1. calls'[d] = [calls[d] EXCEPT !.clean = FALSE] /\ calls[d].pc \in ConfigSteps
      BY <2>2 DEF Rewrite, WriteEP0, Active
    <3> QED
      BY Zenon, <2>1, <3>1, Marking, FALSE \in BOOLEAN
  <2>3. CASE d \notin Active
    <3>1. calls'[d] = calls[d]
      BY <2>3 DEF Rewrite, WriteEP0, Active
    <3> QED
      BY <2>1, <2>3, <3>1
  <2> QED
    BY Zenon, <2>2, <2>3
<1>3. CallsInv' /\ Active' = Active
  BY <1>1, <1>2 DEF CallsInv, Active
<1>4. ASSUME NEW d \in Caller PROVE CallKnows(d)'
  <2>1. CallKnows(d)
    BY DEF AgreeInv
  <2>2. calls'[d].pc \in ConfigSteps => d \in Active'
    BY DEF Active
  <2> QED
    BY Zenon, <1>1, <1>2, <1>3, <2>1, <2>2 DEF CallKnows, ConfigSteps
<1> QED
  BY <1>1, <1>3, <1>4 DEF AgreeInv

LEMMA ElsewhereAgree ==
  ASSUME AgreeInv, Elsewhere \/ UNCHANGED <<declared, regs, cfg, val, calls, agreed>>
  PROVE  AgreeInv'
<1>1. /\ UNCHANGED <<declared, regs, cfg, agreed>> /\ calls' = [d \in Caller |-> calls'[d]]
      /\ \A d \in Caller : calls'[d] = calls[d]
                         \/ (calls[d].pc \notin ConfigSteps /\ calls'[d].pc \notin ConfigSteps)
  <2>1. CASE Elsewhere
    <3>1. ASSUME NEW d \in Caller, {calls[d].pc, calls'[d].pc} \cap ConfigSteps = {}
          PROVE  calls[d].pc \notin ConfigSteps /\ calls'[d].pc \notin ConfigSteps
      BY <3>1
    <3> QED
      BY <2>1, <3>1 DEF Elsewhere
  <2>2. CASE UNCHANGED <<declared, regs, cfg, val, calls, agreed>>
    BY <2>2 DEF AgreeInv, CallsInv
  <2> QED
    BY <2>1, <2>2
<1>2. Active' = Active
  BY <1>1 DEF Active
<1>3. ASSUME NEW d \in Caller PROVE CallKnows(d)' /\ Shaped(calls'[d])
  <2>1. CallKnows(d) /\ Shaped(calls[d])
    BY DEF AgreeInv, CallsInv
  <2>2. CASE calls'[d] = calls[d]
    BY SMTT(30), <1>1, <1>2, <2>1, <2>2 DEF CallKnows, Agree
  <2>3. CASE calls'[d].pc \notin ConfigSteps
    <3>1. d \notin Active'
      BY <2>3 DEF Active
    <3> QED
      BY Zenon, <2>3, <3>1 DEF CallKnows, Shaped, ConfigSteps
  <2> QED
    BY <1>1, <2>2, <2>3
<1>4. CallsInv'
  BY <1>1, <1>3 DEF CallsInv
<1>5. Agree' <=> Agree
  BY <1>1 DEF Agree
<1> QED
  BY <1>1, <1>2, <1>3, <1>4, <1>5 DEF AgreeInv

(* Every endpoint whose codec reads back what it writes works with the     *)
(* configuration the register map shows, whenever its last change of       *)
(* configuration ran alone and none is under way.                          *)
THEOREM EndpointAgrees == ASSUME CodecSound PROVE ConfigSpec => []AgreesWhenAlone
<1>1. EndpointInit => AgreeInv
  <2> SUFFICES ASSUME EndpointInit PROVE AgreeInv
    OBVIOUS
  <2>1. \A c \in Caller : calls[c] = Idle
    BY Zenon DEF EndpointInit
  <2>2. Active = {}
    BY <2>1 DEF Active, Idle, ConfigSteps
  <2>3. ASSUME NEW c \in Caller PROVE CallKnows(c)
    <3>1. calls[c].pc = "idle" /\ c \notin Active
      BY <2>1, <2>2 DEF Idle
    <3> QED
      BY Zenon, <3>1 DEF CallKnows
  <2>4. agreed /\ declared /\ Agree
    BY DEF EndpointInit, Agree
  <2> QED
    BY <2>3, <2>4, InitCalls DEF AgreeInv, EndpointInit
<1>2. AgreeInv /\ [ConfigNext]_<<declared, regs, cfg, val, calls, agreed>> => AgreeInv'
  <2> SUFFICES ASSUME AgreeInv, [ConfigNext]_<<declared, regs, cfg, val, calls, agreed>> PROVE AgreeInv'
    OBVIOUS
  <2>1. ASSUME NEW c \in Caller, ApplyConfigRequest(c) PROVE AgreeInv'
    BY <2>1, EncodeAgree, AdoptAgree, PersistAgree, RollbackAgree DEF ApplyConfigRequest
  <2>2. ASSUME NEW c \in Caller, NEW new \in Configs, ConfigureWrite(c, new) PROVE AgreeInv'
    BY <2>2, ConfigureAgree
  <2>3. ASSUME NEW c \in Caller, calls'[c].pc \notin ConfigSteps, ConfigureStore(c, calls'[c]) PROVE AgreeInv'
    BY <2>3, StoreAgree, Zenon
  <2>4. CASE Rewrite
    BY <2>4, RewriteAgree
  <2>5. CASE Elsewhere \/ UNCHANGED <<declared, regs, cfg, val, calls, agreed>>
    BY <2>5, ElsewhereAgree
  <2> QED
    BY <2>1, <2>2, <2>3, <2>4, <2>5 DEF ConfigNext
<1>3. AgreeInv => AgreesWhenAlone
  <2>1. (\A c \in Caller : calls[c].pc \notin ConfigSteps) => Active = {}
    BY DEF Active
  <2> QED
    BY <2>1 DEF AgreeInv, AgreesWhenAlone, Agree
<1> QED
  BY <1>1, <1>2, <1>3, PTL DEF ConfigSpec

(* ConfigValid with the configurations that are on their way. *)
ValidInv ==
  /\ ConfigValid
  /\ calls = [c \in Caller |-> calls[c]]
  /\ \A c \in Caller : Shaped(calls[c]) /\ (calls[c].pc = "store" => Validate(calls[c].new))

LEMMA ValidStep ==
  ASSUME ValidInv, [ConfigNext]_<<declared, regs, cfg, val, calls, agreed>>
  PROVE  ValidInv'
<1>0. CallsInv
  BY DEF ValidInv, CallsInv
<1>1. ASSUME NEW c \in Caller, NEW call, begins(c, call), Shaped(call), call.pc \in ConfigSteps,
             call.pc = "store" => Validate(call.new), UNCHANGED cfg
      PROVE  ValidInv'
  <2>1. /\ CallsInv' /\ calls'[c].pc = call.pc /\ (call.pc = "store" => calls'[c].new = call.new)
        /\ \A d \in Caller \ {c} :
             calls'[d].pc = calls[d].pc /\ (calls[d].pc = "store" => calls'[d].new = calls[d].new)
    BY Zenon, <1>0, <1>1, Beginning
  <2>2. ASSUME NEW d \in Caller, calls'[d].pc = "store" PROVE Validate(calls'[d].new)
    <3>1. CASE d = c
      BY Zenon, <1>1, <2>1, <2>2, <3>1
    <3>2. CASE d # c
      <4>1. calls[d].pc = "store" /\ calls'[d].new = calls[d].new
        BY Zenon, <2>1, <2>2, <3>2
      <4> QED
        BY <4>1 DEF ValidInv
    <3> QED
      BY <3>1, <3>2
  <2>3. ConfigValid'
    BY <1>1 DEF ValidInv, ConfigValid
  <2> QED
    BY <2>1, <2>2, <2>3 DEF ValidInv, CallsInv
<1>2. ASSUME NEW c \in Caller, NEW next, next.pc \notin ConfigSteps, calls' = set(c, next), ConfigValid'
      PROVE  ValidInv'
  <2>1. CallsInv' /\ \A d \in Caller \ {c} : calls'[d] = calls[d]
    BY <1>0, <1>2, Returning
  <2>2. calls'[c].pc # "store"
    BY <1>0, <1>2 DEF set, CallsInv, ConfigSteps
  <2> QED
    BY <1>2, <2>1, <2>2 DEF ValidInv, CallsInv
<1>3. Idle.pc \notin ConfigSteps
  BY DEF Idle, ConfigSteps
<1>4. ASSUME NEW block, adopts(block) PROVE ConfigValid'
  BY <1>4 DEF adopts, ConfigValid
<1>5. UNCHANGED cfg => ConfigValid'
  BY DEF ValidInv, ConfigValid
<1>6. ASSUME NEW c \in Caller, calls[c].pc \in {"adopt", "persist"}, ConfigValid',
             NEW place \in {"persist", "rollback"}, calls' = [calls EXCEPT ![c].pc = place]
      PROVE  ValidInv'
  <2> DEFINE r == calls[c]
  <2>1. Shaped(r) /\ r.pc \in {"adopt", "persist", "rollback"} /\ place \in {"adopt", "persist", "rollback"}
    BY <1>0, <1>6 DEF CallsInv
  <2>2. calls'[c] = [r EXCEPT !.pc = place] /\ calls' = [d \in Caller |-> calls'[d]]
        /\ \A d \in Caller \ {c} : calls'[d] = calls[d]
    BY <1>0, <1>6 DEF CallsInv
  <2> HIDE DEF r
  <2>3. Shaped([r EXCEPT !.pc = place]) /\ [r EXCEPT !.pc = place].pc = place
    BY Zenon, <2>1, Moving
  <2> QED
    BY <1>6, <2>2, <2>3 DEF ValidInv
<1>7. ASSUME NEW c \in Caller, ApplyEncode(c) PROVE ValidInv'
  <2>1. CASE returns(c)
    BY Zenon, <1>2, <1>3, <1>5, <1>7, <2>1 DEF returns, ApplyEncode
  <2>2. ASSUME NEW current, NEW patched,
               begins(c, [pc |-> "adopt", current |-> current, clean |-> TRUE, patched |-> patched])
        PROVE  ValidInv'
    <3> DEFINE call == [pc |-> "adopt", current |-> current, clean |-> TRUE, patched |-> patched]
    <3>1. call.pc = "adopt" /\ Shaped(call) /\ begins(c, call) /\ call.pc \in ConfigSteps /\ UNCHANGED cfg
      BY Zenon, <1>7, <2>2 DEF Shaped, ConfigSteps, ApplyEncode
    <3> HIDE DEF call
    <3> QED
      BY <1>1, <3>1
  <2> QED
    BY Zenon, <1>7, <2>1, <2>2 DEF ApplyEncode
<1>8. ASSUME NEW c \in Caller, ApplyAdopt(c) PROVE ValidInv'
  <2>1. CASE adopts(calls[c].patched) /\ calls' = [calls EXCEPT ![c].pc = "persist"]
    BY Zenon, <1>4, <1>6, <1>8, <2>1 DEF ApplyAdopt
  <2>2. CASE returns(c) /\ UNCHANGED cfg
    BY <1>2, <1>3, <1>5, <2>2 DEF returns
  <2> QED
    BY <1>8, <2>1, <2>2 DEF ApplyAdopt
<1>9. ASSUME NEW c \in Caller, ApplyPersist(c) PROVE ValidInv'
  BY <1>2, <1>3, <1>5, <1>6, <1>9 DEF ApplyPersist, succeeds
<1>10. ASSUME NEW c \in Caller, ApplyRollback(c) PROVE ValidInv'
  BY Zenon, <1>2, <1>3, <1>4, <1>5, <1>10 DEF ApplyRollback, returns
<1>11. ASSUME NEW c \in Caller, NEW new \in Configs, ConfigureWrite(c, new) PROVE ValidInv'
  <2> DEFINE call == [pc |-> "store", new |-> new, clean |-> TRUE]
  <2>1. call.pc = "store" /\ call.new = new /\ Shaped(call) /\ begins(c, call) /\ Validate(new) /\ UNCHANGED cfg
        /\ call.pc \in ConfigSteps
    BY Zenon, <1>11 DEF Shaped, ConfigureWrite, ConfigSteps
  <2> HIDE DEF call
  <2> QED
    BY <1>1, <2>1
<1>12. ASSUME NEW c \in Caller, calls'[c].pc \notin ConfigSteps, ConfigureStore(c, calls'[c]) PROVE ValidInv'
  <2>1. ConfigValid'
    BY <1>12 DEF ConfigureStore, ValidInv, ConfigValid
  <2> QED
    BY Zenon, <1>2, <1>12, <2>1 DEF ConfigureStore, succeeds
<1>13. CASE Rewrite
  <2>1. ASSUME NEW d \in Caller
        PROVE  Shaped(calls'[d]) /\ (calls'[d].pc = "store" => Validate(calls'[d].new))
    <3>1. Shaped(calls[d]) /\ (calls[d].pc = "store" => Validate(calls[d].new))
      BY DEF ValidInv
    <3>2. CASE calls[d].pc \in ConfigSteps
      <4>1. calls'[d] = [calls[d] EXCEPT !.clean = FALSE]
        BY <1>13, <3>2 DEF Rewrite, WriteEP0
      <4> DEFINE r == calls[d]
      <4>2. Shaped(r) /\ r.pc \in ConfigSteps /\ (r.pc = "store" => Validate(r.new))
        BY Zenon, <3>1, <3>2
      <4> HIDE DEF r
      <4>3. /\ Shaped([r EXCEPT !.clean = FALSE]) /\ [r EXCEPT !.clean = FALSE].pc = r.pc
            /\ r.pc = "store" => [r EXCEPT !.clean = FALSE].new = r.new
        BY Zenon, <4>2, Marking, FALSE \in BOOLEAN
      <4>4. calls'[d] = [r EXCEPT !.clean = FALSE]
        BY <4>1 DEF r
      <4> QED
        BY <4>2, <4>3, <4>4
    <3>3. CASE calls[d].pc \notin ConfigSteps
      <4>1. calls'[d] = calls[d]
        BY <1>13, <3>3 DEF Rewrite, WriteEP0
      <4> QED
        BY Zenon, <3>1, <4>1
    <3> QED
      BY Zenon, <3>2, <3>3
  <2>2. calls' = [d \in Caller |-> calls'[d]] /\ UNCHANGED cfg
    BY <1>13 DEF Rewrite, WriteEP0
  <2> QED
    BY <1>5, <2>1, <2>2 DEF ValidInv
<1>14. CASE Elsewhere
  <2>1. ASSUME NEW d \in Caller
        PROVE  Shaped(calls'[d]) /\ (calls'[d].pc = "store" => Validate(calls'[d].new))
    <3>1. CASE calls'[d] = calls[d]
      BY <3>1 DEF ValidInv
    <3>2. CASE {calls[d].pc, calls'[d].pc} \cap ConfigSteps = {}
      <4>1. calls'[d].pc \notin ConfigSteps
        BY <3>2
      <4> QED
        BY Zenon, <4>1 DEF Shaped, ConfigSteps
    <3> QED
      BY Zenon, <1>14, <3>1, <3>2 DEF Elsewhere
  <2> QED
    BY SMTT(30), <1>5, <1>14, <2>1 DEF Elsewhere, ValidInv
<1>15. CASE UNCHANGED <<declared, regs, cfg, val, calls, agreed>>
  BY <1>15 DEF ValidInv, ConfigValid
<1> QED
  BY <1>7, <1>8, <1>9, <1>10, <1>11, <1>12, <1>13, <1>14, <1>15 DEF ConfigNext, ApplyConfigRequest

(* No interleaving of Configure, configuration requests, rollbacks and     *)
(* writes of the register map makes an endpoint work with a configuration  *)
(* that its Validate refuses.                                              *)
THEOREM EndpointConfigValid == ConfigSpec => []ConfigValid
<1>1. EndpointInit => ValidInv
  BY InitCalls DEF EndpointInit, ValidInv, ConfigValid, CallsInv, Idle
<1>2. ValidInv => ConfigValid
  BY DEF ValidInv
<1> QED
  BY <1>1, <1>2, ValidStep, PTL DEF ConfigSpec

=============================================================================
