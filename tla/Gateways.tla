------------------------------ MODULE Gateways ------------------------------
(***************************************************************************)
(* What stands in front of a Controller and keeps the books: the RELAY     *)
(* adapter, the metrics and the administration server. One section per     *)
(* package; st is the state of the package's object, calls its goroutines  *)
(* and seen a history.                                                     *)
(***************************************************************************)
EXTENDS Integers, Sequences, FiniteSets, Calls

CONSTANTS
  Messages, MaxRelayed, MaxSubs,                      \* rcp.Adapt
  Observed, MaxObserved,                              \* observe
  Administered, AdminCapacity, MaxAdmin               \* admin

-----------------------------------------------------------------------------
(***************************************************************************)
(* rcp.Adapt: a Controller as a RELAY Caller, with its subscriptions, its  *)
(* counters and the two ways to close it.  A message is [id, op, size].    *)
(***************************************************************************)
(* st.subs: the channels in rcpAdapter.subs; st.down: how often ctrl.Close *)
(* was called.  seen: for every channel returned whether it is closed, the *)
(* requests made, ended and failed, and those a drain did not wait for.    *)
RelayInit ==
  /\ st = [closed |-> FALSE, subs |-> {}, down |-> 0, inFlight |-> 0,
           write |-> 0, deliver |-> 0, bytes |-> 0, errors |-> 0]
  /\ seen = [requests |-> 0, chans |-> <<>>, ended |-> {}, failed |-> 0, answered |-> 0, cut |-> {}]
  /\ CallsInit

(* ParseEndpointID *)
parses(id) == id \in 0..255

(* RequestFromMessage: the operation is named, or follows from the payload. *)
RequestFromMessage(m) ==
  [ok |-> parses(m.id), addr |-> m.id,
   control |-> IF m.op \in {"read", "write"} THEN m.op ELSE IF m.size > 0 THEN "write" ELSE "read"]

(* Mutated form: a message without an endpoint is not counted. *)
rejected_Quiet == st

rejected == [st EXCEPT !.errors = @ + 1]

(* Send and Call, which differ in what they make of the answer. *)
Begin(c, m, call) ==
  LET r == RequestFromMessage(m) IN
  /\ at(c, "idle") /\ seen.requests < MaxRelayed
  /\ IF r.ok
       THEN /\ st' = [st EXCEPT !.inFlight = @ + 1, !.write = @ + 1, !.bytes = @ + m.size]
            /\ goes(c, [pc |-> "request", call |-> call, id |-> seen.requests + 1])
            /\ seen' = [seen EXCEPT !.requests = @ + 1]
       ELSE /\ st' = rejected
            /\ seen' = [seen EXCEPT !.requests = @ + 1, !.failed = @ + 1]
            /\ UNCHANGED calls

(* ctrl.Request ends: it fails on a Controller that was closed, and may    *)
(* fail on any.                                                            *)
RelayRequestEnds(c, ok) ==
  /\ at(c, "request")
  /\ ok => st.down = 0
  /\ st' = [st EXCEPT !.errors = IF ok THEN @ ELSE @ + 1,
                      !.deliver = IF ok /\ calls[c].call THEN @ + 1 ELSE @]
  /\ seen' = [seen EXCEPT !.ended = @ \cup {calls[c].id}, !.failed = IF ok THEN @ ELSE @ + 1,
                          !.answered = IF ok /\ calls[c].call THEN @ + 1 ELSE @]
  /\ goes(c, [calls[c] EXCEPT !.pc = "leave"])

(* The deferred decrement. *)
RelayLeave(c) ==
  /\ at(c, "leave")
  /\ st' = [st EXCEPT !.inFlight = @ - 1]
  /\ returns(c)
  /\ UNCHANGED seen

(* Subscribe looks at closed, and again under the lock. *)
SubscribeBegin(c) ==
  /\ at(c, "idle") /\ ~st.closed /\ Len(seen.chans) < MaxSubs
  /\ goes(c, [pc |-> "subscribe"])
  /\ UNCHANGED <<st, seen>>

(* Mutated form: closed is not looked at under the lock. *)
subscribable_Now == TRUE

subscribable == ~st.closed

SubscribeEnd(c) ==
  LET ch == Len(seen.chans) + 1 IN
  /\ at(c, "subscribe")
  /\ seen' = [seen EXCEPT !.chans = Append(@, IF subscribable THEN "open" ELSE "closed")]
  /\ st' = IF subscribable THEN [st EXCEPT !.subs = @ \cup {ch}] ELSE st
  /\ returns(c)

(* Close: Swap, then the channels under the lock, then the Controller. *)
RelayClose(c) ==
  /\ at(c, "idle") /\ ~st.closed
  /\ st' = [st EXCEPT !.closed = TRUE]
  /\ goes(c, [pc |-> "closing"])
  /\ UNCHANGED seen

CloseSubs(c) ==
  /\ at(c, "closing")
  /\ st' = [st EXCEPT !.subs = {}]
  /\ seen' = [seen EXCEPT !.chans = [i \in DOMAIN @ |-> IF i \in st.subs THEN "closed" ELSE @[i]]]
  /\ goes(c, [pc |-> "down"])

CloseDown(c) ==
  /\ at(c, "down")
  /\ st' = [st EXCEPT !.down = @ + 1]
  /\ returns(c)
  /\ UNCHANGED seen

(* CloseWithDrain looks at inFlight every millisecond until it is zero or  *)
(* its context is done; then it is Close.  old: the requests that were on  *)
(* their way when it began, and that a drain which does not time out has   *)
(* waited for.                                                             *)
DrainBegin(c) ==
  /\ at(c, "idle")
  /\ goes(c, [pc |-> "drain", old |-> {calls[d].id : d \in {e \in Callers : at(e, "request")}}])
  /\ UNCHANGED <<st, seen>>

(* Mutated form: one request in flight is none. *)
drained_One == st.inFlight <= 1

drained == st.inFlight = 0

DrainEnds(c, timeout) ==
  /\ at(c, "drain")
  /\ drained \/ timeout
  /\ goes(c, [pc |-> "drained", old |-> IF drained THEN calls[c].old ELSE {}])
  /\ UNCHANGED <<st, seen>>

DrainClose(c) ==
  /\ at(c, "drained")
  /\ seen' = [seen EXCEPT !.cut = @ \cup (calls[c].old \ seen.ended)]
  /\ IF st.closed THEN returns(c) /\ UNCHANGED st
     ELSE st' = [st EXCEPT !.closed = TRUE] /\ goes(c, [pc |-> "closing"])

RelayNext ==
  \E c \in Callers :
    \/ \E m \in Messages, call \in BOOLEAN : Begin(c, m, call)
    \/ \E ok \in BOOLEAN : RelayRequestEnds(c, ok) \/ DrainEnds(c, ok)
    \/ RelayLeave(c) \/ SubscribeBegin(c) \/ SubscribeEnd(c)
    \/ RelayClose(c) \/ CloseSubs(c) \/ CloseDown(c) \/ DrainBegin(c) \/ DrainClose(c)

(* Health and Metrics only read. *)
Health == IF st.closed THEN "Down" ELSE IF st.errors > 0 THEN "Degraded" ELSE "OK"

----------------------------------------------------------------------------
closing == \E c \in Callers : at(c, "closing")

(* Once Close has been through, every channel that Subscribe returned is   *)
(* closed, also one whose Subscribe raced with the Close: no subscriber    *)
(* waits for ever on an adapter that is gone.  The Controller is closed    *)
(* once.                                                                   *)
SubscriptionsEnd ==
  /\ st.closed /\ ~closing => \A i \in DOMAIN seen.chans : seen.chans[i] = "closed"
  /\ st.down <= 1

(* A drain that does not time out closes the adapter only when the         *)
(* requests that were on their way when it began have ended.               *)
DrainedIsDone == seen.cut = {}

(* With no call under way the counters tell what happened, and the adapter *)
(* is healthy exactly when nothing failed.                                 *)
CountersTell ==
  (\A c \in Callers : at(c, "idle")) =>
    /\ st.inFlight = 0 /\ st.write = Cardinality(seen.ended) /\ st.errors = seen.failed /\ st.deliver = seen.answered
    /\ ~st.closed => (Health = "OK" <=> seen.failed = 0)

-----------------------------------------------------------------------------
(***************************************************************************)
(* observe: the controller that counts the requests of another one.  The   *)
(* metrics are told one by one after the request, so that those of         *)
(* different requests interleave.                                          *)
(***************************************************************************)
(* seen: the requests that came back, by result. *)
ObserveInit ==
  /\ st = [closed |-> FALSE,
           latency |-> 0, errors |-> 0, misses |-> 0, healthy |-> [a \in Observed |-> TRUE]]
  /\ seen = [ok |-> 0, flagged |-> 0, timeout |-> 0, failed |-> 0]
  /\ CallsInit

total == seen.ok + seen.flagged + seen.timeout + seen.failed

ObserveRequestBegin(c, a) ==
  /\ at(c, "idle") /\ ~st.closed
  /\ goes(c, [pc |-> "inner", addr |-> a])
  /\ UNCHANGED <<st, seen>>

(* Mutated form: a timeout is counted as a miss only. *)
toldFor_Missing(r) ==
  CASE r \in {"ok", "flagged"} -> <<"latency", "health">>
    [] r = "timeout" -> <<"miss">>
    [] r = "failed" -> <<"error">>

(* The metrics that follow each result, in order. *)
toldFor(r) ==
  CASE r \in {"ok", "flagged"} -> <<"latency", "health">>
    [] r = "timeout" -> <<"error", "miss">>
    [] r = "failed" -> <<"error">>

ObserveRequestReturn(c) ==
  /\ at(c, "inner") /\ total < MaxObserved
  /\ \E r \in DOMAIN seen :
       /\ seen' = [seen EXCEPT ![r] = @ + 1]
       /\ goes(c, [pc |-> "tell", addr |-> calls[c].addr, result |-> r, left |-> toldFor(r)])
  /\ UNCHANGED st

Tell(c) ==
  LET k == calls[c] IN
  /\ at(c, "tell")
  /\ st' = CASE Head(k.left) = "latency" -> [st EXCEPT !.latency = @ + 1]
             [] Head(k.left) = "error" -> [st EXCEPT !.errors = @ + 1]
             [] Head(k.left) = "miss" -> [st EXCEPT !.misses = @ + 1]
             [] Head(k.left) = "health" -> [st EXCEPT !.healthy[k.addr] = (k.result = "ok")]
  /\ goes(c, IF Len(k.left) = 1 THEN Idle ELSE [k EXCEPT !.left = Tail(@)])
  /\ UNCHANGED seen

ObserveClose == ~st.closed /\ st' = [st EXCEPT !.closed = TRUE] /\ UNCHANGED <<calls, seen>>

ObserveNext ==
  \/ \E c \in Callers : ObserveRequestReturn(c) \/ Tell(c) \/ \E a \in Observed : ObserveRequestBegin(c, a)
  \/ ObserveClose

----------------------------------------------------------------------------
untold(m) == Cardinality({c \in Callers : at(c, "tell") /\
                            \E i \in DOMAIN calls[c].left : calls[c].left[i] = m})

(* Every request that came back is counted once, as an error or by its     *)
(* latency, and every timeout as a miss, up to what is being told.         *)
EveryRequestCounted ==
  /\ st.latency + untold("latency") = seen.ok + seen.flagged
  /\ st.errors + untold("error") = seen.timeout + seen.failed
  /\ st.misses + untold("miss") = seen.timeout

-----------------------------------------------------------------------------
(***************************************************************************)
(* admin.Server: the controllers and the counters behind its HTTP          *)
(* handlers, and one client of its event stream.  A request looks its      *)
(* server up twice.                                                        *)
(***************************************************************************)
FreshState == [req |-> 0, err |-> 0, miss |-> 0, healthy |-> FALSE]

(* st.pool: the serverState records ever made; st.states: the one of each  *)
(* key; st.subs: the client's channel, if handleEvents has one.  seen: the *)
(* requests recorded, whether one panicked on a nil Controller, whether it *)
(* had been deregistered meanwhile, the last event of each key the client  *)
(* got or will get, the keys of which it missed some, and those that two   *)
(* requests recorded at once.                                              *)
AdminInit ==
  /\ st = [ctrls |-> {}, pool |-> <<>>, states |-> <<>>, subs |-> {}]
  /\ seen = [done |-> [k \in Administered |-> [req |-> 0, err |-> 0, miss |-> 0]], removed |-> {}, panics |-> {},
             begun |-> 0, told |-> <<>>, missed |-> {}, mixed |-> {}]
  /\ CallsInit

AdminRegister(k) == k \notin st.ctrls /\ st' = [st EXCEPT !.ctrls = @ \cup {k}] /\ UNCHANGED <<calls, seen>>

AdminDeregister(k) ==
  /\ k \in st.ctrls
  /\ st' = [st EXCEPT !.ctrls = @ \ {k}]
  /\ seen' = [seen EXCEPT !.removed = @ \cup {c \in Callers : at(c, "parse") /\ calls[c].key = k}]
  /\ UNCHANGED calls

(* Mutated form: an unknown server is not refused. *)
known_Any(k) == TRUE

known(k) == k \in st.ctrls

(* handleServer *)
HandleServer(c, k) ==
  /\ at(c, "idle") /\ known(k) /\ seen.begun < MaxAdmin
  /\ goes(c, [pc |-> "parse", key |-> k])
  /\ seen' = [seen EXCEPT !.removed = @ \ {c}, !.begun = @ + 1]
  /\ UNCHANGED st

(* handleRequest: the method, the token or the body may be refused; then   *)
(* comes the second look.  The request may fail.                           *)
RequestRefused(c) == at(c, "parse") /\ returns(c) /\ UNCHANGED <<st, seen>>

HandleRequest(c) ==
  LET k == calls[c].key IN
  /\ at(c, "parse")
  /\ IF k \in st.ctrls
       THEN /\ \E err \in BOOLEAN :
                 goes(c, [pc |-> "record", key |-> k, err |-> err, healthy |-> ~err, miss |-> FALSE])
            /\ UNCHANGED seen
       ELSE /\ returns(c)
            /\ seen' = [seen EXCEPT !.panics = IF c \in seen.removed THEN @ ELSE @ \cup {c}]
  /\ UNCHANGED st

(* Mutated form: two first requests each make a record. *)
getOrCreate_Again(k) == [st EXCEPT !.pool = Append(@, FreshState), !.states = put(@, k, Len(st.pool) + 1)]

getOrCreate(k) ==
  IF k \in DOMAIN st.states THEN st
  ELSE [st EXCEPT !.pool = Append(@, FreshState), !.states = put(@, k, Len(st.pool) + 1)]

recording(c) == calls[c].pc \in {"req", "err", "miss", "health", "publish"}

(* RecordRequest, called by the application for any server, and then in    *)
(* the order of its writes                                                 *)
RecordRequest(c, k, healthy, err, miss) ==
  /\ at(c, "idle") /\ seen.begun < MaxAdmin
  /\ goes(c, [pc |-> "record", key |-> k, err |-> err, healthy |-> healthy, miss |-> miss])
  /\ seen' = [seen EXCEPT !.begun = @ + 1]
  /\ UNCHANGED st

RecordBegin(c) ==
  LET k == calls[c].key IN
  /\ at(c, "record")
  /\ st' = getOrCreate(k)
  /\ goes(c, [pc |-> "req", key |-> k, err |-> calls[c].err, healthy |-> calls[c].healthy,
              miss |-> calls[c].miss, state |-> st'.states[k]])
  /\ seen' = [seen EXCEPT !.mixed =
       IF \E d \in Callers \ {c} : recording(d) /\ calls[d].key = k THEN @ \cup {k} ELSE @]

afterErr(k) == IF k.miss THEN "miss" ELSE "health"

RecordReq(c) ==
  /\ at(c, "req")
  /\ st' = [st EXCEPT !.pool[calls[c].state].req = @ + 1]
  /\ goes(c, [calls[c] EXCEPT !.pc = IF calls[c].err THEN "err" ELSE afterErr(calls[c])])
  /\ UNCHANGED seen

RecordErr(c) ==
  /\ at(c, "err")
  /\ st' = [st EXCEPT !.pool[calls[c].state].err = @ + 1]
  /\ goes(c, [calls[c] EXCEPT !.pc = afterErr(calls[c])])
  /\ UNCHANGED seen

RecordMiss(c) ==
  /\ at(c, "miss")
  /\ st' = [st EXCEPT !.pool[calls[c].state].miss = @ + 1]
  /\ goes(c, [calls[c] EXCEPT !.pc = "health"])
  /\ UNCHANGED seen

RecordHealth(c) ==
  /\ at(c, "health")
  /\ st' = [st EXCEPT !.pool[calls[c].state].healthy = calls[c].healthy]
  /\ seen' = [seen EXCEPT !.done[calls[c].key] =
                [req |-> @.req + 1, err |-> @.err + (IF calls[c].err THEN 1 ELSE 0),
                 miss |-> @.miss + (IF calls[c].miss THEN 1 ELSE 0)]]
  /\ goes(c, [calls[c] EXCEPT !.pc = "publish"])

(* Mutated form: bad health is not published. *)
published_Good(healthy) == healthy

published(healthy) == TRUE

(* publish, under the lock: a full channel is passed over. *)
Publish(c) ==
  LET k == calls[c].key
      takes(queue) == published(calls[c].healthy) /\ Len(queue) < AdminCapacity IN
  /\ at(c, "publish")
  /\ st' = [st EXCEPT !.subs = {IF takes(q) THEN Append(q, [key |-> k, healthy |-> calls[c].healthy]) ELSE q : q \in @}]
  /\ seen' = IF \E q \in st.subs : takes(q) THEN [seen EXCEPT !.told = put(@, k, calls[c].healthy)]
             ELSE IF \E q \in st.subs : published(calls[c].healthy) THEN [seen EXCEPT !.missed = @ \cup {k}]
             ELSE seen
  /\ returns(c)

(* handleEvents: the client comes, gets the events of its channel, and     *)
(* leaves, with what was in it.                                            *)
EventsBegin ==
  /\ st.subs = {}
  /\ st' = [st EXCEPT !.subs = {<<>>}]
  /\ seen' = [seen EXCEPT !.told = <<>>, !.missed = {k \in Administered : \E c \in Callers : recording(c) /\ calls[c].key = k}]
  /\ UNCHANGED calls

EventsSend ==
  /\ \E q \in st.subs : q # <<>> /\ st' = [st EXCEPT !.subs = {Tail(q)}]
  /\ UNCHANGED <<calls, seen>>

EventsEnd ==
  /\ st.subs # {} /\ st' = [st EXCEPT !.subs = {}]
  /\ seen' = [seen EXCEPT !.told = <<>>, !.missed = {}]
  /\ UNCHANGED calls

AdminNext ==
  \/ \E k \in Administered : AdminRegister(k) \/ AdminDeregister(k) \/ \E c \in Callers : HandleServer(c, k)
  \/ \E k \in Administered, c \in Callers, healthy, err, miss \in BOOLEAN : RecordRequest(c, k, healthy, err, miss)
  \/ \E c \in Callers : \/ RequestRefused(c) \/ HandleRequest(c) \/ RecordBegin(c) \/ RecordReq(c) \/ RecordErr(c)
                       \/ RecordMiss(c) \/ RecordHealth(c) \/ Publish(c)
  \/ EventsBegin \/ EventsSend \/ EventsEnd

----------------------------------------------------------------------------
(* A request meets no Controller only if its server was deregistered while *)
(* it was being read.                                                      *)
NilOnlyIfRemoved == seen.panics = {}

(* The last event of a server that a client gets tells the health that     *)
(* GET /servers reports, unless the client's channel was full or two       *)
(* requests were recorded at once.                                         *)
LastEventTells ==
  \A k \in DOMAIN seen.told \ (seen.missed \cup seen.mixed) :
    (\A c \in Callers : recording(c) => calls[c].key # k) =>
      seen.told[k] = st.pool[st.states[k]].healthy

(* What serverInfoFor tells of a server, with no request of it being       *)
(* recorded, is every request recorded for it, every failure and every     *)
(* missed deadline.                                                        *)
CountsAgree ==
  \A k \in Administered : (\A c \in Callers : at(c, "idle") \/ calls[c].key # k) =>
    LET d == seen.done[k] IN
    IF k \in DOMAIN st.states
      THEN LET r == st.pool[st.states[k]] IN r.req = d.req /\ r.err = d.err /\ r.miss = d.miss
      ELSE d.req = 0

-----------------------------------------------------------------------------
(* A behaviour is about one of the packages. *)
GatewaysInit ==
  \/ kind = "relay" /\ RelayInit
  \/ kind = "observe" /\ ObserveInit
  \/ kind = "admin" /\ AdminInit

GatewaysNext ==
  /\ \/ kind = "relay" /\ RelayNext
     \/ kind = "observe" /\ ObserveNext
     \/ kind = "admin" /\ AdminNext
  /\ UNCHANGED kind

GatewaysSpec == GatewaysInit /\ [][GatewaysNext]_vars

(* What is told of a Controller from the outside is what happened to it:   *)
(* the RELAY adapter counts its messages and ends its subscriptions and    *)
(* drains, the metrics count every request, and the administration server  *)
(* meets a missing Controller only if it was removed and reports the last  *)
(* event and all counts.                                                   *)
GatewaysSafe ==
  /\ kind = "relay" => CountersTell /\ SubscriptionsEnd /\ DrainedIsDone
  /\ kind = "observe" => EveryRequestCounted
  /\ kind = "admin" => NilOnlyIfRemoved /\ LastEventTells /\ CountsAgree
=============================================================================
