------------------------------ MODULE Handlers ------------------------------
(***************************************************************************)
(* Handlers that a request passes on its way to an endpoint: the proxy,    *)
(* the recorder with its fault rules, the authorization, the pacer of      *)
(* simulated endpoints, typed payloads and the router. One section per     *)
(* package; st is the state of the package's object, calls its goroutines  *)
(* and seen a history.                                                     *)
(***************************************************************************)
EXTENDS Integers, Sequences, Calls

CONSTANTS
  Proxied, Target, MaxNumber,                                  \* proxy
  Recorded, Addr, Faults, Forever, Ring, MaxRules,             \* record
  MaxEntries,                                                  \* record, authz
  Principals, Protected, Wildcard,                             \* authz
  Interval, MaxPacerTime,                                      \* sim
  Schemas, Payloads, MaxSends,                                 \* dyndata
  Routable, EP0, Asked, MaxHandlers, MaxRoutes                 \* udp.Router

-----------------------------------------------------------------------------
(***************************************************************************)
(* proxy.Handler: a request handler that sends each request on to another  *)
(* server, possibly to a different endpoint there, and gives the answer    *)
(* the address and the number of the original request.                     *)
(***************************************************************************)
(* st.number: the upstream controller's own transaction number.            *)
(* seen: the requests sent upstream with the answer each got.              *)
ProxyInit ==
  /\ st = [closed |-> FALSE, number |-> 0]
  /\ seen = {}
  /\ CallsInit

(* transform: an endpoint without an entry in Target is refused. *)
ProxyHandleRequest(c, addr, n) ==
  /\ at(c, "idle") /\ ~st.closed /\ addr \in DOMAIN Target
  /\ goes(c, [pc |-> "forward", addr |-> addr, number |-> n])
  /\ UNCHANGED <<st, seen>>

(* upstream.Request: it fails after Close or on a timeout. *)
Upstream(c) ==
  /\ at(c, "forward") /\ st.number < MaxNumber
  /\ \/ /\ ~st.closed
        /\ st' = [st EXCEPT !.number = @ + 1]
        /\ goes(c, [pc |-> "answer", req |-> calls[c],
                    resp |-> [addr |-> Target[calls[c].addr], number |-> st.number + 1,
                              body |-> st.number + 1]])
     \/ returns(c) /\ UNCHANGED st
  /\ UNCHANGED seen

(* Mutated form: the upstream answer is handed back as it is. *)
answer_Verbatim(req, resp) == resp

answer(req, resp) == [addr |-> req.addr, number |-> req.number, body |-> resp.body]

Answer(c) ==
  /\ at(c, "answer")
  /\ seen' = seen \cup {[req |-> calls[c].req, got |-> answer(calls[c].req, calls[c].resp)]}
  /\ returns(c)
  /\ UNCHANGED st

ProxyClose == ~st.closed /\ st' = [st EXCEPT !.closed = TRUE] /\ UNCHANGED <<calls, seen>>

ProxyNext ==
  \/ \E c \in Callers : \/ Upstream(c) \/ Answer(c)
                       \/ \E a \in Proxied, n \in 1..MaxNumber : ProxyHandleRequest(c, a, n)
  \/ ProxyClose

----------------------------------------------------------------------------
(* Every answer the proxy gives has the address and the number of the      *)
(* request it answers, and no upstream answer is given twice.              *)
AnswerFitsRequest ==
  /\ \A s \in seen : s.got.addr = s.req.addr /\ s.got.number = s.req.number
  /\ \A s, t \in seen : s.got.body = t.got.body => s = t

-----------------------------------------------------------------------------
(***************************************************************************)
(* The test handlers in a chain: record.Handler around faultinject.Handler *)
(* around mock.Endpoint.  The recorder keeps the last Max entries in a     *)
(* ring; a fault rule fires a number of times or, with Forever, always.    *)
(***************************************************************************)
ASSUME RecordingAssumption == Ring \in Nat \ {0} /\ Forever \in Int

(* seen: every entry appended, and how often each rule was added to fire   *)
(* and fired.                                                              *)
RecordingInit ==
  /\ st = [entries |-> [i \in 0..(Ring - 1) |-> <<>>], head |-> 0, count |-> 0,
           rules |-> <<>>, closed |-> FALSE]
  /\ seen = [log |-> <<>>, rules |-> <<>>]
  /\ CallsInit

AddRule(type, count) ==
  /\ Len(seen.rules) < MaxRules
  /\ st' = [st EXCEPT !.rules = Append(@, [type |-> type, count |-> count, fired |-> 0,
                                           id |-> Len(seen.rules) + 1])]
  /\ seen' = [seen EXCEPT !.rules = Append(@, [count |-> count, fired |-> 0])]
  /\ UNCHANGED calls

ClearRules == st.rules # <<>> /\ st' = [st EXCEPT !.rules = <<>>] /\ UNCHANGED <<calls, seen>>

RecordingHandleRequest(c, r) ==
  /\ at(c, "idle")
  /\ Len(seen.log) < MaxEntries
  /\ goes(c, [pc |-> "pick", req |-> r])
  /\ UNCHANGED <<st, seen>>

exhausted(rule) == rule.count > 0 /\ rule.fired >= rule.count

(* Mutated form: the rule stays after its last firing. *)
withoutRule_Not(rules, i) == rules

withoutRule(rules, i) == SubSeq(rules, 1, i - 1) \o SubSeq(rules, i + 1, Len(rules))

(* The first rule that is not exhausted fires and goes after its last      *)
(* firing.                                                                 *)
firstRule == {i \in DOMAIN st.rules : \A j \in 1..i : exhausted(st.rules[j]) <=> j < i}

pickRule(c) ==
  /\ at(c, "pick")
  /\ \/ /\ firstRule = {}
        /\ goes(c, [calls[c] EXCEPT !.pc = "inner"])
        /\ UNCHANGED <<st, seen>>
     \/ \E i \in firstRule :
          LET rule == [st.rules[i] EXCEPT !.fired = @ + 1]
              rules == [st.rules EXCEPT ![i] = rule]
          IN  /\ st' = [st EXCEPT !.rules = IF exhausted(rule) THEN withoutRule(rules, i) ELSE rules]
              /\ seen' = [seen EXCEPT !.rules[rule.id].fired = @ + 1]
              /\ goes(c, IF rule.type = "Slow" THEN [calls[c] EXCEPT !.pc = "inner"]
                         ELSE [pc |-> "record", req |-> calls[c].req, err |-> TRUE])

(* mock.Endpoint: an error when closed or not addressed, else an ack. *)
Inner(c) ==
  LET req == calls[c].req IN
  /\ at(c, "inner")
  /\ goes(c, [pc |-> "record", req |-> req, err |-> st.closed \/ req.addr # Addr])
  /\ UNCHANGED <<st, seen>>

RecordingClose == ~st.closed /\ st' = [st EXCEPT !.closed = TRUE] /\ UNCHANGED <<calls, seen>>

append(c) ==
  LET e == [req |-> calls[c].req, err |-> calls[c].err] IN
  /\ at(c, "record")
  /\ st' = [st EXCEPT !.entries[st.head] = e, !.head = (@ + 1) % Ring,
                      !.count = IF @ < Ring THEN @ + 1 ELSE @]
  /\ seen' = [seen EXCEPT !.log = Append(@, e)]
  /\ returns(c)

(* Mutated form: the oldest entry is looked for at the head. *)
Snapshot_AtHead == [i \in 1..st.count |-> st.entries[(st.head + i - 1) % Ring]]

Snapshot ==
  LET start == (st.head - st.count + Ring) % Ring IN
  [i \in 1..st.count |-> st.entries[(start + i - 1) % Ring]]

RecordingNext ==
  \/ \E c \in Callers : \/ pickRule(c) \/ Inner(c) \/ append(c)
                       \/ \E r \in Recorded : RecordingHandleRequest(c, r)
  \/ \E f \in Faults, n \in {1, 2, Forever} : AddRule(f, n)
  \/ ClearRules \/ RecordingClose

----------------------------------------------------------------------------
(* A snapshot is the newest entries, oldest first: as many as there are    *)
(* until the ring is full, and then the last Max.                          *)
SnapshotIsNewest ==
  LET n == Len(seen.log) IN
  Snapshot = SubSeq(seen.log, (IF n > Ring THEN n - Ring ELSE 0) + 1, n)

(* A rule never fires more often than it was added for, with any number of *)
(* requests picking rules at once, and it is there until it has.           *)
RulesFireAsAsked ==
  \A i \in DOMAIN seen.rules :
    LET rule == seen.rules[i] IN
    /\ rule.count > 0 => rule.fired <= rule.count
    /\ \A j \in DOMAIN st.rules : st.rules[j].id = i =>
         st.rules[j].fired = rule.fired /\ (rule.count > 0 => rule.fired < rule.count)

-----------------------------------------------------------------------------
(***************************************************************************)
(* authz: an ordered policy whose first matching entry decides, and the    *)
(* Controller that asks it before each request.                            *)
(***************************************************************************)
(* stream: whether the entry's stream is StreamAny or the Controller's.    *)
Entry == [principal : Principals \cup {Wildcard}, stream : BOOLEAN, endpoint : Protected \cup {Wildcard},
          action : {"Allow", "Deny"}]

(* seen: whether each request forwarded so far was allowed as the property *)
(* below says.                                                             *)
AuthzInit ==
  /\ st = [entries |-> <<>>, closed |-> FALSE]
  /\ seen = TRUE
  /\ CallsInit

(* Policy.Allow and Policy.Deny *)
Add(e) ==
  /\ Len(st.entries) < MaxEntries
  /\ st' = [st EXCEPT !.entries = Append(@, e)]
  /\ UNCHANGED <<calls, seen>>

SetEntries(es) == st' = [st EXCEPT !.entries = es] /\ UNCHANGED <<calls, seen>>

match(pattern, actual) == pattern = Wildcard \/ pattern = actual
matches(e, p, ep) == match(e.principal, p) /\ e.stream /\ match(e.endpoint, ep)

(* Mutated form: the last matching entry decides. *)
Evaluate_Last(p, ep) ==
  LET f[i \in 0..Len(st.entries)] ==
        IF i = 0 THEN FALSE
        ELSE IF matches(st.entries[i], p, ep) THEN st.entries[i].action = "Allow" ELSE f[i - 1]
  IN  f[Len(st.entries)]

(* The loop over the entries, which denies when it runs out of them. *)
Evaluate(p, ep) ==
  LET f[i \in 1..(Len(st.entries) + 1)] ==
        IF i > Len(st.entries) THEN FALSE
        ELSE IF matches(st.entries[i], p, ep) THEN st.entries[i].action = "Allow" ELSE f[i + 1]
  IN  f[1]

Allowed(p, ep) ==
  \E i \in DOMAIN st.entries :
    /\ matches(st.entries[i], p, ep) /\ st.entries[i].action = "Allow"
    /\ \A j \in 1..(i - 1) : ~matches(st.entries[j], p, ep)

RequestBegin(c, p, ep) ==
  /\ at(c, "idle") /\ ~st.closed
  /\ goes(c, [pc |-> "judge", p |-> p, ep |-> ep])
  /\ UNCHANGED <<st, seen>>

RequestJudge(c) ==
  LET k == calls[c] IN
  /\ at(c, "judge")
  /\ IF Evaluate(k.p, k.ep)
       THEN /\ goes(c, [pc |-> "forward"])
            /\ seen' = (seen /\ Allowed(k.p, k.ep))
       ELSE returns(c) /\ UNCHANGED seen
  /\ UNCHANGED st

AuthzRequestForward(c) == at(c, "forward") /\ returns(c) /\ UNCHANGED <<st, seen>>

AuthzClose == ~st.closed /\ st' = [st EXCEPT !.closed = TRUE] /\ UNCHANGED <<calls, seen>>

AuthzNext ==
  \/ \E c \in Callers : \/ RequestJudge(c) \/ AuthzRequestForward(c)
                       \/ \E p \in Principals, ep \in Protected : RequestBegin(c, p, ep)
  \/ \E e \in Entry : Add(e)
  \/ SetEntries(<<>>)
  \/ AuthzClose

----------------------------------------------------------------------------
(* A request is forwarded only if, in the policy in force when it was      *)
(* judged, the first entry that concerns it allows it; without any such    *)
(* entry nothing is forwarded.                                             *)
ForwardedWasAllowed == seen

-----------------------------------------------------------------------------
(***************************************************************************)
(* sim.Pacer: calls fire at most once per interval, from Pump calls that   *)
(* come at any time from any goroutine; Reset lets the next one fire.      *)
(***************************************************************************)
ASSUME PacerAssumption == Interval \in Int

(* seen: when the last two firings were decided, if Reset was not called   *)
(* between them.                                                           *)
PacerInit ==
  /\ st = [last |-> 0, armed |-> FALSE, now |-> 0]
  /\ seen = [last |-> -1, gap |-> Interval]
  /\ CallsInit

Tick == st.now < MaxPacerTime /\ st' = [st EXCEPT !.now = @ + 1] /\ UNCHANGED <<calls, seen>>

(* Mutated form: the time of the firing is not kept. *)
due_Stale == [st EXCEPT !.armed = TRUE]

due == [st EXCEPT !.armed = TRUE, !.last = st.now]

(* fire runs after the lock is released. *)
Pump(c) ==
  /\ at(c, "idle")
  /\ ~(st.armed /\ st.now - st.last < Interval)
  /\ st' = due
  /\ seen' = [last |-> st.now, gap |-> IF seen.last < 0 THEN Interval ELSE st.now - seen.last]
  /\ goes(c, [pc |-> "fire"])

Fire(c) == at(c, "fire") /\ returns(c) /\ UNCHANGED <<st, seen>>

Reset ==
  /\ st' = [st EXCEPT !.armed = FALSE]
  /\ seen' = [last |-> -1, gap |-> Interval]
  /\ UNCHANGED calls

PacerNext == (\E c \in Callers : Pump(c) \/ Fire(c)) \/ Tick \/ Reset

----------------------------------------------------------------------------
(* Two firings with no Reset between them are an interval apart, whichever *)
(* goroutines they belong to.                                              *)
FiringsSpaced == seen.gap >= Interval

-----------------------------------------------------------------------------
(***************************************************************************)
(* dyndata: schemas in a Registry, and payloads that are checked against   *)
(* them before they are sent as JSON.  A payload is a function from field  *)
(* names to the Go types of the values.                                    *)
(***************************************************************************)
ASSUME TypedAssumption ==
  \A s \in Schemas : \A f \in s.fields : f.kind \in {"string", "int", "float", "bool", "bytes"}

(* st.schemas: name -> schema [name, fields]; a field is [name, kind,      *)
(* required].  seen.sent: the schema and the payload of what went out.     *)
TypedInit ==
  /\ st = [schemas |-> <<>>, closed |-> 0]
  /\ seen = [sent |-> {}, n |-> 0]
  /\ CallsInit

(* Register; Lookup is the read of the map. *)
RegisterSchema(s) ==
  /\ st' = IF s.name \in DOMAIN st.schemas THEN st
           ELSE [st EXCEPT !.schemas = put(@, s.name, s)]
  /\ UNCHANGED <<calls, seen>>

(* Mutated form: an integer that went through JSON is not taken for one. *)
goTypes_NoJSON(k) ==
  CASE k = "string" -> {"string"} [] k = "int" -> {"int"} [] k = "float" -> {"float32", "float64"}
    [] k = "bool" -> {"bool"} [] k = "bytes" -> {"string", "[]byte"}

(* checkKind: the Go types of a kind, with int for every integer type.     *)
goTypes(k) ==
  CASE k = "string" -> {"string"} [] k = "int" -> {"int", "float64"} [] k = "float" -> {"float32", "float64"}
    [] k = "bool" -> {"bool"} [] k = "bytes" -> {"string", "[]byte"}

Encodes(s, p) ==
  /\ DOMAIN p \subseteq {f.name : f \in s.fields}
  /\ \A f \in s.fields : IF f.name \in DOMAIN p THEN p[f.name] \in goTypes(f.kind) ELSE ~f.required

(* What json.Unmarshal makes of the values that json.Marshal wrote. *)
jsonType(type) ==
  CASE type \in {"int", "float32", "float64"} -> "float64" [] type \in {"string", "[]byte"} -> "string"
    [] type = "bool" -> "bool"

Decode(p) == [f \in DOMAIN p |-> jsonType(p[f])]

(* SendTyped: Lookup, and then Encode and the request. *)
SendTypedBegin(c, name) ==
  /\ at(c, "idle") /\ name \in DOMAIN st.schemas /\ seen.n < MaxSends
  /\ goes(c, [pc |-> "encode", s |-> st.schemas[name]])
  /\ seen' = [seen EXCEPT !.n = @ + 1]
  /\ UNCHANGED st

SendTypedEnd(c, p) ==
  /\ at(c, "encode")
  /\ seen' = IF Encodes(calls[c].s, p) /\ st.closed = 0 THEN [seen EXCEPT !.sent = @ \cup {[s |-> calls[c].s.name, p |-> p]}]
             ELSE seen
  /\ returns(c)
  /\ UNCHANGED st

(* Close, once; inner.Request fails afterwards. *)
TypedClose ==
  /\ st.closed = 0
  /\ st' = [st EXCEPT !.closed = 1]
  /\ UNCHANGED <<calls, seen>>

TypedNext ==
  \/ \E s \in Schemas : RegisterSchema(s)
  \/ \E c \in Callers : \/ \E s \in Schemas : SendTypedBegin(c, s.name)
                       \/ \E p \in Payloads : SendTypedEnd(c, p)
  \/ TypedClose
----------------------------------------------------------------------------
(* What was sent fits the schema that is registered under the name, and    *)
(* the payload the receiver decodes can be sent on under the same schema:  *)
(* a schema is never replaced, and JSON turns no value into one that       *)
(* Encode refuses.                                                         *)
DecodedFitsSchema ==
  \A x \in seen.sent : Encodes(st.schemas[x.s], x.p) /\ Encodes(st.schemas[x.s], Decode(x.p))

-----------------------------------------------------------------------------
(***************************************************************************)
(* udp.Router and udp.EP0Handler: how one decoded request is answered,     *)
(* with what error code, and when in silence, while handlers come and go.  *)
(* The look at the table and the call of the handler are two steps.        *)
(***************************************************************************)
(* A request: timed and long are the framings, selects says that evt[2:0]  *)
(* is not zero, body that it has a payload, rw is the Control flag.        *)
AnyRequest ==
  [addr : Routable \cup {EP0}, timed : BOOLEAN, long : BOOLEAN, selects : BOOLEAN, body : BOOLEAN,
   rw : {"Read", "Write", "None"}]

(* The sentinels errorCodeFor looks for, and one that it does not know. *)
HandlerErrors ==
  {"acf.ErrEVTReserved", "acf.ErrEVTMissingPayload", "request.ErrSafeStateNotConfigured",
   "request.ErrInvalidSegmentCount", "request.ErrChainedSegmentFailed", "request.ErrUnknownTicket",
   "request.ErrTicketCancelled", "request.ErrPurgedByWatchdog", "e2e.ErrCRCMismatch",
   "regmap.ErrAccessDenied", "regmap.ErrNotRootClient", "regmap.ErrRootAlreadyClaimed",
   "regmap.ErrRegisterLocked", "regmap.ErrGeneralBlockReadOnly", "regmap.ErrUnknownEndpoint",
   "pwm.ErrSignalLost", "another"}

UnsupportedCommand == 1
UnauthorizedAccess == 3
LockedMemAccess == 4
RequestCancelled == 5
RequestNotFound == 6
EPNotFound == 8
PWMInNoSignal == 9
POCIFailure == 12
InvalidParameter == 15
ChainAborted == 16
ChainError == 17

Valid(code) == code \in 1..17

errorCodeFor(err) ==
  CASE err \in {"ErrUnknownEndpoint", "acf.ErrEVTReserved", "acf.ErrEVTMissingPayload",
                "request.ErrSafeStateNotConfigured"} -> UnsupportedCommand
    [] err = "request.ErrInvalidSegmentCount" -> ChainError
    [] err = "request.ErrChainedSegmentFailed" -> ChainAborted
    [] err = "request.ErrUnknownTicket" -> RequestNotFound
    [] err \in {"request.ErrTicketCancelled", "request.ErrPurgedByWatchdog"} -> RequestCancelled
    [] err = "e2e.ErrCRCMismatch" -> POCIFailure
    [] err \in {"regmap.ErrAccessDenied", "regmap.ErrNotRootClient", "regmap.ErrRootAlreadyClaimed"}
         -> UnauthorizedAccess
    [] err \in {"regmap.ErrRegisterLocked", "regmap.ErrGeneralBlockReadOnly"} -> LockedMemAccess
    [] err = "regmap.ErrUnknownEndpoint" -> EPNotFound
    [] err = "pwm.ErrSignalLost" -> PWMInNoSignal
    [] OTHER -> InvalidParameter

(* errorResponse with EncodeErrorBody, and responseFor. *)
errorResponse(r, err) == [error |-> TRUE, rw |-> r.rw, code |-> errorCodeFor(err), text |-> err]
responseFor(r) == [error |-> FALSE, rw |-> r.rw, code |-> 0, text |-> "none"]
Silence == [error |-> FALSE, rw |-> "none", code |-> 0, text |-> "silence"]

(* st.handlers: the handler of each address, 0 for none; handlers are      *)
(* numbered in the order of their registration.  seen.asked: the handler   *)
(* each address should have by the calls made.  seen.last: the last reply  *)
(* of a Route, the handler called for it (0 for none) and those the        *)
(* address should have had meanwhile.                                      *)
RouterInit ==
  /\ st \in [handlers : {[a \in Routable |-> 0]}, timeSyncSupported : BOOLEAN]
  /\ seen = [made |-> 0, routes |-> 0, asked |-> [a \in Routable |-> 0], last |-> {}]
  /\ CallsInit

(* h is asked for at address a, and is noted by every Route under way there. *)
noted(a, h) ==
  /\ seen' = [seen EXCEPT !.asked[a] = h, !.made = IF h = 0 THEN @ ELSE h]
  /\ calls' = [c \in Callers |-> IF at(c, "idle") \/ calls[c].req.addr # a THEN calls[c]
                                ELSE [calls[c] EXCEPT !.during = @ \cup {h}]]

Register(a) ==
  /\ seen.made < MaxHandlers
  /\ st.handlers[a] = 0
  /\ st' = [st EXCEPT !.handlers[a] = seen.made + 1]
  /\ noted(a, seen.made + 1)

(* Mutated form: the handler stays. *)
removed_Not(a) == st.handlers

removed(a) == [st.handlers EXCEPT ![a] = 0]

Deregister(a) ==
  /\ st.handlers[a] # 0
  /\ st' = [st EXCEPT !.handlers = removed(a)]
  /\ noted(a, 0)

answers(r, during, by, reply) ==
  seen' = [seen EXCEPT !.routes = @ + 1,
                       !.last = {[req |-> r, during |-> during, by |-> by, reply |-> reply]}]

(* Mutated form: every failure is passed over in silence. *)
silent_Any(err) == TRUE

silent(err) == err \in {"ErrDiscoveryRequiresUntimedHeader", "ErrDiscoveryRequestIsACFGBB"}

failed(r, err) == IF silent(err) THEN Silence ELSE errorResponse(r, err)

HandleDiscoveryRequest(r) ==
  IF r.timed THEN failed(r, "ErrDiscoveryRequiresUntimedHeader")
  ELSE IF r.long THEN failed(r, "ErrDiscoveryRequestIsACFGBB")
  ELSE responseFor(r)

(* EP0Handler.HandleRequest; WriteEP0 may refuse. *)
EP0Replies(r) ==
  CASE r.rw = "Write" -> {responseFor(r)} \cup
         {failed(r, err) : err \in {"regmap.ErrNotRootClient", "regmap.ErrRegisterLocked",
                                    "regmap.ErrGeneralBlockReadOnly", "another"}}
    [] r.rw = "Read" -> {HandleDiscoveryRequest(r)}
    [] OTHER -> {failed(r, "ErrRequestMustReadOrWrite")}

dropped(r) == r.timed /\ ~st.timeSyncSupported
missingPayload(r) == r.selects /\ ~r.body

(* Route, when no handler is to be called. *)
RouteAtOnce(c, r) ==
  /\ at(c, "idle") /\ seen.routes < MaxRoutes
  /\ \/ dropped(r) /\ answers(r, {}, 0, Silence)
     \/ ~dropped(r) /\ missingPayload(r) /\ answers(r, {}, 0, errorResponse(r, "acf.ErrEVTMissingPayload"))
     \/ /\ ~dropped(r) /\ ~missingPayload(r) /\ r.addr = EP0
        /\ \E reply \in EP0Replies(r) : answers(r, {}, 0, reply)
  /\ UNCHANGED <<st, calls>>

(* Route of another address, up to the lock, *)
RouteBegin(c, r) ==
  /\ at(c, "idle") /\ seen.routes < MaxRoutes
  /\ ~dropped(r) /\ ~missingPayload(r) /\ r.addr # EP0
  /\ goes(c, [pc |-> "lookup", req |-> r, during |-> {seen.asked[r.addr]}])
  /\ UNCHANGED <<st, seen>>

(* the look under the lock, *)
RouteLookup(c) ==
  LET k == calls[c] h == st.handlers[calls[c].req.addr] IN
  /\ at(c, "lookup")
  /\ IF h = 0
       THEN returns(c) /\ answers(k.req, k.during, 0, failed(k.req, "ErrUnknownEndpoint"))
       ELSE goes(c, [pc |-> "handle", req |-> k.req, during |-> k.during, h |-> h]) /\ UNCHANGED seen
  /\ UNCHANGED st

(* and the handler that was found, which answers or fails. *)
RouteHandle(c) ==
  LET k == calls[c] IN
  /\ at(c, "handle")
  /\ \/ answers(k.req, k.during, k.h, responseFor(k.req))
     \/ \E err \in HandlerErrors : answers(k.req, k.during, k.h, failed(k.req, err))
  /\ returns(c)
  /\ UNCHANGED st

RouterNext ==
  \/ \E a \in Routable : Register(a) \/ Deregister(a)
  \/ \E c \in Callers : \/ RouteLookup(c) \/ RouteHandle(c)
                       \/ \E r \in Asked \cap AnyRequest : RouteAtOnce(c, r) \/ RouteBegin(c, r)

(* A handler is called for a request only if it was registered for the     *)
(* address at some moment of the Route: one that was deregistered before   *)
(* is never called.  An endpoint registered all along is never unknown.    *)
AnsweredByRegistered ==
  \A p \in seen.last :
    /\ p.by # 0 => p.by \in p.during
    /\ p.reply.text = "ErrUnknownEndpoint" => 0 \in p.during

(* A client waits in vain only where TC18 wants it to: for a timed request *)
(* to a server without time synchronisation, and for a discovery read that *)
(* is timed or long.  Every error it gets has a code of the table.         *)
SilentOnlyAsSpecified ==
  \A p \in seen.last :
    IF p.reply = Silence
      THEN \/ p.req.timed /\ ~st.timeSyncSupported
           \/ p.req.addr = EP0 /\ p.req.rw = "Read" /\ (p.req.timed \/ p.req.long)
      ELSE p.reply.rw = p.req.rw /\ (p.reply.error <=> Valid(p.reply.code))

-----------------------------------------------------------------------------
(* A behaviour is about one of the packages. *)
HandlersInit ==
  \/ kind = "proxy" /\ ProxyInit
  \/ kind = "recording" /\ RecordingInit
  \/ kind = "authz" /\ AuthzInit
  \/ kind = "pacer" /\ PacerInit
  \/ kind = "typed" /\ TypedInit
  \/ kind = "router" /\ RouterInit

HandlersNext ==
  /\ \/ kind = "proxy" /\ ProxyNext
     \/ kind = "recording" /\ RecordingNext
     \/ kind = "authz" /\ AuthzNext
     \/ kind = "pacer" /\ PacerNext
     \/ kind = "typed" /\ TypedNext
     \/ kind = "router" /\ RouterNext
  /\ UNCHANGED kind

HandlersSpec == HandlersInit /\ [][HandlersNext]_vars

(* What stands between a request and its endpoint neither mixes requests   *)
(* up nor lets through what it should stop: a proxied answer fits its      *)
(* request, a fault rule fires as often as asked and the snapshot is the   *)
(* newest log, a forwarded request was allowed by the first entry about    *)
(* it, firings of a pacer are apart, a decoded payload fits the schema it  *)
(* was sent under, and the router answers through a handler registered     *)
(* during Route, silently only where TC18 wants it.                        *)
HandlersSafe ==
  /\ kind = "proxy" => AnswerFitsRequest
  /\ kind = "recording" => RulesFireAsAsked /\ SnapshotIsNewest
  /\ kind = "authz" => ForwardedWasAllowed
  /\ kind = "pacer" => FiringsSpaced
  /\ kind = "typed" => DecodedFitsSchema
  /\ kind = "router" => AnsweredByRegistered /\ SilentOnlyAsSpecified
=============================================================================
