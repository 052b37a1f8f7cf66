------------------------------ MODULE Clients -------------------------------
(***************************************************************************)
(* What a client puts around or beside a udp.Controller: failover, rate    *)
(* limiting, the priority queue, loaned buffers, broadcasts to a group,    *)
(* the firmware update, the deadline monitor and the mDNS query.  One      *)
(* section per package; st is the state of the package's object, calls its *)
(* goroutines and seen a history.                                          *)
(***************************************************************************)
EXTENDS Integers, Sequences, Functions, Calls

CONSTANTS
  Links, MaxFailovers,                                \* redundancy
  Addrs, MaxRequests, Rate, Burst, Scale,             \* ratelimit
  ExemptCancellation,                                 \* ratelimit
  MaxTime,                                            \* ratelimit, deadline
  RequestKinds, Priority, Invalid, MaxItems,                 \* prioqueue
  N,                                                  \* zonegroup
  Images, ChunkSize, MaxImageSize, MaxUpdates,          \* firmware
  Streams, Heartbeat, Missed,                         \* deadline
  Sizes, NewCap, MaxSlots, MaxBuffers,                \* loan
  MaxQueries                                          \* mdns

-----------------------------------------------------------------------------
(***************************************************************************)
(* redundancy.Controller: two udp.Controllers, the second of which takes   *)
(* over when a request on the first fails.                                 *)
(***************************************************************************)
ASSUME RedundancyAssumption == \E a, b \in Links : a # b /\ Links = {a, b}

(* seen: the links that failed a request, and those that were closed. *)
RedundancyInit ==
  /\ \E p, s \in Links : p # s /\ st = [primary |-> p, standby |-> s, failovers |-> 0,
                                        closed |-> FALSE]
  /\ seen = [failed |-> {}, shut |-> {}]
  /\ CallsInit

RedundancyRequestBegin(c) ==
  /\ at(c, "idle") /\ ~st.closed
  /\ goes(c, [pc |-> "request", active |-> st.primary])
  /\ UNCHANGED <<st, seen>>

(* The link answers, or fails with an error for which policy says whether  *)
(* to fail over; a closed link always fails.                               *)
RedundancyRequestReturn(c) ==
  /\ at(c, "request")
  /\ \/ calls[c].active \notin seen.shut /\ returns(c) /\ UNCHANGED seen
     \/ returns(c) /\ UNCHANGED seen
     \/ /\ goes(c, [calls[c] EXCEPT !.pc = "failover"])
        /\ seen' = [seen EXCEPT !.failed = @ \cup {calls[c].active}]
  /\ UNCHANGED st

(* Mutated form: every failed request swaps. *)
failover_Always(active) ==
  st' = [st EXCEPT !.primary = st.standby, !.standby = st.primary, !.failovers = @ + 1]

failover(active) ==
  st' = IF st.primary = active
          THEN [st EXCEPT !.primary = st.standby, !.standby = st.primary, !.failovers = @ + 1]
          ELSE st

RequestFailover(c) ==
  /\ at(c, "failover") /\ st.failovers < MaxFailovers
  /\ failover(calls[c].active)
  /\ returns(c)
  /\ UNCHANGED seen

RedundancyCloseBegin(c) ==
  /\ at(c, "idle") /\ ~st.closed
  /\ st' = [st EXCEPT !.closed = TRUE]
  /\ goes(c, [pc |-> "close"])
  /\ UNCHANGED seen

(* Both links are read in one critical section and closed after it. *)
CloseRead(c) ==
  /\ at(c, "close")
  /\ goes(c, [pc |-> "shut", left |-> <<st.primary, st.standby>>])
  /\ UNCHANGED <<st, seen>>

(* Mutated form: the second link is read when its turn comes. *)
closes_Rereads(left) == IF Len(left) = 2 THEN {left[1]} ELSE {st.standby}

closes(left) == {Head(left)}

CloseLink(c) ==
  /\ at(c, "shut")
  /\ seen' = [seen EXCEPT !.shut = @ \cup closes(calls[c].left)]
  /\ goes(c, IF Len(calls[c].left) = 1 THEN Idle ELSE [calls[c] EXCEPT !.left = Tail(@)])
  /\ UNCHANGED st

RedundancyNext ==
  \E c \in Callers : \/ RedundancyRequestBegin(c) \/ RedundancyRequestReturn(c) \/ RequestFailover(c)
                    \/ RedundancyCloseBegin(c) \/ CloseRead(c) \/ CloseLink(c)

----------------------------------------------------------------------------
(* However many requests are in flight on a link when it fails, they fail  *)
(* over once: a second swap means that both links have failed.             *)
OneFailoverPerFailure == st.failovers > 1 => seen.failed = Links

(* Close closes both links, whatever failovers run beside it. *)
CloseShutsBoth ==
  st.closed /\ (\A c \in Callers : calls[c].pc \notin {"close", "shut"}) => seen.shut = Links

-----------------------------------------------------------------------------
(***************************************************************************)
(* ratelimit.Controller: a token bucket per endpoint in front of a         *)
(* udp.Controller.  Tokens are counted in parts, Scale to the token, and   *)
(* Rate is the number of parts that one unit of the clock brings.          *)
(***************************************************************************)
ASSUME RateLimitAssumption == Rate \in Nat /\ Burst \in Nat /\ Scale \in Nat

(* seen: per endpoint, the requests let through the bucket, and when the   *)
(* first one asked.                                                        *)
RateLimitInit ==
  /\ st = [buckets |-> [a \in {} |-> 0], closed |-> FALSE, now |-> 0]
  /\ seen = [a \in Addrs |-> [admitted |-> 0, since |-> 0]]
  /\ CallsInit

RateLimitTick == st.now < MaxTime /\ st' = [st EXCEPT !.now = @ + 1] /\ UNCHANGED <<calls, seen>>

forward == [pc |-> "forward"]

(* A cancellation that is exempt skips the bucket. *)
RateLimitRequestBegin(c, addr, cancellation) ==
  /\ at(c, "idle") /\ ~st.closed
  /\ goes(c, IF ExemptCancellation /\ cancellation THEN forward
                                                   ELSE [pc |-> "take", addr |-> addr])
  /\ UNCHANGED <<st, seen>>

bucket(addr) ==
  IF addr \in DOMAIN st.buckets THEN st.buckets[addr] ELSE [tokens |-> Burst * Scale, last |-> st.now]

(* Mutated form: the time of the last refill is not remembered. *)
refilled_Again(b) ==
  LET tokens == b.tokens + (st.now - b.last) * Rate IN
  [tokens |-> IF tokens > Burst * Scale THEN Burst * Scale ELSE tokens, last |-> b.last]

refilled(b) ==
  LET tokens == b.tokens + (st.now - b.last) * Rate IN
  [tokens |-> IF tokens > Burst * Scale THEN Burst * Scale ELSE tokens, last |-> st.now]

take(c) ==
  LET addr == calls[c].addr
      first == addr \notin DOMAIN st.buckets
      b == refilled(bucket(addr))
      ok == b.tokens >= Scale
      keep(left) == [a \in DOMAIN st.buckets \cup {addr} |->
                       IF a = addr THEN [b EXCEPT !.tokens = left] ELSE st.buckets[a]]
  IN  /\ seen[addr].admitted < MaxRequests
      /\ st' = [st EXCEPT !.buckets = keep(IF ok THEN b.tokens - Scale ELSE b.tokens)]
      /\ goes(c, IF ok THEN forward ELSE Idle)
      /\ seen' = [seen EXCEPT ![addr] = [admitted |-> IF ok THEN @.admitted + 1 ELSE @.admitted,
                                         since |-> IF first THEN st.now ELSE @.since]]

RequestTake(c) == at(c, "take") /\ take(c)

(* inner.Request *)
RateLimitRequestForward(c) == at(c, "forward") /\ returns(c) /\ UNCHANGED <<st, seen>>

RateLimitClose == ~st.closed /\ st' = [st EXCEPT !.closed = TRUE] /\ UNCHANGED <<calls, seen>>

RateLimitNext ==
  \/ \E c \in Callers : \/ RequestTake(c) \/ RateLimitRequestForward(c)
                       \/ \E a \in Addrs, k \in BOOLEAN : RateLimitRequestBegin(c, a, k)
  \/ RateLimitTick \/ RateLimitClose

----------------------------------------------------------------------------
(* From its first request on, an endpoint never sees more requests than    *)
(* the burst and what the rate has brought since, in any interleaving of   *)
(* callers and endpoints.                                                  *)
AdmittedWithinRate ==
  \A a \in Addrs : seen[a].admitted * Scale <= Burst * Scale + Rate * (st.now - seen[a].since)

-----------------------------------------------------------------------------
(***************************************************************************)
(* prioqueue.Queue: items come out by the priority of their kind and, for  *)
(* one priority, in the order in which they came in.                       *)
(***************************************************************************)
ASSUME PrioQueueAssumption == Priority \in [RequestKinds -> Nat]

(* seen: the items handed out, in order. *)
PrioQueueInit == st = [h |-> {}, seq |-> 0] /\ calls = <<>> /\ seen = <<>>

validKind(k) == k \in RequestKinds

Push(k) ==
  /\ validKind(k)
  /\ st.seq < MaxItems
  /\ st' = [h |-> st.h \cup {[kind |-> k, seq |-> st.seq + 1]}, seq |-> st.seq + 1]
  /\ UNCHANGED <<calls, seen>>

(* Mutated form: items of one priority compare equal. *)
Less_Unstable(x, y) == Priority[x.kind] < Priority[y.kind]

Less(x, y) ==
  IF Priority[x.kind] # Priority[y.kind] THEN Priority[x.kind] < Priority[y.kind]
                                         ELSE x.seq < y.seq

(* heap.Pop removes an item that no other is Less than. *)
heapPop(h) == {x \in h : \A y \in h : ~Less(y, x)}

Pop ==
  \E x \in heapPop(st.h) :
    /\ st' = [st EXCEPT !.h = @ \ {x}]
    /\ seen' = Append(seen, x)
    /\ UNCHANGED calls

(* PopAll, item by item and without a gap. *)
PopAll ==
  /\ st.h # {}
  /\ \E n \in 1..st.seq : \E out \in [1..n -> st.h] :
       /\ Range(out) = st.h /\ \A i, j \in 1..n : out[i] = out[j] => i = j
       /\ \A i \in DOMAIN out : out[i] \in heapPop({out[j] : j \in i..Len(out)})
       /\ seen' = seen \o out
  /\ st' = [st EXCEPT !.h = {}]
  /\ UNCHANGED calls

PrioQueueNext == (\E k \in RequestKinds \cup {Invalid} : Push(k)) \/ Pop \/ PopAll

----------------------------------------------------------------------------
(* Whatever pushes and pops interleave, two requests of one priority never *)
(* change places, and a request is overtaken only by one of a better       *)
(* priority.                                                               *)
NoOvertaking ==
  \A i, j \in DOMAIN seen :
    i < j /\ seen[j].seq < seen[i].seq => Priority[seen[i].kind] < Priority[seen[j].kind]

-----------------------------------------------------------------------------
(***************************************************************************)
(* zonegroup.Group: one request broadcast to several controllers, one      *)
(* goroutine for each, and their results in the order of the members.      *)
(***************************************************************************)
Members == 1..N

(* NewGroup refuses a group without members. *)
ZoneGroupInit ==
  /\ N > 0
  /\ st = [closed |-> FALSE, shut |-> {}]
  /\ seen = 0
  /\ CallsInit

BroadcastBegin(c) ==
  /\ at(c, "idle") /\ ~st.closed
  /\ goes(c, [pc |-> "wait", left |-> Members, results |-> [i \in Members |-> [by |-> 0]]])
  /\ UNCHANGED <<st, seen>>

(* Mutated form: every goroutine stores at the place of the last member. *)
stores_Last(results, m, r) == [results EXCEPT ![N] = [by |-> m, result |-> r]]

stores(results, m, r) == [results EXCEPT ![m] = [by |-> m, result |-> r]]

(* Member m answers, answers with the error flag, or fails; a closed one   *)
(* fails.                                                                  *)
MemberDone(c, m) ==
  /\ at(c, "wait") /\ m \in calls[c].left
  /\ \E r \in IF m \in st.shut THEN {"err"} ELSE {"ok", "flag", "err"} :
       goes(c, [calls[c] EXCEPT !.left = @ \ {m}, !.results = stores(@, m, r)])
  /\ UNCHANGED <<st, seen>>

OK(results) == \A i \in Members : results[i].result \notin {"err", "flag"}
Errors(results) == {i \in Members : results[i].result = "err" \/ results[i].result = "flag"}

(* wg.Wait returns. *)
BroadcastEnd(c) ==
  /\ at(c, "wait") /\ calls[c].left = {}
  /\ goes(c, [pc |-> "done", results |-> calls[c].results])
  /\ UNCHANGED <<st, seen>>

BroadcastLeave(c) == at(c, "done") /\ returns(c) /\ UNCHANGED <<st, seen>>

ZoneGroupClose ==
  /\ ~st.closed
  /\ st' = [st EXCEPT !.closed = TRUE]
  /\ UNCHANGED <<calls, seen>>

CloseMember(m) ==
  /\ st.closed /\ m \notin st.shut /\ \A l \in Members : l < m => l \in st.shut
  /\ st' = [st EXCEPT !.shut = @ \cup {m}]
  /\ UNCHANGED <<calls, seen>>

ZoneGroupNext ==
  \/ \E c \in Callers : \/ BroadcastBegin(c) \/ BroadcastEnd(c) \/ BroadcastLeave(c)
                       \/ \E m \in Members : MemberDone(c, m)
  \/ ZoneGroupClose \/ \E m \in Members : CloseMember(m)

----------------------------------------------------------------------------
(* The result of a broadcast has the result of every member, in its place, *)
(* in whatever order they came and although the group was being closed;    *)
(* OK says so exactly when Errors is empty.                                *)
EveryMemberAnswered ==
  \A c \in Callers : at(c, "done") =>
    LET r == calls[c].results IN
    (\A m \in Members : r[m].by = m) /\ (OK(r) <=> Errors(r) = {})

-----------------------------------------------------------------------------
(***************************************************************************)
(* firmware.Updater: an image sent to an endpoint chunk by chunk, then a   *)
(* request to verify it.  An image is a sequence of bytes and its checksum *)
(* the image itself.                                                       *)
(***************************************************************************)
ASSUME FirmwareAssumption ==
  ChunkSize \in Nat \ {0} /\ \A image \in Images : image \in Seq(Range(image))

(* seen: the bytes the endpoint has assembled, each image that was sent    *)
(* with success beside what was assembled then, and the number of updates. *)
FirmwareInit ==
  /\ st = [active |-> FALSE]
  /\ seen = [bytes |-> <<>>, good |-> {}, count |-> 0]
  /\ CallsInit

(* Mutated form: an update starts beside another. *)
mayStart_Always == TRUE

mayStart == ~st.active

UpdateBegin(c, image) ==
  /\ at(c, "idle") /\ seen.count < MaxUpdates
  /\ Len(image) \in 1..MaxImageSize
  /\ mayStart
  /\ st' = [active |-> TRUE]
  /\ goes(c, [pc |-> "send", image |-> image, offset |-> 0])
  /\ seen' = [seen EXCEPT !.count = @ + 1]

chunk(image, offset) ==
  [total |-> Len(image), offset |-> offset, crc |-> image,
   data |-> SubSeq(image, offset + 1,
                   IF offset + ChunkSize > Len(image) THEN Len(image) ELSE offset + ChunkSize)]

(* The endpoint: a chunk at offset 0 starts an image anew. *)
takes(ch) == seen' = [seen EXCEPT !.bytes = IF ch.offset = 0 THEN ch.data ELSE @ \o ch.data]

fails(c) == returns(c) /\ st' = [active |-> FALSE]

(* One chunk.  It is delivered and accepted, or the update fails: the      *)
(* chunk or the answer was lost, or the endpoint refused it.               *)
UpdateChunk(c) ==
  LET k == calls[c] IN
  /\ at(c, "send") /\ k.offset < Len(k.image)
  /\ \/ /\ takes(chunk(k.image, k.offset))
        /\ goes(c, [k EXCEPT !.offset = @ + ChunkSize])
        /\ UNCHANGED st
     \/ takes(chunk(k.image, k.offset)) /\ fails(c)
     \/ UNCHANGED seen /\ fails(c)

(* The verify request: offset and total are equal and there is no data.    *)
(* The endpoint may refuse it (ErrCRCMismatch).                            *)
UpdateVerify(c) ==
  LET k == calls[c] IN
  /\ at(c, "send") /\ k.offset >= Len(k.image)
  /\ \/ /\ seen' = [seen EXCEPT !.good = @ \cup {<<k.image, seen.bytes>>}]
        /\ returns(c)
        /\ st' = [active |-> FALSE]
     \/ UNCHANGED seen /\ fails(c)

FirmwareNext ==
  \E c \in Callers : \/ UpdateChunk(c) \/ UpdateVerify(c)
                    \/ \E image \in Images : UpdateBegin(c, image)

----------------------------------------------------------------------------
(* When Update reports success, the chunks the endpoint took make up the   *)
(* image, in order and without a gap, although updates that failed left    *)
(* some of theirs and other callers tried to start one.                    *)
SuccessMeansWholeImage == \A g \in seen.good : g[1] = g[2]

-----------------------------------------------------------------------------
(***************************************************************************)
(* deadline.Monitor: whether a stream is dead, idle (heartbeats only) or   *)
(* alive, from the times of the messages seen.                             *)
(***************************************************************************)
ASSUME DeadlineAssumption == Heartbeat \in Nat /\ Missed \in Nat

(* Config.Deadline as DeadlineForQueue computes it from the heartbeat      *)
(* interval, which must not be 0, and the heartbeats that may be missed.   *)
DeadlineForQueue(interval, missed) == interval * missed
limit == DeadlineForQueue(Heartbeat, Missed)

(* seen: the messages of each stream since it was last forgotten. *)
DeadlineInit ==
  /\ Heartbeat > 0 /\ Missed >= 1
  /\ st = [state |-> [s \in {} |-> 0], now |-> 0]
  /\ calls = <<>>
  /\ seen = [s \in Streams |-> {}]

DeadlineTick == st.now < MaxTime /\ st' = [st EXCEPT !.now = @ + 1] /\ UNCHANGED <<calls, seen>>

stateFor(s) ==
  IF s \in DOMAIN st.state THEN st.state[s]
  ELSE [lastAny |-> 0, lastTrigger |-> 0, haveTrigger |-> FALSE]

observes(s, new, message) ==
  /\ st' = [st EXCEPT !.state = put(@, s, new)]
  /\ seen' = [seen EXCEPT ![s] = @ \cup {[kind |-> message, time |-> st.now]}]
  /\ UNCHANGED calls

ObserveTrigger(s) ==
  observes(s, [lastAny |-> st.now, lastTrigger |-> st.now, haveTrigger |-> TRUE], "trigger")

ObserveHeartbeat(s) == observes(s, [stateFor(s) EXCEPT !.lastAny = st.now], "heartbeat")

(* Mutated form: a stream without a trigger counts from time zero. *)
StreamState_NoFlag(s) ==
  CASE s \notin DOMAIN st.state -> "Dead"
    [] st.now - stateFor(s).lastAny > limit -> "Dead"
    [] st.now - stateFor(s).lastTrigger <= limit -> "Alive"
    [] OTHER -> "Idle"

StreamState(s) ==
  CASE s \notin DOMAIN st.state -> "Dead"
    [] st.now - stateFor(s).lastAny > limit -> "Dead"
    [] stateFor(s).haveTrigger /\ st.now - stateFor(s).lastTrigger <= limit -> "Alive"
    [] OTHER -> "Idle"

Forget(s) ==
  /\ st' = [st EXCEPT !.state = Restrict(@, DOMAIN @ \ {s})]
  /\ seen' = [seen EXCEPT ![s] = {}]
  /\ UNCHANGED calls

DeadlineNext ==
  \/ \E s \in Streams : ObserveTrigger(s) \/ ObserveHeartbeat(s) \/ Forget(s)
  \/ DeadlineTick

----------------------------------------------------------------------------
(* The state told of a stream is the one its messages of the last deadline *)
(* imply, whatever came before them: alive if one was a trigger, idle if   *)
(* there were only heartbeats, dead if there was none.                     *)
StateTellsRecentMessages ==
  \A s \in Streams :
    LET recent == {m.kind : m \in {n \in seen[s] : st.now - n.time <= limit}} IN
    StreamState(s) = IF "trigger" \in recent THEN "Alive"
               ELSE IF recent # {} THEN "Idle" ELSE "Dead"

-----------------------------------------------------------------------------
(***************************************************************************)
(* mdns.Browser: Query reads packets until its context ends, which a       *)
(* goroutine turns into a read deadline on the transport.  Queries of one  *)
(* Browser follow each other; a later one uses the transport again.        *)
(***************************************************************************)
(* calls: where the running Query is.  st.queries: for every Query so far, *)
(* whether its context is done and whether its goroutine still waits;      *)
(* st.expired: the transport's deadline has passed.  seen: how the Queries *)
(* ended, and in which of them the transport failed.                       *)
BrowseInit ==
  /\ st = [closed |-> FALSE, expired |-> FALSE, queries |-> <<>>]
  /\ calls = "idle"
  /\ seen = [ends |-> <<>>, broken |-> FALSE]

Current == Len(st.queries)
done == st.queries[Current].done
ends(how) == calls' = "idle" /\ seen' = [seen EXCEPT !.ends = Append(@, [how |-> how, broken |-> seen.broken])]

(* Query: the query packet, and the goroutine if it went out. *)
Query(wrote) ==
  /\ calls = "idle" /\ ~st.closed /\ Current < MaxQueries
  /\ st' = [st EXCEPT !.queries = Append(@, [done |-> FALSE, waits |-> wrote])]
  /\ IF wrote THEN calls' = "read" /\ seen' = [seen EXCEPT !.broken = FALSE]
     ELSE calls' = "idle" /\ seen' = [ends |-> Append(seen.ends, [how |-> "send query", broken |-> FALSE]), broken |-> FALSE]

CancelQuery(q) ==
  /\ ~st.queries[q].done
  /\ st' = [st EXCEPT !.queries[q].done = TRUE]
  /\ UNCHANGED <<calls, seen>>

(* Mutated form: the goroutine sets the zero time, which is no deadline. *)
interrupted_Zero(q) == [st EXCEPT !.queries[q].waits = FALSE, !.expired = FALSE]

interrupted(q) == [st EXCEPT !.queries[q].waits = FALSE, !.expired = TRUE]

(* The goroutine of Query q. *)
Interrupt(q) ==
  /\ st.queries[q].done /\ st.queries[q].waits
  /\ st' = interrupted(q)
  /\ UNCHANGED <<calls, seen>>

(* ReadPacket fails, since the deadline has passed or the transport did.   *)
ReadFails(broken) ==
  /\ calls = "read" /\ (st.expired \/ broken)
  /\ calls' = "failed"
  /\ seen' = [seen EXCEPT !.broken = broken]
  /\ UNCHANGED st

(* Mutated form: the deadline stays for the next Query. *)
reset_Not == st

reset == [st EXCEPT !.expired = FALSE]

(* A packet is handled and the loop goes on, which changes nothing here;   *)
(* an error ends it.                                                       *)
Returns ==
  /\ calls = "failed"
  /\ st' = IF done THEN reset ELSE st
  /\ ends(IF done THEN "nil" ELSE IF seen.broken THEN "transport" ELSE "deadline")

BrowseClose ==
  /\ ~st.closed
  /\ st' = [st EXCEPT !.closed = TRUE]
  /\ UNCHANGED <<calls, seen>>

BrowseNext ==
  \/ \E ok \in BOOLEAN : Query(ok) \/ ReadFails(ok)
  \/ \E q \in 1..Current : CancelQuery(q) \/ Interrupt(q)
  \/ Returns \/ BrowseClose

----------------------------------------------------------------------------
(* A Query whose context is not done fails only when the transport did, as *)
(* long as the transport has never failed: the deadline that ended one     *)
(* Query does not end the next.  (After a failure the goroutine of that    *)
(* Query may still wait, and its deadline may meet a later one.)           *)
DeadlineIsOwn ==
  \A i \in DOMAIN seen.ends : seen.ends[i].how = "deadline" => \E j \in 1..i - 1 : seen.ends[j].broken

-----------------------------------------------------------------------------
(***************************************************************************)
(* loan.Controller: payload buffers borrowed from a sync.Pool and given    *)
(* back by Return, or by RequestLoaned when the request is over.  A pooled *)
(* slot is a pointer to a buffer of some capacity; RequestLoaned finds     *)
(* the slot of a buffer in the table loaned.                               *)
(***************************************************************************)
ASSUME LoanAssumption == Sizes \subseteq Nat /\ NewCap \in Nat /\ MaxSlots \in Nat

Slots == 1..MaxSlots
NoLoans == [s \in {} |-> 0]

(* st.buf: the buffer each slot made so far points to; st.cap: the         *)
(* capacity of each buffer made so far.                                    *)
LoanInit ==
  /\ st = [pool |-> {}, buf |-> <<>>, cap |-> <<>>, loaned |-> NoLoans, closed |-> FALSE]
  /\ seen = {}
  /\ CallsInit

(* pool.Get: a pooled slot or, through New, a fresh one. *)
gets(s) ==
  \/ s \in st.pool
  \/ s = Len(st.buf) + 1 /\ s <= MaxSlots /\ Len(st.cap) < MaxBuffers

got(s) ==
  IF s \in st.pool THEN [st EXCEPT !.pool = @ \ {s}]
  ELSE [st EXCEPT !.buf = Append(@, Len(st.cap) + 1), !.cap = Append(@, NewCap)]

(* A slot whose buffer is too small keeps it while a new buffer is lent. *)
Loan(c, size) ==
  /\ at(c, "idle") /\ ~st.closed
  /\ \E s \in Slots :
       /\ gets(s)
       /\ LET g == got(s)
              fits == g.cap[g.buf[s]] >= size
              b == IF fits THEN g.buf[s] ELSE Len(g.cap) + 1
          IN  /\ b <= MaxBuffers
              /\ st' = [g EXCEPT !.cap = IF fits THEN @ ELSE Append(@, size),
                                 !.loaned = IF size = 0 THEN @ ELSE put(@, b, s)]
              /\ goes(c, [pc |-> "holds", slot |-> s, buf |-> b, size |-> size])
  /\ UNCHANGED seen

(* Mutated form: the table keeps the entry. *)
untrack_Not(b) == st.loaned

untrack(b) == Restrict(st.loaned, DOMAIN st.loaned \ {b})

(* rcp.Loan.Return *)
Return(c) ==
  LET k == calls[c] IN
  /\ at(c, "holds")
  /\ st' = [st EXCEPT !.loaned = untrack(k.buf), !.buf[k.slot] = k.buf, !.pool = @ \cup {k.slot}]
  /\ returns(c)
  /\ UNCHANGED seen

(* Mutated form: the slot goes back before the request is over. *)
RequestLoanedBegin_Puts(c) ==
  /\ at(c, "holds")
  /\ IF st.closed THEN returns(c) /\ UNCHANGED st
     ELSE /\ goes(c, [calls[c] EXCEPT !.pc = "request"])
          /\ st' = IF calls[c].size = 0 THEN st ELSE [st EXCEPT !.pool = @ \cup {calls[c].slot}]
  /\ UNCHANGED seen

(* After Close the call fails and the buffer is left to the collector. *)
RequestLoanedBegin(c) ==
  /\ at(c, "holds")
  /\ IF st.closed THEN returns(c) ELSE goes(c, [calls[c] EXCEPT !.pc = "request"])
  /\ UNCHANGED <<st, seen>>

(* inner.Request has returned.  A buffer of no bytes is not in the table.  *)
RequestLoanedEnd(c) ==
  LET k == calls[c] IN
  /\ at(c, "request")
  /\ st' = IF k.size > 0 /\ k.buf \in DOMAIN st.loaned
             THEN [st EXCEPT !.loaned = untrack(k.buf), !.pool = @ \cup {st.loaned[k.buf]}]
             ELSE st
  /\ returns(c)
  /\ UNCHANGED seen

(* The collector may empty a sync.Pool. *)
Collect == st.pool # {} /\ st' = [st EXCEPT !.pool = {}] /\ UNCHANGED <<calls, seen>>

LoanClose == ~st.closed /\ st' = [st EXCEPT !.closed = TRUE] /\ UNCHANGED <<calls, seen>>

LoanNext ==
  \/ \E c \in Callers : \/ Return(c) \/ RequestLoanedBegin(c) \/ RequestLoanedEnd(c)
                       \/ \E n \in Sizes : Loan(c, n)
  \/ Collect \/ LoanClose

holders == {c \in Callers : calls[c].pc \in {"holds", "request"}}

(* A buffer that a caller may still write, or that a request may still     *)
(* send, is lent to nobody else and is not what a pooled slot points to.   *)
NoSharedBuffer ==
  \A c \in holders :
    /\ \A d \in holders \ {c} : calls[c].buf # calls[d].buf
    /\ \A s \in st.pool : st.buf[s] # calls[c].buf

(* Until Close the table knows the buffers on loan, and no others: nothing *)
(* is leaked into it.                                                      *)
TableIsExact ==
  ~st.closed => DOMAIN st.loaned = {calls[c].buf : c \in {d \in holders : calls[d].size > 0}}

-----------------------------------------------------------------------------
(* A behaviour is about one of the packages. *)
ClientsInit ==
  \/ kind = "redundancy" /\ RedundancyInit
  \/ kind = "ratelimit" /\ RateLimitInit
  \/ kind = "prioqueue" /\ PrioQueueInit
  \/ kind = "loan" /\ LoanInit
  \/ kind = "zonegroup" /\ ZoneGroupInit
  \/ kind = "firmware" /\ FirmwareInit
  \/ kind = "deadline" /\ DeadlineInit
  \/ kind = "browse" /\ BrowseInit

ClientsNext ==
  /\ \/ kind = "redundancy" /\ RedundancyNext
     \/ kind = "ratelimit" /\ RateLimitNext
     \/ kind = "prioqueue" /\ PrioQueueNext
     \/ kind = "loan" /\ LoanNext
     \/ kind = "zonegroup" /\ ZoneGroupNext
     \/ kind = "firmware" /\ FirmwareNext
     \/ kind = "deadline" /\ DeadlineNext
     \/ kind = "browse" /\ BrowseNext
  /\ UNCHANGED kind

ClientsSpec == ClientsInit /\ [][ClientsNext]_vars

(* What a client is told or granted is so, however its goroutines          *)
(* interleave: a token bucket admits no more than its rate, a failed link  *)
(* is failed over once and Close shuts both links, a loaned buffer has one *)
(* holder and the table of loans knows it, no queued request overtakes,    *)
(* every member of a group is accounted for, an updated endpoint holds the *)
(* whole image, the state of a stream tells its recent messages, and a     *)
(* query ends by its own deadline.                                         *)
ClientsSafe ==
  /\ kind = "ratelimit" => AdmittedWithinRate
  /\ kind = "redundancy" => OneFailoverPerFailure /\ CloseShutsBoth
  /\ kind = "loan" => NoSharedBuffer /\ TableIsExact
  /\ kind = "prioqueue" => NoOvertaking
  /\ kind = "zonegroup" => EveryMemberAnswered
  /\ kind = "firmware" => SuccessMeansWholeImage
  /\ kind = "deadline" => StateTellsRecentMessages
  /\ kind = "browse" => DeadlineIsOwn
=============================================================================
