------------------------------ MODULE Bridges -------------------------------
(***************************************************************************)
(* Other ways to reach a server: the MQTT and DDS bridges with the command *)
(* goroutine they share, SOME/IP, DoIP, shared memory, and the telemetry   *)
(* streams of the REST and gRPC bridges. One section per package; st is    *)
(* the state of the package's object, calls its goroutines and seen a      *)
(* history.                                                                *)
(***************************************************************************)
EXTENDS Integers, Sequences, FiniteSets, Functions, TLC, Calls

CONSTANTS
  Capacity,                                           \* all but someip, doipbr
  Publishers, MqttClients, BridgeClient, MaxMessages,     \* mqttbr
  Readers, BridgeReader, MaxSamples,                  \* ddsbr
  Bodies, Empty, Sessions, MaxAsked,               \* someip
  Lens, MaxDoIp,                                     \* doipbr
  MaxGen, MaxOps,                                     \* shmem
  Subscribers, MaxEvents                                  \* grpcbridge, restbridge

-----------------------------------------------------------------------------
(***************************************************************************)
(* The Bridge of mqttbr, and of ddsbr, which has the same shape: commands  *)
(* that arrive on a bounded channel are sent upstream one after another by *)
(* the goroutine runCmd, until Close stops it.                             *)
(***************************************************************************)
(* queue: how many commands wait; pc: where runCmd is; close: how far      *)
(* Close is.                                                               *)
NewBridge == [queue |-> 0, open |-> TRUE, pc |-> "select", stop |-> FALSE, close |-> "no"]

(* A message that finds the channel full is dropped. *)
enqueued(b) == IF b.queue < Capacity THEN [b EXCEPT !.queue = @ + 1] ELSE b

setBridge(b) == st' = [st EXCEPT !.bridge = b] /\ UNCHANGED calls

(* A command that does not decode is skipped.  seen.late: one went         *)
(* upstream after Close had returned.                                      *)
TakeCommand ==
  LET b == st.bridge IN
  /\ b.pc = "select" /\ b.queue > 0
  /\ \/ setBridge([b EXCEPT !.queue = @ - 1]) /\ UNCHANGED seen
     \/ /\ setBridge([b EXCEPT !.queue = @ - 1, !.pc = "request"])
        /\ seen' = [seen EXCEPT !.late = @ \/ b.close = "done"]

(* upstream.Request has an answer, times out or is cancelled by Close. *)
RequestEnds == st.bridge.pc = "request" /\ setBridge([st.bridge EXCEPT !.pc = "select"]) /\ UNCHANGED seen

(* The channel is closed and drained, or stop is closed. *)
RunCmdReturns ==
  LET b == st.bridge IN
  /\ b.pc = "select" /\ (b.stop \/ (~b.open /\ b.queue = 0))
  /\ setBridge([b EXCEPT !.pc = "done"])
  /\ UNCHANGED seen

runCmd == TakeCommand \/ RequestEnds \/ RunCmdReturns

(* Mutated form: the goroutine is not told to stop. *)
BridgeCloseBegin_Untold ==
  /\ st.bridge.close = "no"
  /\ setBridge([st.bridge EXCEPT !.close = "waiting"])
  /\ UNCHANGED seen

(* A second Close returns at once, while the first may still wait. *)
BridgeCloseBegin ==
  /\ st.bridge.close = "no"
  /\ setBridge([st.bridge EXCEPT !.stop = TRUE, !.close = "waiting"])
  /\ UNCHANGED seen

(* Mutated form: Close does not wait for runCmd. *)
waited_Not(b) == TRUE

waited(b) == b.pc = "done"

BridgeCloseEnd ==
  /\ st.bridge.close = "waiting" /\ waited(st.bridge)
  /\ setBridge([st.bridge EXCEPT !.close = "done"])
  /\ UNCHANGED seen

BridgeNext == runCmd \/ BridgeCloseBegin \/ BridgeCloseEnd

----------------------------------------------------------------------------
(* No command goes upstream once the Close that stops the goroutine has    *)
(* returned.                                                               *)
QuietAfterClose == ~seen.late

-----------------------------------------------------------------------------
(***************************************************************************)
(* mqttbr: the in-process broker, its clients and the Bridge, for one      *)
(* topic.  publish walks over the slice it read under the lock, while      *)
(* unsubscribe moves the entries of the same backing array; each step      *)
(* below reads or writes one entry.                                        *)
(***************************************************************************)
(* A client that publishes is one of the callers. *)
ASSUME MqttAssumption == Publishers \subseteq Callers

(* st.arrays: the backing arrays; st.subs: the slice, as array and length; *)
(* st.removing: the entry that unsubscribe fills next, 0 if it is not at   *)
(* work.  The lock is held by unsubscribe alone over several steps.        *)
(* seen.subscribed: the clients whose last call was Subscribe.             *)
MqttInit ==
  /\ st = [bridge |-> NewBridge, arrays |-> <<<<BridgeClient>>>>, subs |-> [arr |-> 1, len |-> 1],
           removing |-> 0, closed |-> {}, msgs |-> 0]
  /\ seen = [late |-> FALSE, delivered |-> TRUE, subscribed |-> {BridgeClient}]
  /\ CallsInit

list == SubSeq(st.arrays[st.subs.arr], 1, st.subs.len)
unlocked == st.removing = 0

(* append: in place while the array has room, else in an array of twice    *)
(* the size.                                                               *)
MqttSubscribe(k) ==
  LET s == st.subs
      arr == st.arrays[s.arr] IN
  /\ unlocked /\ k \notin Range(list)
  /\ st' = IF s.len < Len(arr)
             THEN [st EXCEPT !.arrays[s.arr][s.len + 1] = k, !.subs.len = @ + 1]
             ELSE [st EXCEPT !.arrays = Append(@, [i \in 1..(2 * Len(arr)) |->
                                                     IF i <= Len(arr) THEN arr[i] ELSE k]),
                             !.subs = [arr |-> Len(st.arrays) + 1, len |-> s.len + 1]]
  /\ seen' = [seen EXCEPT !.subscribed = @ \cup {k}]
  /\ UNCHANGED calls

(* A publish that walks over the array: due are the subscribers it has yet *)
(* to meet.  One that an unsubscribe overlaps is not judged.               *)
overlapped(p) == [p EXCEPT !.overlapped = TRUE, !.due = {}, !.once = TRUE]

(* unsubscribe takes the lock. *)
unsubscribes(k, new) ==
  /\ \E i \in 1..st.subs.len : list[i] = k /\ st' = [new EXCEPT !.removing = i]
  /\ calls' = [c \in Callers |-> IF at(c, "publish") THEN overlapped(calls[c]) ELSE calls[c]]
  /\ seen' = [seen EXCEPT !.subscribed = @ \ {k}]

Unsubscribe(k) == unlocked /\ unsubscribes(k, st)

(* Mutated form: the slice is cut one entry short. *)
shifted_Short(s, j) == IF j < s.len - 1 THEN j + 1 ELSE 0

(* The entry to fill after j, 0 after the last. *)
shifted(s, j) == IF j < s.len THEN j + 1 ELSE 0

(* append(list[:i], list[i+1:]...), one entry at a time *)
UnsubscribeShift ==
  LET s == st.subs
      j == st.removing IN
  /\ ~unlocked
  /\ st' = IF shifted(s, j) = 0 THEN [st EXCEPT !.subs.len = @ - 1, !.removing = 0]
           ELSE [st EXCEPT !.arrays[s.arr][j] = st.arrays[s.arr][j + 1], !.removing = j + 1]
  /\ UNCHANGED <<calls, seen>>

(* Client.Close of a client with and without a subscription. *)
CloseClient(k) ==
  LET new == [st EXCEPT !.closed = @ \cup {k}] IN
  /\ k \notin st.closed /\ unlocked
  /\ \/ unsubscribes(k, new)
     \/ k \notin Range(list) /\ st' = new /\ UNCHANGED <<calls, seen>>

(* Client.Publish and Broker.publish *)
PublishBegin(c) ==
  /\ at(c, "idle") /\ c \notin st.closed /\ unlocked /\ st.msgs < MaxMessages
  /\ goes(c, [pc |-> "publish", arr |-> st.subs.arr, next |-> 1, len |-> st.subs.len,
              due |-> seen.subscribed, once |-> TRUE, overlapped |-> FALSE])
  /\ st' = [st EXCEPT !.msgs = @ + 1]
  /\ UNCHANGED seen

PublishStep(c) ==
  LET p == calls[c]
      k == st.arrays[p.arr][p.next] IN
  /\ at(c, "publish") /\ p.next <= p.len
  /\ st' = IF k = BridgeClient THEN [st EXCEPT !.bridge = enqueued(@)] ELSE st
  /\ goes(c, [p EXCEPT !.next = @ + 1, !.due = @ \ {k}, !.once = @ /\ (p.overlapped \/ k \in p.due)])
  /\ UNCHANGED seen

PublishEnd(c) ==
  LET p == calls[c] IN
  /\ at(c, "publish") /\ p.next > p.len
  /\ seen' = [seen EXCEPT !.delivered = @ /\ p.once /\ p.due = {}]
  /\ returns(c)
  /\ UNCHANGED st

MqttNext ==
  \/ \E k \in MqttClients : MqttSubscribe(k) \/ Unsubscribe(k) \/ CloseClient(k)
  \/ UnsubscribeShift
  \/ \E c \in Publishers : PublishBegin(c) \/ PublishStep(c) \/ PublishEnd(c)
  \/ BridgeNext

----------------------------------------------------------------------------
(* A message reaches every subscriber of its topic exactly once, unless    *)
(* somebody unsubscribes while publish walks over the subscribers: that    *)
(* moves the entries under it, and one may be passed over and another met  *)
(* twice.                                                                  *)
DeliveredOnce == seen.delivered

-----------------------------------------------------------------------------
(***************************************************************************)
(* ddsbr: a topic, its readers and the Bridge, which reads commands from   *)
(* one of them.  Write holds the topic's read lock over all its sends.     *)
(***************************************************************************)
(* st.subs: the channels in the topic; st.chan: what each channel is.      *)
(* seen.panic: a send on a closed channel.                                 *)
DdsInit ==
  /\ st = [bridge |-> NewBridge, subs |-> {BridgeReader}, samples |-> 0,
           chan |-> [r \in Readers |-> IF r = BridgeReader THEN "open" ELSE "none"]]
  /\ seen = [late |-> FALSE, panic |-> FALSE]
  /\ CallsInit

(* Lock is granted when no Write holds the read lock. *)
locked == \E c \in Callers : at(c, "write")

NewDataReader(r) ==
  /\ ~locked /\ st.chan[r] = "none"
  /\ st' = [st EXCEPT !.subs = @ \cup {r}, !.chan[r] = "open"]
  /\ UNCHANGED <<calls, seen>>

(* unsubscribe: delete under the lock, *)
ReaderClose(r) ==
  /\ ~locked /\ r \in st.subs
  /\ st' = [st EXCEPT !.subs = @ \ {r}]
  /\ UNCHANGED <<calls, seen>>

(* Mutated form: the channel is closed before it is deleted. *)
mayClose_Early(r) == st.chan[r] = "open"

mayClose(r) == st.chan[r] = "open" /\ r \notin st.subs

(* and close after it. *)
ReaderClosed(r) ==
  /\ mayClose(r)
  /\ st' = [st EXCEPT !.chan[r] = "closed", !.bridge.open = @ /\ r # BridgeReader]
  /\ UNCHANGED <<calls, seen>>

WriteBegin(c) ==
  /\ at(c, "idle") /\ st.samples < MaxSamples
  /\ goes(c, [pc |-> "write", left |-> st.subs])
  /\ st' = [st EXCEPT !.samples = @ + 1]
  /\ UNCHANGED seen

WriteStep(c, r) ==
  /\ at(c, "write") /\ r \in calls[c].left
  /\ st' = IF r = BridgeReader THEN [st EXCEPT !.bridge = enqueued(@)] ELSE st
  /\ seen' = [seen EXCEPT !.panic = @ \/ st.chan[r] = "closed"]
  /\ goes(c, [calls[c] EXCEPT !.left = @ \ {r}])

WriteEnd(c) == at(c, "write") /\ calls[c].left = {} /\ returns(c) /\ UNCHANGED <<st, seen>>

(* Bridge *)
Bridge == runCmd \/ BridgeCloseBegin \/ BridgeCloseEnd

DdsNext ==
  \/ \E r \in Readers : NewDataReader(r) \/ ReaderClose(r) \/ ReaderClosed(r)
  \/ \E c \in Callers : WriteBegin(c) \/ WriteEnd(c) \/ \E r \in Readers : WriteStep(c, r)
  \/ Bridge

----------------------------------------------------------------------------
(* Write never sends on a channel that a reader's Close has closed.        *)
NoSendOnClosed == ~seen.panic

-----------------------------------------------------------------------------
(***************************************************************************)
(* someip: a Controller that matches answers to requests by session, and a *)
(* Server that forwards each request upstream in a goroutine of its own.   *)
(* Datagrams may be lost, repeated, delayed and overtaken.                 *)
(***************************************************************************)
ASSUME SomeIpAssumption == Sessions \in Nat \ {0}

(* st.net: every datagram sent; st.pending: the call that waits for each   *)
(* session.  seen.up: what upstream did for each request.                  *)
SomeIpInit ==
  /\ st = [closed |-> FALSE, readDone |-> FALSE, next |-> 0, pending |-> <<>>, net |-> {}]
  /\ seen = [asked |-> <<>>, up |-> {}, answers |-> {}]
  /\ CallsInit

controlFor(body) == IF body = Empty THEN "read" ELSE "write"

SomeIpRequestBegin(c) ==
  /\ at(c, "idle") /\ ~st.closed /\ Len(seen.asked) < MaxAsked
  /\ \E body \in Bodies : goes(c, [pc |-> "number", body |-> body])
  /\ UNCHANGED <<st, seen>>

(* Mutated form: every request has the same session. *)
nextSession_Same == 1

nextSession == (st.next + 1) % Sessions

SomeIpRequestNumber(c) ==
  /\ at(c, "number")
  /\ st' = [st EXCEPT !.next = nextSession]
  /\ seen' = [seen EXCEPT !.asked = Append(@, calls[c].body)]
  /\ goes(c, [pc |-> "register", body |-> calls[c].body, n |-> Len(seen.asked) + 1,
              session |-> nextSession, got |-> <<>>])

SomeIpRequestRegister(c) ==
  /\ at(c, "register")
  /\ st' = [st EXCEPT !.pending = put(@, calls[c].session, c)]
  /\ goes(c, [calls[c] EXCEPT !.pc = "send"])
  /\ UNCHANGED seen

SomeIpRequestSend(c) ==
  /\ at(c, "send") /\ ~st.closed
  /\ st' = [st EXCEPT !.net = @ \cup {[type |-> "request", session |-> calls[c].session,
                                        n |-> calls[c].n, body |-> calls[c].body]}]
  /\ goes(c, [calls[c] EXCEPT !.pc = "wait"])
  /\ UNCHANGED seen

(* Server.handle: a request may arrive more than once. *)
Handle(f) ==
  /\ f.type = "request"
  /\ \E code \in {"OK", "NotOK"} :
       LET up == [n |-> f.n, control |-> controlFor(f.body), code |-> code] IN
       /\ seen' = [seen EXCEPT !.up = @ \cup {up}]
       /\ st' = [st EXCEPT !.net = @ \cup {[type |-> "response", session |-> f.session, code |-> code,
                                            up |-> up]}]
  /\ UNCHANGED calls

(* Controller.readLoop: an answer nobody waits for, or a second one, is    *)
(* dropped.                                                                *)
Deliver(f) ==
  /\ f.type = "response" /\ ~st.readDone
  /\ f.session \in DOMAIN st.pending
  /\ LET c == st.pending[f.session] IN
       /\ calls[c].got = <<>>
       /\ goes(c, [calls[c] EXCEPT !.got = <<f>>])
  /\ UNCHANGED <<st, seen>>

(* A read fails, at the latest after Close. *)
ReadLoopEnds == ~st.readDone /\ st' = [st EXCEPT !.readDone = TRUE] /\ UNCHANGED <<calls, seen>>

forget(c) == Restrict(st.pending, DOMAIN st.pending \ {calls[c].session})

SomeIpRequestAnswer(c) ==
  /\ at(c, "wait") /\ calls[c].got # <<>>
  /\ seen' = [seen EXCEPT !.answers = @ \cup {[n |-> calls[c].n, code |-> calls[c].got[1].code,
                                               up |-> calls[c].got[1].up]}]
  /\ st' = [st EXCEPT !.pending = forget(c)]
  /\ returns(c)

(* A write error, which a closed connection always has; ctx.Done; readDone *)
RequestFails(c) == st' = [st EXCEPT !.pending = forget(c)] /\ returns(c) /\ UNCHANGED seen
SomeIpRequestUnsent(c) == at(c, "send") /\ RequestFails(c)
SomeIpRequestTimeout(c) == at(c, "wait") /\ RequestFails(c)
SomeIpRequestClosed(c) == at(c, "wait") /\ st.readDone /\ RequestFails(c)

SomeIpClose == ~st.closed /\ st' = [st EXCEPT !.closed = TRUE] /\ UNCHANGED <<calls, seen>>

SomeIpNext ==
  \/ \E c \in Callers : \/ SomeIpRequestBegin(c) \/ SomeIpRequestNumber(c) \/ SomeIpRequestRegister(c)
                       \/ SomeIpRequestSend(c) \/ SomeIpRequestUnsent(c) \/ SomeIpRequestAnswer(c)
                       \/ SomeIpRequestTimeout(c) \/ SomeIpRequestClosed(c)
  \/ \E f \in st.net : Handle(f) \/ Deliver(f)
  \/ ReadLoopEnds \/ SomeIpClose

----------------------------------------------------------------------------
(* An answer is what upstream did, and a failure is never reported as a    *)
(* success.  As long as no more requests are made than there are session   *)
(* numbers it is the answer to that very request: a late or repeated one   *)
(* is never taken for another's.                                           *)
AnswerOfUpstream ==
  \A a \in seen.answers :
    /\ a.up \in seen.up /\ (a.code = "OK" <=> a.up.code = "OK")
    /\ Len(seen.asked) <= Sessions => a.up.n = a.n

-----------------------------------------------------------------------------
(***************************************************************************)
(* doipbr: a Client and the connection handler of the Server, joined by a  *)
(* TCP connection.  The bytes of the answers are modelled one by one, by   *)
(* the request they answer and their place in the message: a header is     *)
(* read as eight bytes, whatever they are.  Bytes that are not a header do *)
(* not look like one by accident.                                          *)
(***************************************************************************)
ASSUME DoIpAssumption == Lens \subseteq Nat

HeaderLen == 8

(* st.mu: Client.mu is held; st.out: the requests on their way; st.in: the *)
(* bytes for the client; st.reply: the header of each answer.  st.conn:    *)
(* the client's side is open; st.handler, st.close: handleConn and Close   *)
(* of the server.  seen.got: the request and the bytes of each answer that *)
(* Send returned.                                                          *)
DoIpInit ==
  /\ st = [mu |-> FALSE, out |-> <<>>, in |-> <<>>, reply |-> <<>>, sends |-> 0, conn |-> TRUE,
           handler |-> "runs", close |-> "no"]
  /\ seen = [got |-> {}, nacked |-> FALSE]
  /\ CallsInit

SendBegin(c) ==
  /\ at(c, "idle") /\ ~st.mu /\ st.conn /\ st.sends < MaxDoIp
  /\ goes(c, [pc |-> "read", n |-> st.sends + 1])
  /\ st' = [st EXCEPT !.mu = TRUE, !.sends = @ + 1, !.out = Append(@, st.sends + 1)]
  /\ UNCHANGED seen

bytes(n, len) == [i \in 1..(HeaderLen + len) |-> <<n, i>>]

(* handleConn: the answer is an Ack with what Handle made of the request,  *)
(* or a Nack with one byte if it failed.                                   *)
HandleMessage ==
  /\ st.handler = "runs" /\ st.out # <<>>
  /\ \E r \in [type : {"Ack"}, len : Lens] \cup {[type |-> "Nack", len |-> 1]} :
       st' = IF st.conn THEN [st EXCEPT !.out = Tail(@), !.reply = Append(@, r),
                                        !.in = @ \o bytes(Head(st.out), r.len)]
             ELSE [st EXCEPT !.out = <<>>, !.handler = "done"]
  /\ UNCHANGED <<calls, seen>>

HandlerReturns ==
  /\ st.handler = "runs" /\ st.out = <<>> /\ ~st.conn
  /\ st' = [st EXCEPT !.handler = "done"]
  /\ UNCHANGED <<calls, seen>>

header == SubSeq(st.in, 1, HeaderLen)
after(n) == SubSeq(st.in, n + 1, Len(st.in))
isHeader == \A i \in 1..HeaderLen : header[i] = <<header[1][1], i>>

(* Mutated form: the payload of an Ack is left unread. *)
left_Payload(reply) == after(HeaderLen)

(* What an answer leaves unread: all but the header of a Nack. *)
left(reply) == after(HeaderLen + (IF reply.type = "Ack" THEN reply.len ELSE 0))

(* Send reads the header and, of an Ack, the payload. *)
SendRead(c) ==
  /\ at(c, "read") /\ st.conn /\ Len(st.in) >= HeaderLen
  /\ IF isHeader
       THEN LET reply == st.reply[header[1][1]] IN
            /\ reply.type = "Ack" => Len(st.in) >= HeaderLen + reply.len
            /\ st' = [st EXCEPT !.mu = FALSE, !.in = left(reply)]
            /\ seen' = IF reply.type = "Ack"
                         THEN [seen EXCEPT !.got = @ \cup {[n |-> calls[c].n, nacked |-> seen.nacked,
                                of |-> {st.in[i][1] : i \in (HeaderLen + 1)..(HeaderLen + reply.len)}]}]
                         ELSE [seen EXCEPT !.nacked = TRUE]
       ELSE st' = [st EXCEPT !.mu = FALSE, !.in = after(HeaderLen)] /\ UNCHANGED seen
  /\ returns(c)

(* Reading fails on a closed connection. *)
SendFails(c) ==
  /\ at(c, "read") /\ ~st.conn
  /\ st' = [st EXCEPT !.mu = FALSE]
  /\ returns(c)
  /\ UNCHANGED seen

ClientClose == st.conn /\ st' = [st EXCEPT !.conn = FALSE] /\ UNCHANGED <<calls, seen>>

(* Server.Close waits for the handlers, which stay as long as the clients. *)
DoIpCloseBegin == st.close = "no" /\ st' = [st EXCEPT !.close = "waits"] /\ UNCHANGED <<calls, seen>>

DoIpCloseEnd ==
  /\ st.close = "waits" /\ st.handler = "done"
  /\ st' = [st EXCEPT !.close = "done"]
  /\ UNCHANGED <<calls, seen>>

DoIpNext ==
  \/ \E c \in Callers : SendBegin(c) \/ SendRead(c) \/ SendFails(c)
  \/ HandleMessage \/ HandlerReturns \/ ClientClose \/ DoIpCloseBegin \/ DoIpCloseEnd

----------------------------------------------------------------------------
(* Send returns the UDS response to the message that it transmitted, as    *)
(* long as the server has not answered with a Nack, whose payload stays in *)
(* the connection.                                                         *)
MineUntilNack == \A g \in seen.got : g.nacked \/ g.of \subseteq {g.n}

-----------------------------------------------------------------------------
(***************************************************************************)
(* shmem: a controller and an endpoint in one process, joined by a bounded *)
(* channel, and the registry that opens and closes such pairs.  One key:   *)
(* a generation is what one Open made.  A caller keeps the controller it   *)
(* was given.                                                              *)
(***************************************************************************)
ASSUME ShmemAssumption == MaxGen \in Nat

Gens == 1..MaxGen
Bus == [queue |-> <<>>, closed |-> FALSE, ctrlClosed |-> FALSE, serving |-> 0, done |-> FALSE]

(* st.gen: the last generation; st.open: it is registered; st.mu: who      *)
(* holds the registry's lock across a wait.                                *)
(* seen: per request, the generation and whether it was routed; answers.   *)
ShmemInit ==
  /\ st = [gen |-> 0, open |-> FALSE, closed |-> FALSE, mu |-> FALSE,
           bus |-> [g \in Gens |-> Bus]]
  /\ seen = [ops |-> <<>>, late |-> FALSE]
  /\ CallsInit

Open ==
  /\ ~st.mu /\ ~st.closed /\ ~st.open /\ st.gen < MaxGen
  /\ st' = [st EXCEPT !.gen = @ + 1, !.open = TRUE]
  /\ UNCHANGED <<calls, seen>>

(* Request: the closed checks; ops get numbers in the order they pass.     *)
ShmemRequestBegin(c) ==
  /\ at(c, "idle") /\ st.gen > 0 /\ Len(seen.ops) < MaxOps
  /\ \E g \in 1..st.gen :
       /\ ~st.bus[g].ctrlClosed /\ ~st.bus[g].closed
       /\ goes(c, [pc |-> "send", gen |-> g, op |-> Len(seen.ops) + 1])
       /\ seen' = [seen EXCEPT !.ops = Append(@, [gen |-> g, answer |-> 0])]
  /\ UNCHANGED st

(* The first select: queue the request, time out, or see the bus closed.   *)
ShmemRequestSend(c) ==
  LET g == calls[c].gen IN
  /\ at(c, "send")
  /\ Len(st.bus[g].queue) < Capacity
  /\ st' = [st EXCEPT !.bus[g].queue = Append(@, calls[c].op)]
  /\ goes(c, [calls[c] EXCEPT !.pc = "wait"])
  /\ UNCHANGED seen

(* ctx.Done, in either select, or the first check. *)
ShmemRequestTimeout(c) == calls[c].pc \in {"send", "wait"} /\ returns(c) /\ UNCHANGED <<st, seen>>

(* Mutated form: the first select does not watch closeCh. *)
ShmemRequestClosed_Waiting(c) ==
  /\ at(c, "wait") /\ st.bus[calls[c].gen].closed
  /\ returns(c)
  /\ UNCHANGED <<st, seen>>

(* closeCh, in either select. *)
ShmemRequestClosed(c) ==
  /\ calls[c].pc \in {"send", "wait"} /\ st.bus[calls[c].gen].closed
  /\ returns(c)
  /\ UNCHANGED <<st, seen>>

ShmemRequestAnswer(c) ==
  /\ at(c, "wait") /\ seen.ops[calls[c].op].answer # 0
  /\ returns(c)
  /\ UNCHANGED <<st, seen>>

(* Endpoint.serve: takes a request, even after closeCh is closed, *)
ServeTake(g) ==
  LET b == st.bus[g] IN
  /\ b.serving = 0 /\ ~b.done /\ b.queue # <<>> /\ g <= st.gen
  /\ st' = [st EXCEPT !.bus[g].serving = Head(b.queue), !.bus[g].queue = Tail(@)]
  /\ UNCHANGED <<calls, seen>>

(* routes it, answers or not, *)
ServeRoute(g) ==
  LET b == st.bus[g] IN
  /\ b.serving # 0
  /\ st' = [st EXCEPT !.bus[g].serving = 0]
  /\ \E reply \in {0, b.serving} :
       seen' = [seen EXCEPT !.ops[b.serving].answer = reply,
                            !.late = @ \/ (b.closed /\ ~st.mu)]
  /\ UNCHANGED calls

(* and returns when it sees closeCh. *)
ServeReturn(g) ==
  LET b == st.bus[g] IN
  /\ b.serving = 0 /\ ~b.done /\ b.closed
  /\ st' = [st EXCEPT !.bus[g].done = TRUE]
  /\ UNCHANGED <<calls, seen>>

(* Deregister, under the registry's lock: close the controller and the     *)
(* bus, and then wait for serve.                                           *)
ShmemDeregister ==
  /\ ~st.mu /\ st.open
  /\ st' = [st EXCEPT !.mu = TRUE, !.open = FALSE, !.bus[st.gen].closed = TRUE,
                      !.bus[st.gen].ctrlClosed = TRUE]
  /\ UNCHANGED <<calls, seen>>

(* Controller.Close: only later requests see it. *)
ControllerClose ==
  /\ st.gen > 0 /\ ~st.bus[st.gen].ctrlClosed
  /\ st' = [st EXCEPT !.bus[st.gen].ctrlClosed = TRUE]
  /\ UNCHANGED <<calls, seen>>

(* Registry.Close does as much for what is open, but leaves controllers    *)
(* to find the bus closed.                                                 *)
ShmemClose ==
  /\ ~st.mu /\ ~st.closed
  /\ st' = IF st.open THEN [st EXCEPT !.mu = TRUE, !.closed = TRUE, !.open = FALSE,
                                      !.bus[st.gen].closed = TRUE]
                      ELSE [st EXCEPT !.closed = TRUE]
  /\ UNCHANGED <<calls, seen>>

(* Mutated form: the registry does not wait for serve. *)
mayUnlock_Now == TRUE

mayUnlock == st.bus[st.gen].done

Unlock == st.mu /\ mayUnlock /\ st' = [st EXCEPT !.mu = FALSE] /\ UNCHANGED <<calls, seen>>

RequestStep(c) ==
  ShmemRequestSend(c) \/ ShmemRequestTimeout(c) \/ ShmemRequestClosed(c) \/ ShmemRequestAnswer(c)

ShmemNext ==
  \/ \E c \in Callers : ShmemRequestBegin(c) \/ RequestStep(c)
  \/ \E g \in Gens : ServeTake(g) \/ ServeRoute(g) \/ ServeReturn(g)
  \/ Open \/ ControllerClose \/ ShmemDeregister \/ ShmemClose \/ Unlock

----------------------------------------------------------------------------
(* Once Deregister or Close has returned, the router is not called any     *)
(* more for the pair that it closed: a request that was queued is dropped. *)
NoRouteAfterDeregister == ~seen.late

-----------------------------------------------------------------------------
(***************************************************************************)
(* The telemetry streams of restbridge: the server's subscribers, each     *)
(* with a bounded channel, and the goroutine of Controller.Subscribe that  *)
(* fills the channel of the user.  The streams of grpcbridge differ in two *)
(* places.                                                                 *)
(***************************************************************************)
Stream(grpc) == [pc |-> "none", joined |-> FALSE, queue |-> <<>>, wire |-> <<>>, out |-> <<>>,
                 done |-> FALSE, closed |-> FALSE, grpc |-> grpc]

(* seen: per stream, the events published since Subscribe returned (or,    *)
(* for grpc, since the server knew of the stream), those dropped at a full *)
(* channel, and those the user took.                                       *)
TelemetryInit ==
  /\ \E grpc \in BOOLEAN : st = [s \in Subscribers |-> Stream(grpc)]
  /\ calls = 0
  /\ seen = [s \in Subscribers |-> [since |-> {}, dropped |-> {}, taken |-> <<>>]]

sets(s, new) == st' = [st EXCEPT ![s] = new] /\ UNCHANGED <<calls, seen>>

TelemetrySubscribe(s) == st[s].pc = "none" /\ sets(s, [st[s] EXCEPT !.pc = "dials"])

(* The handler joins s.subs, and leaves when the request's context ends. *)
HandlerJoins(s) == st[s].pc # "none" /\ ~st[s].joined /\ ~st[s].done /\ sets(s, [st[s] EXCEPT !.joined = TRUE])
HandlerLeaves(s) == st[s].joined /\ st[s].done /\ sets(s, [st[s] EXCEPT !.joined = FALSE])

(* Mutated form: the status line is flushed before the handler has joined. *)
mayReturn_Early(s) == TRUE

(* restbridge flushes the status line after joining; grpc's NewStream does *)
(* not wait for the handler.                                               *)
mayReturn(s) == st[s].joined \/ st[s].grpc

SubscribeReturns(s) == st[s].pc = "dials" /\ mayReturn(s) /\ sets(s, [st[s] EXCEPT !.pc = "open"])

counts(s) == st[s].pc = "open" /\ ~st[s].done /\ (st[s].joined \/ ~st[s].grpc)

(* PublishTelemetry, under the lock *)
PublishTelemetry ==
  LET e == calls + 1
      full(s) == Len(st[s].queue) >= Capacity IN
  /\ calls < MaxEvents
  /\ calls' = e
  /\ st' = [s \in Subscribers |-> IF st[s].joined /\ ~full(s) THEN [st[s] EXCEPT !.queue = Append(@, e)]
                              ELSE st[s]]
  /\ seen' = [s \in Subscribers |->
       [seen[s] EXCEPT !.since = IF counts(s) THEN @ \cup {e} ELSE @,
                       !.dropped = IF st[s].joined /\ full(s) THEN @ \cup {e} ELSE @]]

HandlerSends(s) ==
  /\ st[s].joined /\ st[s].queue # <<>> /\ ~st[s].done
  /\ sets(s, [st[s] EXCEPT !.queue = Tail(@), !.wire = Append(@, Head(st[s].queue))])

(* The user's channel: restbridge waits for room in it, grpc drops. *)
Receive(s) ==
  LET e == Head(st[s].wire) IN
  /\ st[s].pc = "open" /\ ~st[s].closed /\ st[s].wire # <<>>
  /\ \/ Len(st[s].out) < Capacity /\ sets(s, [st[s] EXCEPT !.wire = Tail(@), !.out = Append(@, e)])
     \/ /\ st[s].grpc /\ Len(st[s].out) >= Capacity
        /\ st' = [st EXCEPT ![s].wire = Tail(@)]
        /\ seen' = [seen EXCEPT ![s].dropped = @ \cup {e}]
        /\ UNCHANGED calls

(* The stream has ended: the goroutine closes the user's channel. *)
ReceiveEnds(s) == st[s].pc = "open" /\ st[s].done /\ ~st[s].closed /\ sets(s, [st[s] EXCEPT !.closed = TRUE])

Take(s) ==
  /\ st[s].out # <<>>
  /\ st' = [st EXCEPT ![s].out = Tail(@)]
  /\ seen' = [seen EXCEPT ![s].taken = Append(@, Head(st[s].out))]
  /\ UNCHANGED calls

CancelStream(s) == st[s].pc = "open" /\ ~st[s].done /\ sets(s, [st[s] EXCEPT !.done = TRUE])

TelemetryNext ==
  \/ \E s \in Subscribers :
       \/ TelemetrySubscribe(s) \/ HandlerJoins(s) \/ SubscribeReturns(s) \/ HandlerSends(s) \/ Receive(s)
       \/ Take(s) \/ CancelStream(s) \/ HandlerLeaves(s) \/ ReceiveEnds(s)
  \/ PublishTelemetry

----------------------------------------------------------------------------
(* Until its context ends, a subscriber gets every event published since   *)
(* Subscribe returned, in order and once, but for those that met a full    *)
(* channel.                                                                *)
NoEventMissed ==
  \A s \in Subscribers :
    LET way == seen[s].taken \o st[s].out \o st[s].wire \o st[s].queue IN
    /\ \A i, j \in DOMAIN way : i < j => way[i] < way[j]
    /\ ~st[s].done => seen[s].since \subseteq Range(way) \cup seen[s].dropped
-----------------------------------------------------------------------------
(* A behaviour is about one of the packages. *)
BridgesInit ==
  \/ kind = "mqtt" /\ MqttInit
  \/ kind = "dds" /\ DdsInit
  \/ kind = "someip" /\ SomeIpInit
  \/ kind = "doip" /\ DoIpInit
  \/ kind = "shmem" /\ ShmemInit
  \/ kind = "telemetry" /\ TelemetryInit

BridgesNext ==
  /\ \/ kind = "mqtt" /\ MqttNext
     \/ kind = "dds" /\ DdsNext
     \/ kind = "someip" /\ SomeIpNext
     \/ kind = "doip" /\ DoIpNext
     \/ kind = "shmem" /\ ShmemNext
     \/ kind = "telemetry" /\ TelemetryNext
  /\ UNCHANGED kind

BridgesSpec == BridgesInit /\ [][BridgesNext]_vars

(* A bridge passes on what belongs to a request, once and only while it is *)
(* open: nothing goes upstream after Close, a subscriber gets a message    *)
(* once, nobody writes to a closed reader, the answer of SOME/IP and of    *)
(* DoIP is the one to this request, a deregistered shared-memory pair is   *)
(* not routed to, and a telemetry stream misses no event.                  *)
BridgesSafe ==
  /\ kind = "mqtt" => QuietAfterClose /\ DeliveredOnce
  /\ kind = "dds" => QuietAfterClose /\ NoSendOnClosed
  /\ kind = "someip" => AnswerOfUpstream
  /\ kind = "doip" => MineUntilNack
  /\ kind = "shmem" => NoRouteAfterDeregister
  /\ kind = "telemetry" => NoEventMissed
=============================================================================
