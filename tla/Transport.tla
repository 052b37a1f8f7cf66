----------------------------- MODULE Transport -----------------------------
(***************************************************************************)
(* The UDP transport: the goroutines of one udp.Controller (the callers of *)
(* Request, the read loop and Close), the datagrams between it and one     *)
(* udp.Server, and the server's loop with its Router.  Datagrams are lost, *)
(* repeated, delayed and reordered: a datagram, once sent, may be read any *)
(* number of times or never.                                               *)
(***************************************************************************)
EXTENDS Integers

CONSTANTS
  RequestCalls, \* the calls of Controller.Request
  Addr,         \* avtp.ByteBusID
  EP0,          \* regmap.EP0
  CounterMod,   \* 2^16: Request takes its counter modulo this
  MaxTxn,       \* 2^8 - 1: the largest transaction_num of the wire
  MaxRoutes     \* bound: Register and Deregister calls

ASSUME TransportAssumption ==
  /\ EP0 \in Addr
  /\ CounterMod \in Nat \ {0} /\ MaxTxn \in Nat /\ MaxRoutes \in Nat

VARIABLES
  closed,    \* Controller.closed
  connOpen,  \* Controller.conn is open
  readDone,  \* Controller.readDone is closed
  nextTxn,   \* Controller.nextTxn
  pending,   \* Controller.pending: a transaction number to the call it serves
  pc,        \* where each call of Request is
  txn,       \* its txn
  addr,      \* its addr
  chan,      \* what its ch holds, at most one message
  chanOpen,  \* its ch is not closed
  result,    \* what it returned
  reading,   \* the response the read loop has read and not looked up
  delivering,\* the call and the message the read loop is about to send to it
  closing,   \* where Close is
  toServer,  \* the request datagrams
  toClient,  \* the response datagrams
  handlers,  \* Router.handlers
  serving,   \* the request the server's handler is working on
  routes     \* bound: the number of Register and Deregister calls

ctrlVars == <<closed, connOpen, readDone, nextTxn, pending, pc, txn, addr, chan,
              chanOpen, result, reading, delivering, closing>>
callVars == <<closed, connOpen, readDone, reading, delivering, closing>>
serverVars == <<handlers, serving, routes>>
transportVars == <<ctrlVars, toServer, toClient, serverVars>>

TransportInit ==
  /\ closed = FALSE /\ connOpen = TRUE /\ readDone = FALSE
  /\ nextTxn = 0
  /\ pending = <<>>
  /\ pc = [r \in RequestCalls |-> "start"]
  /\ txn = [r \in RequestCalls |-> 0]
  /\ addr \in [RequestCalls -> Addr]
  /\ chan = [r \in RequestCalls |-> {}]
  /\ chanOpen = [r \in RequestCalls |-> TRUE]
  /\ result = [r \in RequestCalls |-> "none"]
  /\ reading = {} /\ delivering = <<>>
  /\ closing = "no"
  /\ toServer = {} /\ toClient = {}
  /\ handlers = {} /\ serving = {} /\ routes = 0

return(r, why) ==
  /\ result' = [result EXCEPT ![r] = why]
  /\ pc' = [pc EXCEPT ![r] = "done"]

(* Request checks closed and the context before it takes a number. *)
RequestBegin(r) ==
  /\ pc[r] = "start"
  /\ \/ closed /\ return(r, "closed")
     \/ ~closed /\ return(r, "timeout")
     \/ ~closed /\ pc' = [pc EXCEPT ![r] = "admitted"] /\ UNCHANGED result
  /\ UNCHANGED <<callVars, nextTxn, pending, txn, addr, chan, chanOpen,
                 toServer, toClient, serverVars>>

(* Mutated form: the number keeps two bits less than the counter. *)
takeNumber_Narrow(n) == (n + 1) % (CounterMod \div 4)

(* txn := uint16(nextTxn.Add(1)) *)
takeNumber(n) == (n + 1) % CounterMod

(* The number is taken, and EncodeFrame refuses one that the 8 bits of the *)
(* wire cannot hold.                                                       *)
RequestEncode(r) ==
  /\ pc[r] = "admitted"
  /\ nextTxn' = nextTxn + 1
  /\ txn' = [txn EXCEPT ![r] = takeNumber(nextTxn)]
  /\ IF takeNumber(nextTxn) > MaxTxn THEN return(r, "encode")
     ELSE pc' = [pc EXCEPT ![r] = "encoded"] /\ UNCHANGED result
  /\ UNCHANGED <<callVars, pending, addr, chan, chanOpen, toServer, toClient, serverVars>>

RequestRegister(r) ==
  /\ pc[r] = "encoded"
  /\ pending' = [t \in DOMAIN pending \cup {txn[r]} |-> IF t = txn[r] THEN r ELSE pending[t]]
  /\ pc' = [pc EXCEPT ![r] = "registered"]
  /\ UNCHANGED <<callVars, nextTxn, txn, addr, chan, chanOpen, result,
                 toServer, toClient, serverVars>>

(* conn.Write may fail at any time, and must once the socket is closed. *)
RequestWrite(r) ==
  /\ pc[r] = "registered"
  /\ \/ /\ connOpen
        /\ toServer' = toServer \cup {[for |-> r, txn |-> txn[r], addr |-> addr[r]]}
        /\ pc' = [pc EXCEPT ![r] = "waiting"]
        /\ UNCHANGED result
     \/ /\ result' = [result EXCEPT ![r] = "write"]
        /\ pc' = [pc EXCEPT ![r] = "leaving"]
        /\ UNCHANGED toServer
  /\ UNCHANGED <<callVars, nextTxn, pending, txn, addr, chan, chanOpen, toClient, serverVars>>

(* Mutated form: the select does not listen to readDone. *)
wakesUp_NoReadDone(r, why) ==
  \/ why = "timeout"
  \/ why = "response" /\ chan[r] # {}
  \/ why = "closed" /\ chan[r] = {} /\ ~chanOpen[r]

(* The cases of Request's select: the context, the channel, readDone. *)
wakesUp(r, why) ==
  \/ why = "timeout"
  \/ why = "response" /\ chan[r] # {}
  \/ why = "closed" /\ chan[r] = {} /\ ~chanOpen[r]
  \/ why = "closed" /\ readDone

RequestWake(r, why) ==
  /\ pc[r] = "waiting"
  /\ wakesUp(r, why)
  /\ result' = [result EXCEPT ![r] = why]
  /\ pc' = [pc EXCEPT ![r] = "leaving"]
  /\ UNCHANGED <<callVars, nextTxn, pending, txn, addr, chan, chanOpen,
                 toServer, toClient, serverVars>>

(* Mutated form: the deferred function does not delete the entry. *)
withoutEntry_Kept(t) == pending

withoutEntry(t) == [u \in DOMAIN pending \ {t} |-> pending[u]]

(* The deferred delete of Request. *)
RequestLeave(r) ==
  /\ pc[r] = "leaving"
  /\ pending' = withoutEntry(txn[r])
  /\ pc' = [pc EXCEPT ![r] = "done"]
  /\ UNCHANGED <<callVars, nextTxn, txn, addr, chan, chanOpen, result,
                 toServer, toClient, serverVars>>

(* readLoop reads a response. *)
ReadLoopRead(d) ==
  /\ connOpen /\ ~readDone /\ reading = {} /\ delivering = <<>>
  /\ reading' = {d}
  /\ UNCHANGED <<closed, connOpen, readDone, nextTxn, pending, pc, txn, addr, chan, chanOpen,
                 result, delivering, closing, toServer, toClient, serverVars>>

(* It looks the number up under c.mu; a response nobody waits for is       *)
(* dropped.                                                                *)
ReadLoopLookup(d) ==
  /\ d \in reading
  /\ reading' = {}
  /\ delivering' = IF d.txn \in DOMAIN pending THEN <<pending[d.txn], d>> ELSE <<>>
  /\ UNCHANGED <<closed, connOpen, readDone, nextTxn, pending, pc, txn, addr, chan, chanOpen,
                 result, closing, toServer, toClient, serverVars>>

(* The send, without c.mu and without waiting: a full channel keeps its     *)
(* message.                                                                 *)
ReadLoopSend ==
  /\ delivering # <<>>
  /\ LET r == delivering[1]
     IN  chan' = [chan EXCEPT ![r] = IF chan[r] = {} THEN {delivering[2]} ELSE @]
  /\ delivering' = <<>>
  /\ UNCHANGED <<closed, connOpen, readDone, nextTxn, pending, pc, txn, addr, chanOpen,
                 result, reading, closing, toServer, toClient, serverVars>>

(* A failed read ends the loop: the socket is closed. *)
ReadLoopExit ==
  /\ ~connOpen /\ reading = {} /\ delivering = <<>> /\ ~readDone
  /\ readDone' = TRUE
  /\ UNCHANGED <<closed, connOpen, nextTxn, pending, pc, txn, addr, chan, chanOpen, result,
                 reading, delivering, closing, toServer, toClient, serverVars>>

(* Any other error of the socket, such as a refused datagram, ends it too,  *)
(* and the Controller stays open without a read loop.                       *)
ReadLoopFail ==
  /\ connOpen /\ reading = {} /\ delivering = <<>> /\ ~readDone
  /\ readDone' = TRUE
  /\ UNCHANGED <<closed, connOpen, nextTxn, pending, pc, txn, addr, chan, chanOpen, result,
                 reading, delivering, closing, toServer, toClient, serverVars>>

(* Close: the first caller wins the compare-and-swap and closes the socket. *)
CloseBegin ==
  /\ ~closed
  /\ closed' = TRUE /\ connOpen' = FALSE /\ closing' = "waiting"
  /\ UNCHANGED <<readDone, nextTxn, pending, pc, txn, addr, chan, chanOpen, result,
                 reading, delivering, toServer, toClient, serverVars>>

(* Mutated form: Close does not wait for the read loop. *)
mayClear_AtOnce == TRUE

mayClear == readDone

CloseClear ==
  /\ closing = "waiting"
  /\ mayClear
  /\ closing' = "done"
  /\ chanOpen' = [r \in RequestCalls |->
                    chanOpen[r] /\ \A t \in DOMAIN pending : pending[t] # r]
  /\ pending' = <<>>
  /\ UNCHANGED <<closed, connOpen, readDone, nextTxn, pc, txn, addr, chan, result,
                 reading, delivering, toServer, toClient, serverVars>>

(* Router.Register and Router.Deregister. *)
Register(a) ==
  /\ routes < MaxRoutes
  /\ a # EP0 /\ a \notin handlers
  /\ handlers' = handlers \cup {a}
  /\ routes' = routes + 1
  /\ UNCHANGED <<ctrlVars, toServer, toClient, serving>>

Deregister(a) ==
  /\ routes < MaxRoutes
  /\ a \in handlers
  /\ handlers' = handlers \ {a}
  /\ routes' = routes + 1
  /\ UNCHANGED <<ctrlVars, toServer, toClient, serving>>

(* errorResponse and responseFor: the transaction number is the request's. *)
reply(d) == [for |-> d.for, txn |-> d.txn]

(* One request of the server's loop, up to the call of the handler: Route   *)
(* answers an unknown endpoint with an error, and EP0 without leaving the   *)
(* loop.  A Controller sends untimed headers and no evt selector, so Route  *)
(* drops nothing; a reply that cannot be encoded is one that is never read. *)
Route(d) ==
  /\ serving = {}
  /\ IF d.addr \in handlers
       THEN serving' = {d} /\ UNCHANGED toClient
       ELSE /\ toClient' = toClient \cup {reply(d)}
            /\ UNCHANGED serving
  /\ UNCHANGED <<ctrlVars, toServer, handlers, routes>>

(* The handler answers or fails; it may have been deregistered meanwhile. *)
HandleRequest(d) ==
  /\ d \in serving
  /\ serving' = {}
  /\ toClient' = toClient \cup {reply(d)}
  /\ UNCHANGED <<ctrlVars, toServer, handlers, routes>>

RequestStep(r) ==
  \/ RequestBegin(r) \/ RequestEncode(r) \/ RequestRegister(r) \/ RequestWrite(r)
  \/ \E why \in {"timeout", "response", "closed"} : RequestWake(r, why)
  \/ RequestLeave(r)

TransportNext ==
  \/ \E r \in RequestCalls : RequestStep(r)
  \/ \E d \in toClient : ReadLoopRead(d)
  \/ \E d \in reading : ReadLoopLookup(d)
  \/ ReadLoopSend \/ ReadLoopExit \/ ReadLoopFail
  \/ CloseBegin \/ CloseClear
  \/ \E a \in Addr : Register(a) \/ Deregister(a)
  \/ \E d \in toServer : Route(d)
  \/ \E d \in serving : HandleRequest(d)

TransportSpec == TransportInit /\ [][TransportNext]_transportVars

(* A goroutine that can go on does: the callers of Request except for the  *)
(* expiry of their context, the read loop and Close.                       *)
RequestRuns(r) ==
  \/ RequestBegin(r) \/ RequestEncode(r) \/ RequestRegister(r) \/ RequestWrite(r)
  \/ \E why \in {"response", "closed"} : RequestWake(r, why)
  \/ RequestLeave(r)

TransportFairSpec ==
  /\ TransportSpec
  /\ \A r \in RequestCalls : WF_transportVars(RequestRuns(r))
  /\ WF_transportVars(\E d \in reading : ReadLoopLookup(d))
  /\ WF_transportVars(ReadLoopSend) /\ WF_transportVars(ReadLoopExit) /\ WF_transportVars(CloseClear)

-----------------------------------------------------------------------------
(* The read loop never sends on a channel that Close closed, which would   *)
(* panic: the read, the lookup and the send are not atomic, but Close waits *)
(* for the loop to end before it closes the channels.                      *)
NoSendOnClosedChannel == delivering # <<>> => chanOpen[delivering[1]]

(* Before the counter wraps, a Request that returns a response returns the *)
(* response to itself, however late, often or disordered the datagrams     *)
(* arrive and however many calls share the Controller.                     *)
AnswerIsMine ==
  nextTxn < CounterMod =>
    \A r \in RequestCalls : result[r] = "response" => \A d \in chan[r] : d.for = r

(* Before the counter wraps, an entry of pending belongs to a call that is *)
(* still inside Request: a call that timed out leaves nothing behind.      *)
PendingInFlight ==
  nextTxn < CounterMod =>
    \A t \in DOMAIN pending :
      /\ txn[pending[t]] = t
      /\ pc[pending[t]] \in {"registered", "waiting", "leaving"}

(* Close unblocks every call of Request, also one that passes the closed   *)
(* check first and registers itself after Close emptied pending; and so    *)
(* does a read loop that ended by itself, for calls begun before or later. *)
NobodyWaitsForever ==
  \A r \in RequestCalls : ((closed \/ readDone) /\ pc[r] # "start") ~> pc[r] = "done"

(* The comment of Request: the transaction number is a 16-bit wire field,  *)
(* so numbering a request never fails.                                     *)
EveryNumberEncodes == \A r \in RequestCalls : result[r] # "encode"
=============================================================================
