-------------------------- MODULE RegistriesProofs --------------------------
(***************************************************************************)
(* Proofs about the client's transport, for any number of calls of         *)
(* Request, endpoints and field widths, and about Registries: for each     *)
(* package an inductive invariant, that it holds at first, that every step *)
(* keeps it and that it implies the package's property.                    *)
(***************************************************************************)
EXTENDS Transport, Registries, TLAPS

-----------------------------------------------------------------------------
(* Transport. *)

(* What makes the read loop's unlocked send safe: Close closes channels    *)
(* only after the loop has ended, and the loop ends only between messages. *)
CloseInv ==
  /\ chanOpen \in [RequestCalls -> BOOLEAN]
  /\ delivering # <<>> => delivering[1] \in RequestCalls
  /\ \A t \in DOMAIN pending : pending[t] \in RequestCalls
  /\ ~closed => closing = "no"
  /\ closing = "done" => readDone
  /\ reading # {} => delivering = <<>>
  /\ readDone => reading = {} /\ delivering = <<>>
  /\ closing # "done" => \A r \in RequestCalls : chanOpen[r]

(* A Request step leaves the read loop and Close where they are. *)
LEMMA RequestStepCloseInv ==
  ASSUME CloseInv, NEW r \in RequestCalls, RequestStep(r)
  PROVE  CloseInv'
<1>1. UNCHANGED <<closed, connOpen, readDone, reading, delivering, closing, chanOpen>>
  BY Zenon DEF RequestStep, RequestBegin, RequestEncode, RequestRegister, RequestWrite,
         RequestWake, RequestLeave, callVars
<1>2. \A t \in DOMAIN pending' : pending'[t] \in RequestCalls
  <2>1. CASE RequestRegister(r)
    BY Zenon, <2>1 DEF RequestRegister, CloseInv
  <2>2. CASE RequestLeave(r)
    BY <2>2 DEF RequestLeave, withoutEntry, CloseInv
  <2>3. CASE UNCHANGED pending
    BY <2>3 DEF CloseInv
  <2> QED
    BY Zenon, <2>1, <2>2, <2>3 DEF RequestStep, RequestBegin, RequestEncode, RequestWrite, RequestWake
<1> QED
  BY <1>1, <1>2 DEF CloseInv

LEMMA NextCloseInv == ASSUME CloseInv, [TransportNext]_transportVars PROVE CloseInv'
<1>0. ASSUME NEW d \in toClient, ReadLoopRead(d) PROVE CloseInv'
  BY <1>0 DEF ReadLoopRead, CloseInv
<1>1. ASSUME NEW d \in reading, ReadLoopLookup(d) PROVE CloseInv'
  <2>1. ~readDone /\ ~readDone' /\ reading' = {}
    BY <1>1 DEF ReadLoopLookup, CloseInv
  <2>2. delivering' # <<>> => delivering'[1] \in RequestCalls
    BY Zenon, <1>1 DEF ReadLoopLookup, CloseInv
  <2> QED
    BY <1>1, <2>1, <2>2 DEF ReadLoopLookup, CloseInv
<1>2. CASE ReadLoopSend
  BY <1>2 DEF ReadLoopSend, CloseInv
<1>3. CASE ReadLoopExit \/ ReadLoopFail
  <2>1. /\ reading = {} /\ delivering = <<>> /\ readDone' = TRUE
        /\ UNCHANGED <<closed, connOpen, pending, chanOpen, reading, delivering, closing>>
    BY <1>3 DEF ReadLoopExit, ReadLoopFail
  <2>2. reading' = {} /\ delivering' = <<>>
    BY <2>1
  <2> QED
    BY <2>1, <2>2, Zenon DEF CloseInv
<1>4. CASE CloseBegin
  BY <1>4 DEF CloseBegin, CloseInv
<1>5. CASE CloseClear
  <2>1. chanOpen' \in [RequestCalls -> BOOLEAN]
    BY <1>5 DEF CloseClear, CloseInv
  <2>2. \A t \in DOMAIN pending' : pending'[t] \in RequestCalls
    BY <1>5 DEF CloseClear
  <2> QED
    BY <1>5, <2>1, <2>2 DEF CloseClear, mayClear, CloseInv
<1>6. CASE UNCHANGED ctrlVars
  BY <1>6 DEF ctrlVars, CloseInv
<1>7. ASSUME NEW a \in Addr, Register(a) \/ Deregister(a) PROVE UNCHANGED ctrlVars
  BY <1>7 DEF Register, Deregister
<1>8. ASSUME NEW d, Route(d) \/ HandleRequest(d) PROVE UNCHANGED ctrlVars
  BY <1>8 DEF Route, HandleRequest
<1>9. UNCHANGED transportVars => UNCHANGED ctrlVars
  BY DEF transportVars
<1> QED
  BY <1>0, <1>1, <1>2, <1>3, <1>4, <1>5, <1>6, <1>7, <1>8, <1>9, RequestStepCloseInv DEF TransportNext

(* The read loop never panics by sending on a channel that Close closed,   *)
(* for any number of calls and any interleaving of them with Close.        *)
THEOREM ReadLoopNeverPanics == TransportSpec => []NoSendOnClosedChannel
<1>1. TransportInit => CloseInv
  BY DEF TransportInit, CloseInv
<1>2. CloseInv /\ [TransportNext]_transportVars => CloseInv'
  BY NextCloseInv
<1>3. CloseInv => NoSendOnClosedChannel
  BY DEF CloseInv, NoSendOnClosedChannel
<1> QED
  BY <1>1, <1>2, <1>3, PTL DEF TransportSpec
-----------------------------------------------------------------------------
(* Where a call of Request is. *)
Place == {"start", "admitted", "encoded", "registered", "waiting", "leaving", "done"}
InFlight == {"registered", "waiting", "leaving"}

(* The number d.txn of a datagram is the one of the call it serves. *)
numbered(d) == d.for \in RequestCalls /\ d.txn = txn[d.for] /\ d.txn # 0

(* Until the counter wraps, two calls never have the same number, so what  *)
(* carries a call's number belongs to it.                                  *)
NumberInv ==
  /\ nextTxn \in Nat
  /\ pc \in [RequestCalls -> Place]
  /\ txn \in [RequestCalls -> Nat]
  /\ DOMAIN chan = RequestCalls
  /\ nextTxn < CounterMod =>
       /\ \A r \in RequestCalls : txn[r] <= nextTxn
       /\ \A r \in RequestCalls : pc[r] \in {"start", "admitted"} => txn[r] = 0
       /\ \A r \in RequestCalls : pc[r] \in {"encoded"} \cup InFlight => txn[r] # 0
       /\ \A r, q \in RequestCalls : txn[r] = txn[q] /\ txn[r] # 0 => r = q
       /\ \A d \in toServer \cup toClient \cup serving \cup reading : numbered(d)
       /\ \A t \in DOMAIN pending : /\ pending[t] \in RequestCalls
                                    /\ txn[pending[t]] = t
                                    /\ pc[pending[t]] \in InFlight
       /\ delivering # <<>> => /\ delivering[1] \in RequestCalls
                               /\ numbered(delivering[2])
                               /\ delivering[2].txn = txn[delivering[1]]
       /\ \A r \in RequestCalls : \A d \in chan[r] : d.for = r

LEMMA EncodeNumberInv ==
  ASSUME NumberInv, NEW r \in RequestCalls, RequestEncode(r)
  PROVE  NumberInv'
<1> DEFINE n == takeNumber(nextTxn)
<1>1. /\ pc[r] = "admitted" /\ nextTxn' = nextTxn + 1
      /\ txn' = [txn EXCEPT ![r] = n]
      /\ pc' = [pc EXCEPT ![r] = "done"] \/ pc' = [pc EXCEPT ![r] = "encoded"]
      /\ UNCHANGED <<pending, chan, reading, delivering, toServer, toClient, serving>>
  BY DEF RequestEncode, return, callVars, serverVars
<1>2. n \in Nat /\ (nextTxn + 1 < CounterMod => n = nextTxn + 1)
  BY SMTT(30), TransportAssumption DEF NumberInv, takeNumber
<1>3. /\ nextTxn' \in Nat /\ pc' \in [RequestCalls -> Place] /\ txn' \in [RequestCalls -> Nat]
      /\ DOMAIN chan' = RequestCalls
  BY <1>1, <1>2 DEF NumberInv, Place
<1> SUFFICES ASSUME nextTxn' < CounterMod
             PROVE  NumberInv'
  BY Zenon, <1>3 DEF NumberInv
<1>4. nextTxn < CounterMod /\ n = nextTxn + 1 /\ txn[r] = 0
  BY <1>1, <1>2, TransportAssumption DEF NumberInv
<1> HIDE DEF n
<1>5. \A q \in RequestCalls : q # r => txn'[q] = txn[q] /\ pc'[q] = pc[q]
  BY ZenonT(40), <1>1 DEF NumberInv
<1>6. txn'[r] = n /\ pc'[r] \in {"done", "encoded"}
  BY Zenon, <1>1 DEF NumberInv
<1>7. \A d : numbered(d) => numbered(d)'
  BY <1>4, <1>5 DEF numbered
<1>8. \A q \in RequestCalls : txn[q] <= nextTxn /\ txn[q] \in Nat
  BY Zenon, <1>4 DEF NumberInv
<1>9. /\ \A q \in RequestCalls : txn'[q] <= nextTxn'
      /\ \A q \in RequestCalls : pc'[q] \in {"start", "admitted"} => txn'[q] = 0
      /\ \A q \in RequestCalls : pc'[q] \in {"encoded"} \cup InFlight => txn'[q] # 0
      /\ \A p, q \in RequestCalls : txn'[p] = txn'[q] /\ txn'[p] # 0 => p = q
  BY SMTT(30), <1>1, <1>4, <1>5, <1>6, <1>8 DEF NumberInv
<1>10. \A t \in DOMAIN pending : /\ pending[t] \in RequestCalls
                                 /\ txn'[pending[t]] = t
                                 /\ pc'[pending[t]] \in InFlight
  BY Zenon, <1>1, <1>4, <1>5 DEF NumberInv, InFlight
<1>11. delivering # <<>> => /\ delivering[1] \in RequestCalls
                            /\ numbered(delivering[2])'
                            /\ delivering[2].txn = txn'[delivering[1]]
  <2> SUFFICES ASSUME delivering # <<>>
               PROVE  /\ delivering[1] \in RequestCalls
                      /\ numbered(delivering[2])'
                      /\ delivering[2].txn = txn'[delivering[1]]
    OBVIOUS
  <2>1. /\ delivering[1] \in RequestCalls /\ numbered(delivering[2])
        /\ delivering[2].txn = txn[delivering[1]]
    BY Zenon, <1>4 DEF NumberInv
  <2>2. delivering' = delivering
    BY <1>1
  <2>3. delivering[1] # r
    BY <1>4, <2>1 DEF numbered
  <2> QED
    BY Zenon, <1>5, <1>7, <2>1, <2>2, <2>3
<1> QED
  BY Zenon, <1>1, <1>3, <1>4, <1>7, <1>9, <1>10, <1>11 DEF NumberInv

(* A step of a call that keeps its number. *)
LEMMA CallNumberInv ==
  ASSUME NumberInv, NEW r \in RequestCalls, RequestStep(r), UNCHANGED <<nextTxn, txn>>
  PROVE  NumberInv'
<1>1. /\ pc' \in [RequestCalls -> Place] /\ DOMAIN chan' = RequestCalls
      /\ \A q \in RequestCalls : q # r => pc'[q] = pc[q]
      /\ UNCHANGED <<chan, reading, delivering, toClient, serving>>
  BY SMTT(30) DEF RequestStep, RequestBegin, RequestEncode, RequestRegister, RequestWrite,
         RequestWake, RequestLeave, return, callVars, serverVars, NumberInv, Place
<1>2. \/ pc[r] = "start" /\ pc'[r] \in {"admitted", "done"} /\ UNCHANGED <<pending, toServer>>
      \/ pc[r] = "admitted" /\ pc'[r] \in {"encoded", "done"} /\ RequestEncode(r)
      \/ pc[r] = "encoded" /\ pc'[r] = "registered" /\ RequestRegister(r)
      \/ pc[r] = "registered" /\ pc'[r] \in {"waiting", "leaving"} /\ RequestWrite(r)
      \/ pc[r] = "waiting" /\ pc'[r] = "leaving" /\ UNCHANGED <<pending, toServer>>
      \/ pc[r] = "leaving" /\ pc'[r] = "done" /\ RequestLeave(r)
  BY SMTT(30) DEF RequestStep, RequestBegin, RequestEncode, RequestRegister, RequestWrite,
         RequestWake, RequestLeave, return, NumberInv
<1> SUFFICES ASSUME nextTxn < CounterMod PROVE NumberInv'
  BY Zenon, <1>1 DEF NumberInv
<1>3. ~RequestEncode(r)
  <2>1. RequestEncode(r) => nextTxn' = nextTxn + 1
    BY Zenon DEF RequestEncode
  <2>2. nextTxn' = nextTxn /\ nextTxn \in Nat
    BY Zenon DEF NumberInv
  <2> QED
    BY <2>1, <2>2
<1>4. /\ \A q \in RequestCalls : pc'[q] \in {"start", "admitted"} => txn[q] = 0
      /\ \A q \in RequestCalls : pc'[q] \in {"encoded"} \cup InFlight => txn[q] # 0
  BY ZenonT(40), <1>1, <1>2, <1>3 DEF NumberInv, InFlight
<1>5. \A d \in toServer' : numbered(d)'
  <2>1. toServer' = toServer \/ (/\ pc[r] = "registered"
                                 /\ toServer' = toServer \cup {[for |-> r, txn |-> txn[r], addr |-> addr[r]]})
    BY Zenon, <1>2, <1>3 DEF RequestRegister, RequestWrite, RequestLeave
  <2> QED
    BY <2>1 DEF NumberInv, InFlight, numbered
<1>6. \A t \in DOMAIN pending' : /\ pending'[t] \in RequestCalls
                                 /\ txn[pending'[t]] = t
                                 /\ pc'[pending'[t]] \in InFlight
  <2>1. CASE RequestRegister(r)
    BY Zenon, <1>1, <1>2, <2>1 DEF RequestRegister, NumberInv, InFlight
  <2>2. CASE RequestLeave(r)
    BY ZenonT(40), <1>1, <2>2 DEF RequestLeave, withoutEntry, NumberInv, InFlight
  <2>3. CASE UNCHANGED pending /\ ~RequestRegister(r) /\ ~RequestLeave(r)
    BY Zenon, <1>1, <1>2, <1>3, <2>3 DEF NumberInv, InFlight
  <2> QED
    BY Zenon, <1>2, <1>3, <2>1, <2>2, <2>3 DEF RequestWrite
<1>7. \A d : numbered(d) => numbered(d)'
  BY DEF numbered
<1> QED
  BY Zenon, <1>1, <1>4, <1>5, <1>6, <1>7 DEF NumberInv

LEMMA ReadLoopNumberInv ==
  ASSUME NumberInv, \/ \E d \in toClient : ReadLoopRead(d)
                    \/ \E d \in reading : ReadLoopLookup(d)
                    \/ ReadLoopSend
  PROVE  NumberInv'
<1>1. \A d : numbered(d) => numbered(d)'
  BY Zenon DEF ReadLoopRead, ReadLoopLookup, ReadLoopSend, numbered
<1>0. ASSUME NEW d \in toClient, ReadLoopRead(d) PROVE NumberInv'
  <2>1. /\ reading' = {d}
        /\ UNCHANGED <<nextTxn, pc, txn, chan, pending, delivering, toServer, toClient, serving>>
    BY Zenon, <1>0 DEF ReadLoopRead, serverVars
  <2>2. nextTxn < CounterMod => \A e \in toServer \cup toClient \cup serving \cup reading : numbered(e)'
    BY Zenon, <1>1 DEF NumberInv
  <2>3. nextTxn < CounterMod => \A e \in toServer \cup toClient \cup serving \cup {d} : numbered(e)'
    BY Zenon, <1>0, <2>2
  <2>4. nextTxn < CounterMod => (delivering # <<>> => numbered(delivering[2])')
    BY Zenon, <1>1, <2>1 DEF NumberInv
  <2>5. /\ nextTxn' = nextTxn /\ pc' = pc /\ txn' = txn /\ chan' = chan /\ pending' = pending /\ delivering' = delivering
        /\ (toServer \cup toClient \cup serving \cup reading)' = toServer \cup toClient \cup serving \cup {d}
    BY Zenon, <2>1
  <2> QED
    BY ZenonT(40), <2>5, <2>3, <2>4 DEF NumberInv
<1>2. ASSUME NEW d \in reading, ReadLoopLookup(d) PROVE NumberInv'
  <2>1. /\ reading' = {}
        /\ UNCHANGED <<nextTxn, pc, txn, chan, pending, toServer, toClient, serving>>
    BY Zenon, <1>2 DEF ReadLoopLookup, serverVars
  <2>2. CASE d.txn \in DOMAIN pending
    <3>1. delivering' = <<pending[d.txn], d>>
      BY Zenon, <1>2, <2>2 DEF ReadLoopLookup
    <3>2. delivering'[1] = pending[d.txn] /\ delivering'[2] = d
      BY Zenon, <3>1
    <3>3. nextTxn < CounterMod => /\ delivering'[1] \in RequestCalls
                                  /\ numbered(d)'
                                  /\ d.txn = txn[pending[d.txn]]
      BY Zenon, <1>1, <2>2, <3>2 DEF NumberInv
    <3> QED
      BY Zenon, <1>1, <2>1, <3>2, <3>3 DEF NumberInv
  <2>3. CASE d.txn \notin DOMAIN pending
    <3>1. delivering' = <<>>
      BY Zenon, <1>2, <2>3 DEF ReadLoopLookup
    <3> QED
      BY Zenon, <1>1, <2>1, <3>1 DEF NumberInv
  <2> QED
    BY Zenon, <2>2, <2>3
<1>3. CASE ReadLoopSend
  <2> DEFINE r == delivering[1]
             d == delivering[2]
  <2>1. /\ delivering # <<>> /\ delivering' = <<>>
        /\ chan' = [chan EXCEPT ![r] = IF chan[r] = {} THEN {d} ELSE @]
        /\ UNCHANGED <<nextTxn, pc, txn, pending, reading, toServer, toClient, serving>>
    BY Zenon, <1>3 DEF ReadLoopSend, serverVars
  <2>2. nextTxn < CounterMod => d.for = r
    BY Zenon, <2>1 DEF NumberInv, numbered
  <2>3. DOMAIN chan' = RequestCalls
    BY Zenon, <2>1 DEF NumberInv
  <2>4. nextTxn < CounterMod => \A q \in RequestCalls : \A e \in chan'[q] : e.for = q
    BY Zenon, <2>1, <2>2 DEF NumberInv
  <2> QED
    BY Zenon, <1>1, <2>1, <2>3, <2>4 DEF NumberInv
<1> QED
  BY <1>0, <1>2, <1>3

LEMMA ServerNumberInv ==
  ASSUME NumberInv, \/ \E d \in toServer : Route(d)
                    \/ \E d \in serving : HandleRequest(d)
  PROVE  NumberInv'
<1>1. PICK d \in toServer \cup serving : (Route(d) /\ d \in toServer) \/ HandleRequest(d)
  OBVIOUS
<1>2. /\ UNCHANGED <<nextTxn, pc, txn, chan, pending, reading, delivering, toServer>>
      /\ toClient' \subseteq toClient \cup {reply(d)}
      /\ serving' \subseteq serving \cup {d}
  BY Zenon, <1>1 DEF Route, HandleRequest, ctrlVars
<1>3. \A e : numbered(e) => numbered(e)'
  BY Zenon, <1>2 DEF numbered
<1>4. numbered(d) => numbered(reply(d))
  BY Zenon DEF numbered, reply
<1>5. nextTxn < CounterMod =>
        \A e \in toServer' \cup toClient' \cup serving' \cup reading' : numbered(e)'
  BY SMTT(30), <1>1, <1>2, <1>3, <1>4 DEF NumberInv
<1> QED
  BY Zenon, <1>2, <1>3, <1>5 DEF NumberInv

LEMMA NextNumberInv == ASSUME NumberInv, [TransportNext]_transportVars PROVE NumberInv'
<1>1. ASSUME NEW r \in RequestCalls, RequestStep(r) PROVE NumberInv'
  <2>1. RequestEncode(r) \/ UNCHANGED <<nextTxn, txn>>
    BY Zenon, <1>1 DEF RequestStep, RequestBegin, RequestRegister, RequestWrite, RequestWake, RequestLeave
  <2> QED
    BY <1>1, <2>1, EncodeNumberInv, CallNumberInv
<1>2. CASE ReadLoopExit \/ ReadLoopFail \/ CloseBegin \/ CloseClear \/ UNCHANGED transportVars
  <2>1. /\ UNCHANGED <<nextTxn, pc, txn, chan, reading, delivering, toServer, toClient, serving>>
        /\ pending' = pending \/ pending' = <<>>
    BY Zenon, <1>2 DEF ReadLoopExit, ReadLoopFail, CloseBegin, CloseClear, transportVars, ctrlVars, serverVars
  <2>2. \A d : numbered(d) => numbered(d)'
    BY Zenon, <2>1 DEF numbered
  <2>3. DOMAIN <<>> = {}
    OBVIOUS
  <2> QED
    BY Zenon, <2>1, <2>2, <2>3 DEF NumberInv
<1>3. ASSUME NEW a \in Addr, Register(a) \/ Deregister(a) PROVE NumberInv'
  <2>1. UNCHANGED <<nextTxn, pc, txn, chan, reading, delivering, pending, toServer, toClient, serving>>
    BY Zenon, <1>3 DEF Register, Deregister, ctrlVars
  <2>2. \A d : numbered(d) => numbered(d)'
    BY Zenon, <2>1 DEF numbered
  <2> QED
    BY Zenon, <2>1, <2>2 DEF NumberInv
<1> QED
  BY <1>1, <1>2, <1>3, ReadLoopNumberInv, ServerNumberInv DEF TransportNext

LEMMA NumberInvariant == TransportSpec => []NumberInv
<1>1. TransportInit => NumberInv
  BY DEF TransportInit, NumberInv, Place, InFlight
<1>2. NumberInv /\ [TransportNext]_transportVars => NumberInv'
  BY NextNumberInv
<1> QED
  BY <1>1, <1>2, PTL DEF TransportSpec

(* Until the counter wraps, a Request that returns a response returns its  *)
(* own, for any number of calls and any behaviour of the network.          *)
THEOREM AnswersAreMine == TransportSpec => []AnswerIsMine
<1>1. NumberInv => AnswerIsMine
  BY Zenon DEF NumberInv, AnswerIsMine
<1> QED
  BY <1>1, NumberInvariant, PTL

(* Until the counter wraps, pending holds calls inside Request only. *)
THEOREM PendingStaysInFlight == TransportSpec => []PendingInFlight
<1>1. NumberInv => PendingInFlight
  BY Zenon DEF NumberInv, PendingInFlight, InFlight
<1> QED
  BY <1>1, NumberInvariant, PTL


-----------------------------------------------------------------------------
(* Registries. *)
(* What a call does to the table of calls. *)
LEMMA GoesOne ==
  ASSUME calls = [d \in Callers |-> calls[d]], NEW c \in Callers, NEW k, goes(c, k)
  PROVE  /\ calls' = [d \in Callers |-> calls'[d]]
         /\ calls'[c] = k /\ \A d \in Callers : d # c => calls'[d] = calls[d]
BY DEF goes

-----------------------------------------------------------------------------
(* capi. *)
(* A handle is the number of the Controller that it was made for. *)
HandlesCall(k, n) ==
  /\ k.pc \in {"idle", "store", "request", "close"}
  /\ k.pc = "store" => k.h = k.ctrl
  /\ k.pc \in {"store", "close"} => k.ctrl \in 1..n
  /\ k.pc = "request" => k.of = k.ctrl

HandlesTable(f, n) == DOMAIN f \subseteq 1..n /\ \A h \in DOMAIN f : f[h] = h

HandlesShape ==
  /\ DOMAIN st = {"seq", "ctrls"} /\ DOMAIN seen = {"made", "of", "closed", "used", "requests"}
  /\ seen.made \in Nat /\ st.seq = seen.made
  /\ HandlesTable(st.ctrls, seen.made) /\ HandlesTable(seen.of, seen.made) /\ DOMAIN st.ctrls \subseteq DOMAIN seen.of
  /\ calls = [c \in Callers |-> calls[c]]
  /\ \A c \in Callers : HandlesCall(calls[c], seen.made)
  /\ \A u \in seen.used : u[1] = u[2]

(* The Controllers that a call is at work on, each in one hand. *)
isHeld(k) == k.pc \in {"store", "close"}
inHand == {calls[c].ctrl : c \in {d \in Callers : isHeld(calls[d])}}
oneHand == \A c, d \in Callers : isHeld(calls[c]) /\ isHeld(calls[d]) /\ calls[c].ctrl = calls[d].ctrl => c = d

HandlesOpen ==
  /\ seen.closed \in Seq({0, 1}) /\ Len(seen.closed) = seen.made
  /\ oneHand /\ DOMAIN st.ctrls \cap inHand = {}
  /\ \A i \in 1..seen.made : seen.closed[i] = 0 <=> i \in DOMAIN st.ctrls \cup inHand

HandlesInv == HandlesShape /\ HandlesOpen

LEMMA HandlesInitial == HandlesInit => HandlesInv
<1> SUFFICES ASSUME HandlesInit PROVE HandlesInv
  OBVIOUS
<1>1. calls = [c \in Callers |-> Idle] /\ Idle.pc = "idle"
  BY DEF HandlesInit, CallsInit, Idle
<1>2. \A c \in Callers : calls[c].pc = "idle"
  BY <1>1
<1>3. /\ DOMAIN st = {"seq", "ctrls"} /\ st.seq = 0 /\ st.ctrls = <<>>
      /\ DOMAIN seen = {"made", "of", "closed", "used", "requests"} /\ seen.made = 0 /\ seen.of = <<>> /\ seen.closed = <<>>
      /\ seen.used = {}
  BY DEF HandlesInit
<1>4. DOMAIN <<>> = {} /\ HandlesTable(<<>>, 0) /\ <<>> \in Seq({0, 1}) /\ Len(<<>>) = 0
  BY DEF HandlesTable
<1>5. HandlesShape
  BY <1>1, <1>2, <1>3, <1>4 DEF HandlesShape, HandlesCall
<1>6. inHand = {} /\ oneHand
  BY <1>2 DEF inHand, oneHand, isHeld
<1>7. HandlesOpen
  BY <1>3, <1>4, <1>6 DEF HandlesOpen
<1> QED
  BY <1>5, <1>7 DEF HandlesInv

LEMMA HandlesSound == HandlesInv => HandleReachesItsOwn
<1> SUFFICES ASSUME HandlesInv PROVE HandleReachesItsOwn
  OBVIOUS
<1>1. {calls[c].ctrl : c \in {d \in Callers : at(d, "store") \/ at(d, "close")}} = inHand
  BY DEF inHand, isHeld, at
<1>2. {st.ctrls[h] : h \in DOMAIN st.ctrls} = DOMAIN st.ctrls
  BY DEF HandlesInv, HandlesShape, HandlesTable
<1>3. DOMAIN seen.closed = 1..seen.made /\ \A i \in 1..seen.made : seen.closed[i] \in {0, 1}
  BY DEF HandlesInv, HandlesOpen
<1>4. \A i \in inHand : i \in 1..seen.made
  BY DEF HandlesInv, HandlesShape, HandlesCall, inHand, isHeld
<1>5. {i \in DOMAIN seen.closed : seen.closed[i] = 0} = DOMAIN st.ctrls \cup inHand
  BY <1>3, <1>4 DEF HandlesInv, HandlesOpen, HandlesShape, HandlesTable
<1>6. \A i \in DOMAIN seen.closed : seen.closed[i] <= 1
  BY <1>3
<1>7. \A g, h \in DOMAIN st.ctrls : st.ctrls[g] = st.ctrls[h] => g = h
  BY DEF HandlesInv, HandlesShape, HandlesTable
<1> QED
  BY <1>1, <1>2, <1>5, <1>6, <1>7 DEF HandleReachesItsOwn, HandlesInv, HandlesShape

LEMMA InHandIs ==
  ASSUME calls = [d \in Callers |-> calls[d]], oneHand, NEW c \in Callers, NEW k, goes(c, k)
  PROVE  /\ ~isHeld(k) /\ ~isHeld(calls[c]) => inHand' = inHand /\ oneHand'
         /\ isHeld(k) /\ ~isHeld(calls[c]) /\ k.ctrl \notin inHand => inHand' = inHand \cup {k.ctrl} /\ oneHand'
         /\ ~isHeld(k) /\ isHeld(calls[c]) => inHand' = inHand \ {calls[c].ctrl} /\ oneHand'
<1>1. calls'[c] = k /\ \A d \in Callers : d # c => calls'[d] = calls[d]
  BY GoesOne
<1> DEFINE rest == {calls[d].ctrl : d \in {e \in Callers : e # c /\ isHeld(calls[e])}}
<1>2. inHand' = {calls'[d].ctrl : d \in {e \in Callers : isHeld(calls'[e])}}
  BY DEF inHand, isHeld
<1>3. inHand' = rest \cup (IF isHeld(k) THEN {k.ctrl} ELSE {})
  BY <1>1, <1>2
<1>4. inHand = rest \cup (IF isHeld(calls[c]) THEN {calls[c].ctrl} ELSE {})
  BY DEF inHand
<1>5. isHeld(calls[c]) => calls[c].ctrl \notin rest
  BY DEF oneHand
<1>6. oneHand' <=> \A d, e \in Callers : isHeld(calls'[d]) /\ isHeld(calls'[e]) /\ calls'[d].ctrl = calls'[e].ctrl => d = e
  BY DEF oneHand, isHeld
<1>7. ~isHeld(k) \/ k.ctrl \notin inHand => oneHand'
  BY <1>1, <1>6 DEF oneHand, inHand
<1> HIDE DEF rest
<1> QED
  BY <1>3, <1>4, <1>5, <1>7

LEMMA HandlesGoes ==
  ASSUME HandlesInv, NEW c \in Callers, NEW k, goes(c, k), seen'.made \in Nat, seen.made <= seen'.made, HandlesCall(k, seen'.made)
  PROVE  calls' = [d \in Callers |-> calls'[d]] /\ \A d \in Callers : HandlesCall(calls'[d], seen'.made)
<1>1. /\ calls' = [d \in Callers |-> calls'[d]]
      /\ calls'[c] = k /\ \A d \in Callers : d # c => calls'[d] = calls[d]
  BY GoesOne DEF HandlesInv, HandlesShape
<1>2. ASSUME NEW l, HandlesCall(l, seen.made) PROVE HandlesCall(l, seen'.made)
  BY <1>2 DEF HandlesCall, HandlesInv, HandlesShape
<1> QED
  BY <1>1, <1>2 DEF HandlesInv, HandlesShape

LEMMA HandlesBegins ==
  ASSUME HandlesInv, NEW c \in Callers, NewBegin(c)
  PROVE  HandlesInv'
<1> DEFINE n == seen.made + 1
           k == [pc |-> "store", h |-> n, ctrl |-> n]
<1>0. seen.made \in Nat /\ st.seq = seen.made
  BY DEF HandlesInv, HandlesShape
<1>1. /\ calls[c].pc = "idle" /\ goes(c, k) /\ st' = [st EXCEPT !.seq = n]
      /\ seen' = [seen EXCEPT !.made = n, !.closed = Append(seen.closed, 0)]
  BY <1>0 DEF NewBegin, at, nextHandle
<1>2. /\ DOMAIN st' = DOMAIN st /\ st'.seq = n /\ st'.ctrls = st.ctrls /\ DOMAIN seen' = DOMAIN seen /\ seen'.made = n
      /\ seen'.closed = Append(seen.closed, 0) /\ seen'.of = seen.of /\ seen'.used = seen.used
  BY <1>1 DEF HandlesInv, HandlesShape
<1>3. k.ctrl = n /\ HandlesCall(k, n) /\ isHeld(k) /\ ~isHeld(calls[c])
  BY <1>0, <1>1 DEF HandlesCall, isHeld
<1> HIDE DEF k
<1>4. calls' = [d \in Callers |-> calls'[d]] /\ \A d \in Callers : HandlesCall(calls'[d], n)
  BY <1>0, <1>1, <1>2, <1>3, HandlesGoes
<1>5. HandlesTable(st.ctrls, n) /\ HandlesTable(seen.of, n)
  BY <1>0 DEF HandlesTable, HandlesInv, HandlesShape
<1>6. HandlesShape'
  BY <1>0, <1>2, <1>4, <1>5 DEF HandlesInv, HandlesShape
<1>7. n \notin inHand /\ n \notin DOMAIN st.ctrls
  <2>1. \A d \in Callers : isHeld(calls[d]) => calls[d].ctrl \in 1..seen.made
    BY DEF HandlesInv, HandlesShape, HandlesCall, isHeld
  <2> QED
    BY <1>0, <2>1 DEF inHand, HandlesInv, HandlesShape, HandlesTable
<1>8. inHand' = inHand \cup {n} /\ oneHand'
  BY <1>1, <1>3, <1>7, InHandIs DEF HandlesInv, HandlesShape, HandlesOpen
<1>9. /\ seen'.closed \in Seq({0, 1}) /\ Len(seen'.closed) = n
      /\ seen'.closed[n] = 0 /\ \A i \in 1..seen.made : seen'.closed[i] = seen.closed[i]
  BY <1>0, <1>2 DEF HandlesInv, HandlesOpen
<1>10. \A i \in 1..n : seen'.closed[i] = 0 <=> i \in DOMAIN st'.ctrls \cup inHand'
  <2>1. \A i \in 1..n : i \in 1..seen.made \/ i = n
    BY <1>0
  <2>2. \A i \in 1..seen.made : i # n
    BY <1>0
  <2> QED
    BY SMTT(30), <1>2, <1>8, <1>9, <2>1, <2>2 DEF HandlesInv, HandlesOpen
<1>11. DOMAIN st'.ctrls \cap inHand' = {}
  BY <1>2, <1>7, <1>8 DEF HandlesInv, HandlesOpen
<1>12. HandlesOpen'
  BY <1>2, <1>8, <1>9, <1>10, <1>11 DEF HandlesOpen
<1> QED
  BY <1>6, <1>12 DEF HandlesInv

LEMMA HandlesStores ==
  ASSUME HandlesInv, NEW c \in Callers, NewEnd(c)
  PROVE  HandlesInv'
<1> DEFINE k == calls[c]
           x == k.ctrl
<1>1. /\ k.pc = "store" /\ goes(c, Idle) /\ st' = [st EXCEPT !.ctrls = put(st.ctrls, k.h, x)]
      /\ seen' = [seen EXCEPT !.of = IF k.h \in DOMAIN seen.of THEN seen.of ELSE put(seen.of, k.h, x)]
  BY DEF NewEnd, at, returns
<1>2. k.h = x /\ x \in 1..seen.made /\ isHeld(k) /\ x \in inHand
  BY <1>1 DEF HandlesInv, HandlesShape, HandlesCall, isHeld, inHand
<1>3. inHand' = inHand \ {x} /\ oneHand'
  <2>1. ~isHeld(Idle)
    BY DEF isHeld, Idle
  <2> QED
    BY <1>1, <1>2, <2>1, InHandIs DEF HandlesInv, HandlesShape, HandlesOpen
<1> HIDE DEF x, k
<1> DEFINE of == IF x \in DOMAIN seen.of THEN seen.of ELSE put(seen.of, x, x)
<1>4. /\ DOMAIN st' = DOMAIN st /\ st'.seq = st.seq /\ st'.ctrls = put(st.ctrls, x, x) /\ DOMAIN seen' = DOMAIN seen /\ seen'.made = seen.made
      /\ seen'.closed = seen.closed /\ seen'.of = of /\ seen'.used = seen.used
  BY <1>1, <1>2 DEF HandlesInv, HandlesShape
<1>5. HandlesTable(put(st.ctrls, x, x), seen.made) /\ DOMAIN put(st.ctrls, x, x) = DOMAIN st.ctrls \cup {x}
  BY <1>2 DEF HandlesTable, HandlesInv, HandlesShape, put
<1>6. HandlesTable(of, seen.made) /\ DOMAIN of = DOMAIN seen.of \cup {x}
  <2>1. HandlesTable(put(seen.of, x, x), seen.made) /\ DOMAIN put(seen.of, x, x) = DOMAIN seen.of \cup {x}
    BY <1>2 DEF HandlesTable, HandlesInv, HandlesShape, put
  <2> QED
    BY <2>1 DEF HandlesInv, HandlesShape
<1> HIDE DEF of
<1>7. calls' = [d \in Callers |-> calls'[d]] /\ \A d \in Callers : HandlesCall(calls'[d], seen.made)
  <2>1. HandlesCall(Idle, seen.made) /\ seen.made \in Nat
    BY DEF HandlesCall, Idle, HandlesInv, HandlesShape
  <2> QED
    BY <1>1, <1>4, <2>1, HandlesGoes
<1>8. HandlesShape'
  BY <1>4, <1>5, <1>6, <1>7 DEF HandlesInv, HandlesShape
<1>9. HandlesOpen'
  BY <1>2, <1>3, <1>4, <1>5 DEF HandlesInv, HandlesOpen
<1> QED
  BY <1>8, <1>9 DEF HandlesInv

(* A step that takes no Controller in hand. *)
LEMMA HandlesKeep ==
  ASSUME HandlesInv, NEW c \in Callers, NEW k, goes(c, k), HandlesCall(k, seen.made), ~isHeld(k), ~isHeld(calls[c]), st' = st,
         DOMAIN seen' = DOMAIN seen, seen'.made = seen.made, seen'.of = seen.of, seen'.closed = seen.closed,
         \A u \in seen'.used : u[1] = u[2]
  PROVE  HandlesInv'
<1>1. calls' = [d \in Callers |-> calls'[d]] /\ \A d \in Callers : HandlesCall(calls'[d], seen.made)
  <2>1. seen.made \in Nat
    BY DEF HandlesInv, HandlesShape
  <2> QED
    BY <2>1, HandlesGoes
<1>2. HandlesShape'
  BY <1>1 DEF HandlesInv, HandlesShape
<1>3. inHand' = inHand /\ oneHand'
  BY InHandIs DEF HandlesInv, HandlesShape, HandlesOpen
<1>4. HandlesOpen'
  BY <1>3 DEF HandlesInv, HandlesOpen
<1> QED
  BY <1>2, <1>4 DEF HandlesInv

LEMMA HandlesAsks ==
  ASSUME HandlesInv, NEW c \in Callers, NEW h, HandlesRequestBegin(c, h)
  PROVE  HandlesInv'
<1>1. /\ calls[c].pc = "idle" /\ st' = st /\ DOMAIN seen' = DOMAIN seen /\ seen'.made = seen.made /\ seen'.of = seen.of
      /\ seen'.closed = seen.closed /\ seen'.used = seen.used
  BY DEF HandlesRequestBegin, at, HandlesInv, HandlesShape
<1>2. CASE h \in DOMAIN st.ctrls
  <2> DEFINE k == [pc |-> "request", h |-> h, ctrl |-> st.ctrls[h], of |-> seen.of[h]]
  <2>1. goes(c, k)
    BY <1>2 DEF HandlesRequestBegin
  <2>2. st.ctrls[h] = h /\ seen.of[h] = h
    BY <1>2 DEF HandlesInv, HandlesShape, HandlesTable
  <2>3. HandlesCall(k, seen.made) /\ ~isHeld(k) /\ ~isHeld(calls[c])
    BY SMTT(30), <1>1, <2>2 DEF HandlesCall, isHeld
  <2> HIDE DEF k
  <2>4. \A u \in seen'.used : u[1] = u[2]
    BY <1>1 DEF HandlesInv, HandlesShape
  <2> QED
    BY SMTT(30), <1>1, <2>1, <2>3, <2>4, HandlesKeep
<1>3. CASE h \notin DOMAIN st.ctrls
  <2>1. calls' = calls
    BY <1>3 DEF HandlesRequestBegin
  <2>2. inHand' = inHand /\ oneHand' = oneHand
    BY <2>1 DEF inHand, oneHand, isHeld
  <2>3. HandlesShape'
    BY <1>1, <2>1 DEF HandlesInv, HandlesShape
  <2>4. HandlesOpen'
    BY <1>1, <2>2 DEF HandlesInv, HandlesOpen
  <2> QED
    BY <2>3, <2>4 DEF HandlesInv
<1> QED
  BY <1>2, <1>3

LEMMA HandlesAnswers ==
  ASSUME HandlesInv, NEW c \in Callers, RequestEnd(c)
  PROVE  HandlesInv'
<1> DEFINE k == calls[c]
<1>1. k.pc = "request" /\ goes(c, Idle) /\ st' = st /\ seen' = [seen EXCEPT !.used = @ \cup {<<k.of, k.ctrl>>}]
  BY DEF RequestEnd, at, returns
<1>2. k.of = k.ctrl /\ ~isHeld(k)
  BY <1>1 DEF HandlesInv, HandlesShape, HandlesCall, isHeld
<1>3. HandlesCall(Idle, seen.made) /\ ~isHeld(Idle)
  BY DEF HandlesCall, isHeld, Idle
<1>4. /\ DOMAIN seen' = DOMAIN seen /\ seen'.made = seen.made /\ seen'.of = seen.of
      /\ seen'.closed = seen.closed /\ seen'.used = seen.used \cup {<<k.ctrl, k.ctrl>>}
  BY <1>1, <1>2 DEF HandlesInv, HandlesShape
<1>5. \A u \in seen'.used : u[1] = u[2]
  BY <1>4 DEF HandlesInv, HandlesShape
<1> QED
  BY <1>1, <1>2, <1>3, <1>4, <1>5, HandlesKeep

LEMMA HandlesCloses ==
  ASSUME HandlesInv, NEW c \in Callers, NEW h, HandlesCloseBegin(c, h)
  PROVE  HandlesInv'
<1> DEFINE k == [pc |-> "close", ctrl |-> h]
<1>1. calls[c].pc = "idle" /\ h \in DOMAIN st.ctrls /\ seen' = seen
  BY DEF HandlesCloseBegin, at
<1>2. st.ctrls[h] = h /\ h \in 1..seen.made /\ h \notin inHand
  BY <1>1 DEF HandlesInv, HandlesShape, HandlesTable, HandlesOpen
<1>3. goes(c, k) /\ st' = [st EXCEPT !.ctrls = without(st.ctrls, h)]
  BY <1>2 DEF HandlesCloseBegin
<1>4. k.ctrl = h /\ HandlesCall(k, seen.made) /\ isHeld(k) /\ ~isHeld(calls[c])
  BY <1>1, <1>2 DEF HandlesCall, isHeld
<1> HIDE DEF k
<1>5. inHand' = inHand \cup {h} /\ oneHand'
  BY <1>2, <1>3, <1>4, InHandIs DEF HandlesInv, HandlesShape, HandlesOpen
<1>6. DOMAIN st' = DOMAIN st /\ st'.seq = st.seq /\ st'.ctrls = without(st.ctrls, h)
  BY <1>3 DEF HandlesInv, HandlesShape
<1>7. HandlesTable(without(st.ctrls, h), seen.made) /\ DOMAIN without(st.ctrls, h) = DOMAIN st.ctrls \ {h}
  BY DEF without, HandlesTable, HandlesInv, HandlesShape
<1>8. calls' = [d \in Callers |-> calls'[d]] /\ \A d \in Callers : HandlesCall(calls'[d], seen.made)
  <2>1. seen.made \in Nat
    BY DEF HandlesInv, HandlesShape
  <2> QED
    BY <1>1, <1>3, <1>4, <2>1, HandlesGoes
<1>9. HandlesShape'
  BY <1>1, <1>6, <1>7, <1>8 DEF HandlesInv, HandlesShape
<1>10. HandlesOpen'
  BY <1>1, <1>5, <1>6, <1>7 DEF HandlesInv, HandlesOpen
<1> QED
  BY <1>9, <1>10 DEF HandlesInv

LEMMA HandlesClosed ==
  ASSUME HandlesInv, NEW c \in Callers, HandlesCloseEnd(c)
  PROVE  HandlesInv'
<1> DEFINE x == calls[c].ctrl
<1>1. calls[c].pc = "close" /\ goes(c, Idle) /\ st' = st /\ seen' = [seen EXCEPT !.closed = [seen.closed EXCEPT ![x] = seen.closed[x] + 1]]
  BY DEF HandlesCloseEnd, at, returns
<1>2. x \in 1..seen.made /\ isHeld(calls[c]) /\ x \in inHand
  BY <1>1 DEF HandlesInv, HandlesShape, HandlesCall, isHeld, inHand
<1>3. HandlesCall(Idle, seen.made) /\ ~isHeld(Idle) /\ seen.made \in Nat
  BY DEF HandlesCall, isHeld, Idle, HandlesInv, HandlesShape
<1>4. inHand' = inHand \ {x} /\ oneHand'
  BY <1>1, <1>2, <1>3, InHandIs DEF HandlesInv, HandlesShape, HandlesOpen
<1> HIDE DEF x
<1>5. x \notin DOMAIN st.ctrls /\ seen.closed[x] = 0
  BY <1>2 DEF HandlesInv, HandlesOpen
<1>6. /\ DOMAIN seen' = DOMAIN seen /\ seen'.made = seen.made /\ seen'.of = seen.of
      /\ seen'.closed = [seen.closed EXCEPT ![x] = seen.closed[x] + 1] /\ seen'.used = seen.used
  BY <1>1 DEF HandlesInv, HandlesShape
<1>7. /\ seen'.closed \in Seq({0, 1}) /\ Len(seen'.closed) = seen.made
      /\ seen'.closed[x] = 1 /\ \A i \in 1..seen.made : i # x => seen'.closed[i] = seen.closed[i]
  <2>1. seen.closed \in Seq({0, 1}) /\ Len(seen.closed) = seen.made /\ DOMAIN seen.closed = 1..seen.made
    BY DEF HandlesInv, HandlesOpen
  <2> QED
    BY <1>2, <1>5, <1>6, <2>1
<1>8. calls' = [d \in Callers |-> calls'[d]] /\ \A d \in Callers : HandlesCall(calls'[d], seen.made)
  BY <1>1, <1>3, <1>6, HandlesGoes
<1>9. HandlesShape'
  BY <1>1, <1>6, <1>8 DEF HandlesInv, HandlesShape
<1>10. \A i \in 1..seen.made : seen'.closed[i] = 0 <=> i \in DOMAIN st.ctrls \cup (inHand \ {x})
  BY <1>5, <1>7 DEF HandlesInv, HandlesOpen
<1>11. HandlesOpen'
  BY <1>1, <1>4, <1>6, <1>7, <1>10 DEF HandlesInv, HandlesOpen
<1> QED
  BY <1>9, <1>11 DEF HandlesInv

LEMMA HandlesStep == HandlesInv /\ HandlesNext => HandlesInv'
BY HandlesBegins, HandlesStores, HandlesAsks, HandlesAnswers, HandlesCloses, HandlesClosed DEF HandlesNext

-----------------------------------------------------------------------------
(* tsn and udp.Registry. *)
(* A call, with n Controllers made and the priorities of their sockets. *)
TsnCall(k, n) ==
  /\ k.pc \in {"idle", "register", "priority", "send"}
  /\ k.pc # "idle" => k.ctrl \in 1..n
  /\ k.pc \in {"priority", "send"} => DOMAIN k = {"pc", "ctrl", "pcp", "other"} /\ k.pcp \in Int

TsnOwn(k, prio) == k.pc = "send" => k.other \/ prio[k.ctrl] = socketPriority(k.pcp)

(* The Controllers that are being registered, each by one call. *)
dialling == {calls[c].ctrl : c \in {d \in Callers : calls[d].pc = "register"}}
dialsOnce ==
  \A c, d \in Callers : calls[c].pc = "register" /\ calls[d].pc = "register" /\ calls[c].ctrl = calls[d].ctrl => c = d

TsnShape ==
  /\ DOMAIN st = {"prio", "open", "reg", "closed"} /\ DOMAIN seen = {"sent", "requests"}
  /\ st.prio \in Seq(Int) /\ st.reg \in 0..Len(st.prio)
  /\ calls = [c \in Callers |-> calls[c]]
  /\ \A c \in Callers : TsnCall(calls[c], Len(st.prio))

TsnPriorities ==
  /\ \A c \in Callers : TsnOwn(calls[c], st.prio)
  /\ OwnPriority

TsnSockets ==
  /\ st.open = ({st.reg} \ {0}) \cup dialling
  /\ st.reg \notin dialling
  /\ dialsOnce

TsnInv == TsnShape /\ TsnPriorities /\ TsnSockets

LEMMA TsnInitial == TsnInit => TsnInv
<1> SUFFICES ASSUME TsnInit PROVE TsnInv
  OBVIOUS
<1>1. calls = [c \in Callers |-> Idle] /\ Idle.pc = "idle"
  BY DEF TsnInit, CallsInit, Idle
<1>2. \A c \in Callers : calls[c].pc = "idle"
  BY <1>1
<1>3. dialling = {}
  BY <1>2 DEF dialling
<1>4. TsnShape
  BY <1>1, <1>2 DEF TsnInit, TsnShape, TsnCall
<1>5. TsnPriorities
  BY <1>2 DEF TsnInit, TsnPriorities, TsnOwn, OwnPriority
<1>6. TsnSockets
  BY <1>2, <1>3 DEF TsnInit, TsnSockets, dialsOnce
<1> QED
  BY <1>4, <1>5, <1>6 DEF TsnInv

LEMMA TsnSound == TsnInv => OwnPriority /\ TsnNoSocketLeft
BY DEF TsnInv, TsnPriorities, TsnSockets, TsnNoSocketLeft, dialling, at

(* What a call does to the Controllers that are being registered. *)
LEMMA DiallingIs ==
  ASSUME calls = [d \in Callers |-> calls[d]], dialsOnce, NEW c \in Callers, NEW k, goes(c, k)
  PROVE  /\ k.pc # "register" /\ calls[c].pc # "register" => dialling' = dialling /\ dialsOnce'
         /\ k.pc = "register" /\ calls[c].pc # "register" /\ k.ctrl \notin dialling => dialling' = dialling \cup {k.ctrl} /\ dialsOnce'
         /\ k.pc # "register" /\ calls[c].pc = "register" => dialling' = dialling \ {calls[c].ctrl} /\ dialsOnce'
<1>1. calls'[c] = k /\ \A d \in Callers : d # c => calls'[d] = calls[d]
  BY GoesOne
<1> DEFINE rest == {calls[d].ctrl : d \in {e \in Callers : e # c /\ calls[e].pc = "register"}}
<1>2. dialling' = {calls'[d].ctrl : d \in {e \in Callers : calls'[e].pc = "register"}}
  BY DEF dialling
<1>3. dialling' = rest \cup (IF k.pc = "register" THEN {k.ctrl} ELSE {})
  BY <1>1, <1>2
<1>4. dialling = rest \cup (IF calls[c].pc = "register" THEN {calls[c].ctrl} ELSE {})
  BY DEF dialling
<1>5. calls[c].pc = "register" => calls[c].ctrl \notin rest
  BY DEF dialsOnce
<1>6. k.pc # "register" \/ k.ctrl \notin dialling => dialsOnce'
  BY <1>1 DEF dialsOnce, dialling
<1> HIDE DEF rest
<1> QED
  BY <1>3, <1>4, <1>5, <1>6

(* A step of one call. *)
LEMMA TsnGoes ==
  ASSUME TsnInv, NEW c \in Callers, NEW k, goes(c, k), st'.prio \in Seq(Int), Len(st.prio) <= Len(st'.prio),
         \A i \in 1..Len(st.prio) : st'.prio[i] = st.prio[i], TsnCall(k, Len(st'.prio)), k.pc # "send"
  PROVE  /\ calls' = [d \in Callers |-> calls'[d]]
         /\ \A d \in Callers : TsnCall(calls'[d], Len(st'.prio)) /\ TsnOwn(calls'[d], st'.prio)
<1>1. /\ calls' = [d \in Callers |-> calls'[d]]
      /\ calls'[c] = k /\ \A d \in Callers : d # c => calls'[d] = calls[d]
  BY GoesOne DEF TsnInv, TsnShape
<1>2. Len(st.prio) \in Nat /\ Len(st'.prio) \in Nat
  BY DEF TsnInv, TsnShape
<1>3. ASSUME NEW l, TsnCall(l, Len(st.prio)), TsnOwn(l, st.prio)
      PROVE  TsnCall(l, Len(st'.prio)) /\ TsnOwn(l, st'.prio)
  <2>1. l.pc # "idle" => l.ctrl \in 1..Len(st.prio) /\ l.ctrl \in 1..Len(st'.prio)
    BY <1>2, <1>3 DEF TsnCall
  <2> QED
    BY SMTT(30), <1>3, <2>1 DEF TsnCall, TsnOwn
<1>4. \A d \in Callers : d # c => TsnCall(calls[d], Len(st.prio)) /\ TsnOwn(calls[d], st.prio)
  BY DEF TsnInv, TsnShape, TsnPriorities
<1>5. TsnOwn(k, st'.prio)
  BY DEF TsnOwn
<1> QED
  BY <1>1, <1>3, <1>4, <1>5

LEMMA TsnDials ==
  ASSUME TsnInv, NEW c \in Callers, TsnDialBegin(c)
  PROVE  TsnInv'
<1> DEFINE n == Len(st.prio)
           k == [pc |-> "register", ctrl |-> n + 1]
<1>0. st.prio \in Seq(Int) /\ n \in Nat
  BY DEF TsnInv, TsnShape
<1>1. /\ calls[c].pc = "idle" /\ goes(c, k) /\ seen' = seen
      /\ st' = [st EXCEPT !.prio = Append(st.prio, 0), !.open = st.open \cup {n + 1}]
  BY DEF TsnDialBegin, at
<1>2. DOMAIN st' = DOMAIN st /\ st'.prio = Append(st.prio, 0) /\ st'.open = st.open \cup {n + 1} /\ st'.reg = st.reg
  BY <1>1 DEF TsnInv, TsnShape
<1>3. st'.prio \in Seq(Int) /\ Len(st'.prio) = n + 1 /\ \A i \in 1..n : st'.prio[i] = st.prio[i]
  BY <1>0, <1>2
<1>4. k.pc = "register" /\ k.ctrl = n + 1 /\ TsnCall(k, n + 1)
  BY <1>0 DEF TsnCall
<1> HIDE DEF k
<1>5. /\ calls' = [d \in Callers |-> calls'[d]]
      /\ \A d \in Callers : TsnCall(calls'[d], n + 1) /\ TsnOwn(calls'[d], st'.prio)
  BY <1>0, <1>1, <1>3, <1>4, TsnGoes
<1>6. TsnShape'
  <2>1. st.reg \in 0..(n + 1)
    BY <1>0 DEF TsnInv, TsnShape
  <2> QED
    BY <1>1, <1>2, <1>3, <1>5, <2>1 DEF TsnInv, TsnShape
<1>7. TsnPriorities'
  BY <1>1, <1>5 DEF TsnInv, TsnPriorities, OwnPriority
<1>8. TsnSockets'
  <2>2. n + 1 # st.reg /\ n + 1 \notin dialling
    <3>1. \A d \in Callers : calls[d].pc = "register" => calls[d].ctrl \in 1..n
      BY DEF TsnInv, TsnShape, TsnCall
    <3> QED
      BY <1>0, <3>1 DEF dialling, TsnInv, TsnShape
  <2>3. dialling' = dialling \cup {n + 1} /\ dialsOnce'
    BY <1>1, <1>4, <2>2, DiallingIs DEF TsnInv, TsnShape, TsnSockets
  <2> QED
    BY <1>2, <2>2, <2>3 DEF TsnInv, TsnSockets
<1> QED
  BY <1>6, <1>7, <1>8 DEF TsnInv

(* A step of a call that leaves the sockets' priorities alone. *)
LEMMA TsnKeeps ==
  ASSUME TsnInv, NEW c \in Callers, NEW k, goes(c, k), TsnCall(k, Len(st.prio)), k.pc # "send",
         DOMAIN st' = DOMAIN st, st'.prio = st.prio, st'.reg \in 0..Len(st.prio),
         DOMAIN seen' = DOMAIN seen, \A s \in seen'.sent : s \in seen.sent \/ s.other \/ s.prio = socketPriority(s.pcp)
  PROVE  TsnShape' /\ TsnPriorities'
<1>1. st'.prio \in Seq(Int) /\ Len(st.prio) <= Len(st'.prio) /\ \A i \in 1..Len(st.prio) : st'.prio[i] = st.prio[i]
  BY DEF TsnInv, TsnShape
<1>2. /\ calls' = [d \in Callers |-> calls'[d]]
      /\ \A d \in Callers : TsnCall(calls'[d], Len(st'.prio)) /\ TsnOwn(calls'[d], st'.prio)
  BY <1>1, TsnGoes
<1>3. TsnShape'
  BY <1>1, <1>2 DEF TsnInv, TsnShape
<1>4. TsnPriorities'
  BY <1>2 DEF TsnInv, TsnPriorities, OwnPriority
<1> QED
  BY <1>3, <1>4

LEMMA TsnRegisters ==
  ASSUME TsnInv, NEW c \in Callers, DialRegister(c)
  PROVE  TsnInv'
<1> DEFINE x == calls[c].ctrl
<1>1. /\ calls[c].pc = "register" /\ goes(c, Idle) /\ seen' = seen
      /\ st' = IF st.closed \/ st.reg # 0 THEN [st EXCEPT !.open = st.open \ {x}] ELSE [st EXCEPT !.reg = x]
  BY DEF DialRegister, at, returns, refused
<1>2. x \in 1..Len(st.prio) /\ x \in dialling /\ Len(st.prio) \in Nat
  BY <1>1 DEF TsnInv, TsnShape, TsnCall, dialling
<1>3. Idle.pc = "idle" /\ TsnCall(Idle, Len(st.prio))
  BY DEF Idle, TsnCall
<1>4. dialling' = dialling \ {x}
  BY <1>1, <1>3, DiallingIs DEF TsnInv, TsnShape, TsnSockets
<1>6. dialsOnce'
  BY <1>1, <1>3, DiallingIs DEF TsnInv, TsnShape, TsnSockets
<1> HIDE DEF x
<1>7. CASE st.closed \/ st.reg # 0
  <2>1. DOMAIN st' = DOMAIN st /\ st'.prio = st.prio /\ st'.reg = st.reg /\ st'.open = st.open \ {x}
    BY <1>1, <1>7 DEF TsnInv, TsnShape
  <2>2. st.reg # x
    BY <1>2 DEF TsnInv, TsnSockets
  <2>3. st'.open = ({st'.reg} \ {0}) \cup dialling' /\ st'.reg \notin dialling'
    BY <1>4, <2>1, <2>2 DEF TsnInv, TsnSockets
  <2>4. st.reg \in 0..Len(st.prio)
    BY DEF TsnInv, TsnShape
  <2>5. TsnShape' /\ TsnPriorities'
    BY <1>1, <1>3, <2>1, <2>4, TsnKeeps
  <2> QED
    BY <1>6, <2>3, <2>5 DEF TsnInv, TsnSockets
<1>8. CASE ~(st.closed \/ st.reg # 0)
  <2>1. DOMAIN st' = DOMAIN st /\ st'.prio = st.prio /\ st'.reg = x /\ st'.open = st.open
    BY <1>1, <1>8 DEF TsnInv, TsnShape
  <2>2. st.reg = 0 /\ x # 0
    BY <1>2, <1>8
  <2>3. st'.open = ({st'.reg} \ {0}) \cup dialling' /\ st'.reg \notin dialling'
    BY <1>2, <1>4, <2>1, <2>2 DEF TsnInv, TsnSockets
  <2>4. x \in 0..Len(st.prio)
    BY <1>2
  <2>5. TsnShape' /\ TsnPriorities'
    BY <1>1, <1>3, <2>1, <2>4, TsnKeeps
  <2> QED
    BY <1>6, <2>3, <2>5 DEF TsnInv, TsnSockets
<1> QED
  BY <1>7, <1>8

LEMMA TsnLeaves ==
  ASSUME TsnInv, TsnDeregister \/ TsnClose
  PROVE  TsnInv'
<1>1. /\ DOMAIN st' = DOMAIN st /\ st'.prio = st.prio /\ st'.reg = 0 /\ st'.open = st.open \ {st.reg}
      /\ calls' = calls /\ seen' = seen
  BY Zenon DEF TsnInv, TsnShape, TsnDeregister, TsnClose
<1>2. dialling' = dialling /\ dialsOnce' = dialsOnce
  BY <1>1 DEF dialling, dialsOnce
<1>3. 0 \in 0..Len(st.prio)
  BY DEF TsnInv, TsnShape
<1>4. TsnShape'
  BY <1>1, <1>3 DEF TsnInv, TsnShape
<1>5. TsnPriorities'
  BY <1>1 DEF TsnInv, TsnPriorities, OwnPriority
<1>6. 0 \notin dialling
  BY DEF TsnInv, TsnShape, TsnCall, dialling
<1>7. TsnSockets'
  BY <1>1, <1>2, <1>6 DEF TsnInv, TsnSockets
<1> QED
  BY <1>4, <1>5, <1>7 DEF TsnInv

(* A step of a call that neither begins nor ends a registration. *)
LEMMA TsnSocketsKeep ==
  ASSUME TsnShape, TsnSockets, st'.open = st.open, st'.reg = st.reg,
         \A d \in Callers : /\ calls'[d].pc = "register" <=> calls[d].pc = "register"
                            /\ calls[d].pc = "register" => calls'[d].ctrl = calls[d].ctrl
  PROVE  TsnSockets'
<1>1. dialling' = dialling
  BY DEF dialling
<1>2. dialsOnce'
  BY DEF TsnSockets, dialsOnce
<1> QED
  BY <1>1, <1>2 DEF TsnSockets

LEMMA TsnAsks ==
  ASSUME TsnInv, NEW c \in Callers, NEW rank \in Ranks, TsnRequestBegin(c, rank)
  PROVE  TsnInv'
<1> DEFINE k == [pc |-> "priority", ctrl |-> st.reg, pcp |-> PCPFor(rank), other |-> FALSE]
<1>1. calls[c].pc = "idle" /\ st.reg # 0 /\ goes(c, k) /\ seen' = [seen EXCEPT !.requests = @ + 1] /\ st' = st
  BY DEF TsnRequestBegin, at
<1>2. PCPFor(rank) \in Int
  BY TsnAssumption DEF PCPFor
<1>3. k.pc = "priority" /\ TsnCall(k, Len(st.prio))
  BY <1>1, <1>2 DEF TsnCall, TsnInv, TsnShape
<1> HIDE DEF k
<1>4. DOMAIN seen' = DOMAIN seen /\ seen'.sent = seen.sent
  BY <1>1 DEF TsnInv, TsnShape
<1>5. st.reg \in 0..Len(st.prio)
  BY DEF TsnInv, TsnShape
<1>6. TsnShape' /\ TsnPriorities'
  BY <1>1, <1>3, <1>4, <1>5, TsnKeeps
<1>7. calls'[c] = k /\ \A d \in Callers : d # c => calls'[d] = calls[d]
  BY <1>1, GoesOne DEF TsnInv, TsnShape
<1>8. TsnSockets'
  BY <1>1, <1>3, <1>7, TsnSocketsKeep DEF TsnInv
<1> QED
  BY <1>6, <1>8 DEF TsnInv

LEMMA TsnSends ==
  ASSUME TsnInv, NEW c \in Callers, RequestSend(c)
  PROVE  TsnInv'
<1> DEFINE k == calls[c]
           s == [pcp |-> k.pcp, prio |-> st.prio[k.ctrl], other |-> k.other]
<1>1. /\ k.pc = "send" /\ goes(c, Idle) /\ st' = st
      /\ seen' = seen \/ seen' = [seen EXCEPT !.sent = @ \cup {s}]
  BY DEF RequestSend, at, returns
<1>2. Idle.pc = "idle" /\ TsnCall(Idle, Len(st.prio))
  BY DEF Idle, TsnCall
<1>3. TsnOwn(k, st.prio)
  BY DEF TsnInv, TsnPriorities
<1>4. calls'[c] = Idle /\ \A d \in Callers : d # c => calls'[d] = calls[d]
  BY <1>1, GoesOne DEF TsnInv, TsnShape
<1>5. TsnSockets'
  BY <1>1, <1>2, <1>4, TsnSocketsKeep DEF TsnInv
<1>6. st.reg \in 0..Len(st.prio)
  BY DEF TsnInv, TsnShape
<1> HIDE DEF k
<1>7. s.other \/ s.prio = socketPriority(s.pcp)
  BY <1>1, <1>3 DEF TsnOwn
<1> HIDE DEF s
<1>8. DOMAIN seen' = DOMAIN seen /\ seen'.sent \subseteq seen.sent \cup {s}
  BY <1>1 DEF TsnInv, TsnShape
<1>9. TsnShape' /\ TsnPriorities'
  BY <1>1, <1>2, <1>6, <1>7, <1>8, TsnKeeps
<1> QED
  BY <1>5, <1>9 DEF TsnInv

LEMMA TsnSets ==
  ASSUME TsnInv, NEW c \in Callers, RequestPriority(c)
  PROVE  TsnInv'
<1> DEFINE k == calls[c]
           x == k.ctrl
           p == socketPriority(k.pcp)
<1>0. st.prio \in Seq(Int) /\ DOMAIN st.prio = 1..Len(st.prio) /\ Len(st.prio) \in Nat
  BY DEF TsnInv, TsnShape
<1>1. /\ k.pc = "priority" /\ st' = [st EXCEPT !.prio = [@ EXCEPT ![x] = p]] /\ seen' = seen
      /\ calls' = [d \in Callers |->
           IF d = c THEN [k EXCEPT !.pc = "send"]
           ELSE IF calls[d].pc = "send" /\ calls[d].ctrl = x THEN [calls[d] EXCEPT !.other = TRUE]
           ELSE calls[d]]
  BY DEF RequestPriority, at, priority
<1>2. TsnCall(k, Len(st.prio))
  BY DEF TsnInv, TsnShape
<1>3. /\ calls' = [d \in Callers |-> calls'[d]] /\ calls'[c] = [k EXCEPT !.pc = "send"]
      /\ \A d \in Callers : d # c => calls'[d] = IF calls[d].pc = "send" /\ calls[d].ctrl = x THEN [calls[d] EXCEPT !.other = TRUE]
                                                ELSE calls[d]
  BY <1>1
<1> HIDE DEF k
<1>4. x \in 1..Len(st.prio) /\ p \in Int
  BY <1>1, <1>2 DEF TsnCall, socketPriority
<1> HIDE DEF p
<1>5. DOMAIN st' = DOMAIN st /\ st'.prio = [st.prio EXCEPT ![x] = p] /\ st'.reg = st.reg /\ st'.open = st.open
  BY <1>1 DEF TsnInv, TsnShape
<1> HIDE DEF x
<1>6. /\ st'.prio \in Seq(Int) /\ Len(st'.prio) = Len(st.prio)
      /\ st'.prio[x] = p /\ \A i \in 1..Len(st.prio) : i # x => st'.prio[i] = st.prio[i]
  BY <1>0, <1>4, <1>5
<1>7. /\ TsnCall(calls'[c], Len(st.prio)) /\ TsnOwn(calls'[c], st'.prio) /\ calls'[c].pc = "send"
  <2>1. /\ TsnCall([k EXCEPT !.pc = "send"], Len(st.prio)) /\ [k EXCEPT !.pc = "send"].pc = "send"
        /\ [k EXCEPT !.pc = "send"].ctrl = x /\ [k EXCEPT !.pc = "send"].pcp = k.pcp
    BY <1>1, <1>2 DEF TsnCall, x
  <2> QED
    BY <1>3, <1>6, <2>1 DEF TsnOwn, p
<1>8. ASSUME NEW d \in Callers, d # c
      PROVE  /\ TsnCall(calls'[d], Len(st.prio)) /\ TsnOwn(calls'[d], st'.prio)
             /\ calls'[d].pc = calls[d].pc /\ (calls[d].pc = "register" => calls'[d].ctrl = calls[d].ctrl)
  <2> DEFINE l == calls[d]
  <2>1. TsnCall(l, Len(st.prio)) /\ TsnOwn(l, st.prio)
    BY DEF TsnInv, TsnShape, TsnPriorities
  <2>2. CASE l.pc = "send" /\ l.ctrl = x
    <3>1. calls'[d] = [l EXCEPT !.other = TRUE]
      BY <1>3, <1>8, <2>2
    <3> HIDE DEF l
    <3>2. TsnCall([l EXCEPT !.other = TRUE], Len(st.prio)) /\ [l EXCEPT !.other = TRUE].pc = l.pc
      BY <2>1, <2>2 DEF TsnCall
    <3>3. [l EXCEPT !.other = TRUE].other = TRUE
      BY <2>1, <2>2 DEF TsnCall
    <3> QED
      BY <2>2, <3>1, <3>2, <3>3 DEF TsnOwn, l
  <2>3. CASE ~(l.pc = "send" /\ l.ctrl = x)
    <3>1. calls'[d] = l
      BY <1>3, <1>8, <2>3
    <3>2. TsnOwn(l, st'.prio)
      <4> HIDE DEF l
      <4> QED
        BY <1>6, <2>1, <2>3 DEF TsnOwn, TsnCall
    <3> QED
      BY <2>1, <3>1, <3>2
  <2> QED
    BY SMTT(30), <2>2, <2>3
<1>9. TsnShape'
  BY <1>1, <1>3, <1>5, <1>6, <1>7, <1>8 DEF TsnInv, TsnShape
<1>10. TsnPriorities'
  BY <1>1, <1>7, <1>8 DEF TsnInv, TsnPriorities, OwnPriority
<1>11. TsnSockets'
  <2>1. calls[c].pc # "register" /\ calls'[c].pc # "register"
    BY <1>1, <1>7 DEF k
  <2> QED
    BY <1>5, <1>8, <2>1, TsnSocketsKeep DEF TsnInv
<1> QED
  BY <1>9, <1>10, <1>11 DEF TsnInv

LEMMA TsnStep == TsnInv /\ TsnNext => TsnInv'
BY TsnDials, TsnRegisters, TsnLeaves, TsnAsks, TsnSends, TsnSets DEF TsnNext

(* A dialled Controller is registered under one key, or its caller's, or   *)
(* being registered.                                                       *)
DialsShape ==
  /\ DOMAIN st = {"ctrls", "closed", "open"} /\ DOMAIN seen = {"made", "own"}
  /\ seen.made \in Nat /\ st.ctrls \in [Keys -> 0..seen.made] /\ seen.own \subseteq 1..seen.made
  /\ calls = [c \in Callers |-> calls[c]]
  /\ \A c \in Callers : calls[c].pc = "register" => calls[c].ctrl \in 1..seen.made /\ calls[c].key \in Keys

DialsSockets ==
  /\ DialsNoSocketLeft /\ dialsOnce
  /\ Registered \cap seen.own = {} /\ Registered \cap dialling = {} /\ seen.own \cap dialling = {}
  /\ \A k, l \in Keys : st.ctrls[k] # 0 /\ st.ctrls[k] = st.ctrls[l] => k = l

DialsInv == DialsShape /\ DialsSockets

LEMMA DialsInitial == DialsInit => DialsInv
<1> SUFFICES ASSUME DialsInit PROVE DialsInv
  OBVIOUS
<1>1. calls = [c \in Callers |-> Idle] /\ Idle.pc = "idle"
  BY DEF DialsInit, CallsInit, Idle
<1>2. \A c \in Callers : calls[c].pc = "idle"
  BY <1>1
<1>3. dialling = {} /\ dialsOnce
  BY <1>2 DEF dialling, dialsOnce
<1>4. /\ DOMAIN st = {"ctrls", "closed", "open"} /\ st.ctrls = [k \in Keys |-> 0] /\ st.open = {}
      /\ DOMAIN seen = {"made", "own"} /\ seen.made = 0 /\ seen.own = {}
  BY SMTT(30) DEF DialsInit
<1>5. Registered = {}
  BY <1>4 DEF Registered
<1>6. DialsShape
  BY <1>1, <1>2, <1>4 DEF DialsShape
<1>7. DialsSockets
  BY <1>2, <1>3, <1>4, <1>5 DEF DialsSockets, DialsNoSocketLeft, at
<1> QED
  BY <1>6, <1>7 DEF DialsInv

LEMMA DialsSound == DialsInv => DialsNoSocketLeft
BY DEF DialsInv, DialsSockets

LEMMA DialsMeans ==
  /\ DialsNoSocketLeft <=> st.open = Registered \cup seen.own \cup dialling /\ (st.closed => Registered = {})
  /\ DialsNoSocketLeft' <=> st'.open = Registered' \cup seen'.own \cup dialling' /\ (st'.closed => Registered' = {})
  /\ Registered' = {st'.ctrls[k] : k \in Keys} \ {0}
BY SMTT(30) DEF DialsNoSocketLeft, dialling, at, Registered

LEMMA DialsBegins ==
  ASSUME DialsInv, NEW c \in Callers, NEW key \in Keys, NEW mine \in BOOLEAN, DialsDialBegin(c, key, mine)
  PROVE  DialsInv'
<1> DEFINE n == seen.made + 1
           k == [pc |-> "register", key |-> key, ctrl |-> n, mine |-> mine]
<1>1. /\ calls[c].pc = "idle" /\ goes(c, k) /\ st' = [st EXCEPT !.open = @ \cup {n}] /\ seen' = [seen EXCEPT !.made = n]
  BY DEF DialsDialBegin, at
<1>2. /\ DOMAIN st' = DOMAIN st /\ st'.ctrls = st.ctrls /\ st'.closed = st.closed /\ st'.open = st.open \cup {n}
      /\ DOMAIN seen' = DOMAIN seen /\ seen'.made = n /\ seen'.own = seen.own
  BY <1>1 DEF DialsInv, DialsShape
<1>3. k.pc = "register" /\ k.ctrl = n /\ k.key \in Keys /\ seen.made \in Nat
  BY DEF DialsInv, DialsShape
<1> HIDE DEF k
<1>4. n \notin dialling /\ n \notin Registered /\ n \notin seen.own
  <2>1. \A d \in Callers : calls[d].pc = "register" => calls[d].ctrl # n
    BY <1>3 DEF DialsInv, DialsShape
  <2>2. \A l \in Keys : st.ctrls[l] # n
    BY <1>3 DEF DialsInv, DialsShape
  <2>3. n \notin seen.own
    BY <1>3 DEF DialsInv, DialsShape
  <2> QED
    BY SMTT(30), <2>1, <2>2, <2>3 DEF dialling, Registered
<1>5. dialling' = dialling \cup {n} /\ dialsOnce'
  BY <1>1, <1>3, <1>4, DiallingIs DEF DialsInv, DialsShape, DialsSockets
<1>6. Registered' = Registered
  BY <1>2 DEF Registered
<1>7. calls' = [d \in Callers |-> calls'[d]] /\ calls'[c] = k /\ \A d \in Callers : d # c => calls'[d] = calls[d]
  BY <1>1, GoesOne DEF DialsInv, DialsShape
<1>8. DialsShape'
  <2>1. st.ctrls \in [Keys -> 0..n] /\ seen.own \subseteq 1..n
    BY <1>3 DEF DialsInv, DialsShape
  <2>2. \A d \in Callers : calls'[d].pc = "register" => calls'[d].ctrl \in 1..n /\ calls'[d].key \in Keys
    BY <1>3, <1>7 DEF DialsInv, DialsShape
  <2> QED
    BY SMTT(30), <1>2, <1>3, <1>7, <2>1, <2>2 DEF DialsInv, DialsShape
<1> HIDE DEF n
<1>9. DialsSockets'
  <2>1. DialsNoSocketLeft'
    BY SMTT(30), <1>2, <1>5, <1>6, DialsMeans DEF DialsInv, DialsSockets
  <2>2. Registered \cap seen.own = {} /\ Registered \cap (dialling \cup {n}) = {} /\ seen.own \cap (dialling \cup {n}) = {}
    BY <1>4 DEF DialsInv, DialsSockets
  <2> QED
    BY Zenon, <1>2, <1>5, <1>6, <2>1, <2>2 DEF DialsInv, DialsSockets
<1> QED
  BY <1>8, <1>9 DEF DialsInv

LEMMA DialsRegisters ==
  ASSUME DialsInv, NEW c \in Callers, DialsRegister(c)
  PROVE  DialsInv'
<1> DEFINE x == calls[c].ctrl
           key == calls[c].key
<1>1. /\ calls[c].pc = "register" /\ goes(c, Idle)
      /\ st' = IF mayRegister(key) THEN [st EXCEPT !.ctrls = [@ EXCEPT ![key] = x]]
               ELSE IF calls[c].mine THEN st ELSE [st EXCEPT !.open = @ \ {x}]
      /\ seen' = IF ~mayRegister(key) /\ calls[c].mine THEN [seen EXCEPT !.own = @ \cup {x}] ELSE seen
  BY DEF DialsRegister, at, returns
<1>2. x \in 1..seen.made /\ x \in dialling /\ seen.made \in Nat
  BY <1>1 DEF DialsInv, DialsShape, dialling
<1>3. Idle.pc = "idle"
  BY DEF Idle
<1>4. dialling' = dialling \ {x} /\ dialsOnce'
  BY <1>1, <1>3, DiallingIs DEF DialsInv, DialsShape, DialsSockets
<1>5. /\ calls' = [d \in Callers |-> calls'[d]]
      /\ \A d \in Callers : calls'[d].pc = "register" => calls'[d].ctrl \in 1..seen.made /\ calls'[d].key \in Keys
  BY <1>1, <1>3, GoesOne DEF DialsInv, DialsShape
<1>6. key \in Keys /\ x # 0 /\ x \notin Registered /\ x \notin seen.own
  BY <1>1, <1>2 DEF DialsInv, DialsShape, DialsSockets
<1> HIDE DEF x, key
<1>7. CASE mayRegister(key)
  <2>1. /\ DOMAIN st' = DOMAIN st /\ st'.ctrls = [st.ctrls EXCEPT ![key] = x] /\ st'.closed = st.closed /\ st'.open = st.open
        /\ seen' = seen
    BY <1>1, <1>7 DEF DialsInv, DialsShape
  <2>2. st.ctrls[key] = 0 /\ ~st.closed /\ st.ctrls \in [Keys -> 0..seen.made]
    BY <1>7 DEF mayRegister, DialsInv, DialsShape
  <2>3. st'.ctrls[key] = x /\ \A l \in Keys : l # key => st'.ctrls[l] = st.ctrls[l]
    BY <1>6, <2>1, <2>2
  <2>4. Registered' = Registered \cup {x}
    BY SMTT(30), <1>6, <2>2, <2>3, DialsMeans DEF Registered
  <2>5. st'.ctrls \in [Keys -> 0..seen.made]
    <3>1. x \in 0..seen.made
      BY <1>2
    <3> QED
      BY Zenon, <2>1, <2>2, <3>1
  <2>6. DialsShape'
    BY <1>5, <2>1, <2>5 DEF DialsInv, DialsShape
  <2>7. \A l \in Keys : st.ctrls[l] # x
    BY <1>6 DEF Registered
  <2>8. \A l, m \in Keys : st'.ctrls[l] # 0 /\ st'.ctrls[l] = st'.ctrls[m] => l = m
    BY <2>3, <2>7 DEF DialsInv, DialsSockets
  <2>9. DialsSockets'
    BY SMTT(30), <1>2, <1>4, <1>6, <2>1, <2>2, <2>4, <2>8, DialsMeans DEF DialsInv, DialsSockets
  <2> QED
    BY <2>6, <2>9 DEF DialsInv
<1>8. CASE ~mayRegister(key) /\ calls[c].mine
  <2>1. /\ st' = st /\ DOMAIN seen' = DOMAIN seen /\ seen'.made = seen.made /\ seen'.own = seen.own \cup {x}
    BY <1>1, <1>8 DEF DialsInv, DialsShape
  <2>2. Registered' = Registered
    BY <2>1 DEF Registered
  <2>3. DialsShape'
    BY <1>2, <1>5, <2>1 DEF DialsInv, DialsShape
  <2>4. DialsSockets'
    BY SMTT(30), <1>2, <1>4, <1>6, <2>1, <2>2, DialsMeans DEF DialsInv, DialsSockets
  <2> QED
    BY <2>3, <2>4 DEF DialsInv
<1>9. CASE ~mayRegister(key) /\ ~calls[c].mine
  <2>1. DOMAIN st' = DOMAIN st /\ st'.ctrls = st.ctrls /\ st'.closed = st.closed /\ st'.open = st.open \ {x} /\ seen' = seen
    BY <1>1, <1>9 DEF DialsInv, DialsShape
  <2>2. Registered' = Registered
    BY <2>1 DEF Registered
  <2>3. DialsShape'
    BY <1>5, <2>1 DEF DialsInv, DialsShape
  <2>4. DialsSockets'
    BY SMTT(30), <1>2, <1>4, <1>6, <2>1, <2>2, DialsMeans DEF DialsInv, DialsSockets
  <2> QED
    BY <2>3, <2>4 DEF DialsInv
<1> QED
  BY <1>7, <1>8, <1>9

LEMMA DialsLeaves ==
  ASSUME DialsInv, NEW S \in SUBSET Keys, calls' = calls, seen' = seen, DOMAIN st' = DOMAIN st,
         st'.ctrls = [k \in Keys |-> IF k \in S THEN 0 ELSE st.ctrls[k]],
         st'.open = st.open \ {st.ctrls[k] : k \in S}, st'.closed => st.closed \/ S = Keys
  PROVE  DialsInv'
<1>1. dialling' = dialling /\ dialsOnce' = dialsOnce
  BY DEF dialling, dialsOnce
<1>2. DialsShape'
  BY DEF DialsInv, DialsShape
<1>3. \A k \in Keys : st'.ctrls[k] = IF k \in S THEN 0 ELSE st.ctrls[k]
  BY SMTT(30)
<1>4. Registered' = Registered \ {st.ctrls[k] : k \in S}
  <2>1. \A k \in Keys \ S : st.ctrls[k] # 0 => st.ctrls[k] \notin {st.ctrls[l] : l \in S}
    BY SMTT(30) DEF DialsInv, DialsSockets
  <2> QED
    BY SMTT(30), <1>3, <2>1, DialsMeans DEF Registered
<1>5. S = Keys => Registered' = {}
  BY SMTT(30), <1>3, DialsMeans
<1>6. {st.ctrls[k] : k \in S} \subseteq Registered \cup {0}
  BY DEF Registered
<1>7. 0 \notin seen.own /\ 0 \notin dialling /\ 0 \notin Registered
  BY DEF DialsInv, DialsShape, dialling, Registered
<1>8. DialsNoSocketLeft'
  BY SMTT(30), <1>1, <1>4, <1>5, <1>6, <1>7, DialsMeans DEF DialsInv, DialsSockets
<1>9. DialsSockets'
  BY SMTT(30), <1>1, <1>3, <1>4, <1>8 DEF DialsInv, DialsSockets
<1> QED
  BY <1>2, <1>9 DEF DialsInv

LEMMA DialsStep == DialsInv /\ DialsNext => DialsInv'
<1> SUFFICES ASSUME DialsInv, DialsNext PROVE DialsInv'
  OBVIOUS
<1>0. DOMAIN st = {"ctrls", "closed", "open"} /\ st.ctrls = [k \in Keys |-> st.ctrls[k]]
  BY DEF DialsInv, DialsShape
<1>1. ASSUME NEW k \in Keys, DialsDeregister(k) PROVE DialsInv'
  <2>1. /\ calls' = calls /\ seen' = seen /\ DOMAIN st' = DOMAIN st /\ st'.closed = st.closed
        /\ st'.ctrls = [st.ctrls EXCEPT ![k] = 0] /\ st'.open = st.open \ {st.ctrls[k]}
    BY <1>0, <1>1 DEF DialsDeregister
  <2>2. st'.ctrls = [l \in Keys |-> IF l \in {k} THEN 0 ELSE st.ctrls[l]]
    BY <1>0, <2>1
  <2>3. st'.open = st.open \ {st.ctrls[l] : l \in {k}}
    BY <2>1
  <2> QED
    BY ZenonT(40), <2>1, <2>2, <2>3, DialsLeaves
<1>2. CASE DialsClose
  <2>1. /\ calls' = calls /\ seen' = seen /\ DOMAIN st' = DOMAIN st
        /\ st'.ctrls = [k \in Keys |-> 0] /\ st'.open = st.open \ Registered
    BY <1>0, <1>2 DEF DialsClose
  <2>2. st'.ctrls = [l \in Keys |-> IF l \in Keys THEN 0 ELSE st.ctrls[l]]
    BY <2>1
  <2>3. 0 \notin st.open
    BY SMTT(30), DialsMeans DEF DialsInv, DialsSockets, DialsShape, dialling, Registered
  <2>4. st'.open = st.open \ {st.ctrls[l] : l \in Keys}
    BY <2>1, <2>3 DEF Registered
  <2> QED
    BY <2>1, <2>2, <2>4, DialsLeaves
<1> QED
  BY <1>1, <1>2, DialsBegins, DialsRegisters DEF DialsNext

-----------------------------------------------------------------------------
(* config.Watcher. *)
isFile(f) == f \in Files /\ Decodes(f)

ConfigCall(k) ==
  /\ k.pc \in {"idle", "set", "tell"}
  /\ k.pc # "idle" => DOMAIN k = {"pc", "file"} /\ isFile(k.file)

ConfigShape ==
  /\ DOMAIN st = {"file", "mod", "current", "told", "run", "lastMod", "loaded"} /\ DOMAIN seen = {"excused"}
  /\ st.mod \in Nat /\ st.lastMod \in Nat /\ st.lastMod <= st.mod
  /\ st.file \in Files /\ isFile(st.current) /\ isFile(st.loaded)
  /\ st.run \in {"starts", "polls", "loads", "sets", "tells", "stopped"} /\ seen.excused \in BOOLEAN
  /\ calls = [c \in Callers |-> calls[c]]
  /\ \A c \in Callers : ConfigCall(calls[c])

(* File f is what is on disk, or the disk will be looked at. *)
fresh(f) == f = st.file \/ st.lastMod # st.mod \/ st.run \in {"loads", "stopped"} \/ ~Decodes(st.file)

ConfigPolls ==
  \/ seen.excused
  \/ /\ st.run = "starts" => st.lastMod = st.mod
     /\ st.run = "sets" => st.loaded = st.file \/ st.lastMod # st.mod
     /\ fresh(st.current) \/ st.run = "sets"
     /\ \A c \in Callers : calls[c].pc = "set" => fresh(calls[c].file) \/ st.run = "sets"

(* Of two loads that overlap one is excused; what was set is what will be told. *)
ConfigTells ==
  \/ seen.excused
  \/ /\ st.run = "tells" => st.loaded = st.current /\ \A c \in Callers : calls[c].pc = "idle"
     /\ \A c, d \in Callers : calls[c].pc # "idle" /\ calls[d].pc # "idle" => c = d
     /\ \A c \in Callers : calls[c].pc = "tell" => calls[c].file = st.current
     /\ st.run # "tells" /\ (\A c \in Callers : calls[c].pc = "idle") => st.told = st.current

ConfigWatchInv == ConfigShape /\ ConfigPolls /\ ConfigTells

LEMMA ConfigWatchInitial == ConfigWatchInit => ConfigWatchInv
<1> SUFFICES ASSUME ConfigWatchInit PROVE ConfigWatchInv
  OBVIOUS
<1>1. calls = [c \in Callers |-> Idle] /\ Idle.pc = "idle"
  BY SMTT(30) DEF ConfigWatchInit, CallsInit, Idle
<1>2. \A c \in Callers : calls[c].pc = "idle"
  BY <1>1
<1>3. PICK f \in Files : Decodes(f) /\ st = [file |-> f, mod |-> 0, current |-> f, told |-> f,
                                             run |-> "starts", lastMod |-> 0, loaded |-> f]
  BY DEF ConfigWatchInit
<1>4. DOMAIN seen = {"excused"} /\ seen.excused = FALSE
  BY SMTT(30) DEF ConfigWatchInit
<1>5. /\ DOMAIN st = {"file", "mod", "current", "told", "run", "lastMod", "loaded"}
      /\ st.file = f /\ st.mod = 0 /\ st.current = f /\ st.told = f /\ st.run = "starts" /\ st.lastMod = 0 /\ st.loaded = f
  BY SMTT(30), <1>3
<1>6. isFile(f)
  BY <1>3 DEF isFile
<1>7. seen.excused \in BOOLEAN
  BY Zenon, <1>4
<1>8. ConfigShape
  BY SMTT(30), <1>1, <1>2, <1>4, <1>5, <1>6, <1>7 DEF ConfigShape, ConfigCall
<1>9. ConfigPolls /\ ConfigTells
  BY SMTT(30), <1>2, <1>5 DEF ConfigPolls, ConfigTells, fresh
<1> QED
  BY <1>8, <1>9 DEF ConfigWatchInv

LEMMA ConfigWatchSound == ConfigWatchInv => CurrentIsSound /\ CurrentOrPolling /\ ToldCurrent
<1> SUFFICES ASSUME ConfigWatchInv PROVE CurrentIsSound /\ CurrentOrPolling /\ ToldCurrent
  OBVIOUS
<1>1. CurrentIsSound
  <2> DEFINE f == st.current
             s == f.servers
  <2>1. f \in Files /\ Decodes(f)
    BY DEF ConfigWatchInv, ConfigShape, isFile
  <2> HIDE DEF f
  <2>2. DOMAIN s \subseteq Nat /\ \A i \in DOMAIN s : DOMAIN s[i].addrs \subseteq Nat
    BY <2>1, FilesAssumption
  <2>3. \A i, j \in DOMAIN s : s[i].key = s[j].key => i = j
    <3>1. DOMAIN keys(f) = DOMAIN s /\ \A i \in DOMAIN s : keys(f)[i] = s[i].key
      BY DEF keys
    <3>2. \A i, j \in DOMAIN s : i < j => s[i].key # s[j].key
      BY SMTT(30), <2>1, <3>1 DEF Decodes, repeats
    <3> QED
      BY <2>2, <3>2
  <2>4. ASSUME NEW i \in DOMAIN s PROVE s[i].idOK /\ \A a, b \in DOMAIN s[i].addrs : s[i].addrs[a] = s[i].addrs[b] => a = b
    <3> DEFINE m == s[i].addrs
    <3>1. s[i].idOK /\ ~repeats(m) /\ DOMAIN m \subseteq Nat
      BY <2>1, <2>2 DEF Decodes
    <3> HIDE DEF m
    <3>2. \A a, b \in DOMAIN m : m[a] = m[b] => a = b
      BY <3>1 DEF repeats
    <3> QED
      BY SMTT(30), <3>1, <3>2 DEF m
  <2> QED
    BY SMTT(30), <2>3, <2>4 DEF CurrentIsSound, f
<1>2. CurrentOrPolling
  BY DEF ConfigWatchInv, ConfigPolls, fresh, CurrentOrPolling
<1>3. ToldCurrent
  <2>1. reloads = {} => \A c \in Callers : calls[c].pc = "idle"
    BY DEF ConfigWatchInv, ConfigShape, ConfigCall, reloads, at
  <2> QED
    BY <2>1 DEF ConfigWatchInv, ConfigTells, ToldCurrent
<1> QED
  BY <1>1, <1>2, <1>3

(* The fields of st. *)
LEMMA ConfigShapeKeeps ==
  ASSUME ConfigShape, DOMAIN st' = DOMAIN st, DOMAIN seen' = DOMAIN seen,
         st'.mod \in Nat, st'.lastMod \in Nat, st'.lastMod <= st'.mod, st'.file \in Files, isFile(st'.current), isFile(st'.loaded),
         st'.run \in {"starts", "polls", "loads", "sets", "tells", "stopped"}, seen'.excused \in BOOLEAN,
         calls' = [c \in Callers |-> calls'[c]], \A c \in Callers : ConfigCall(calls'[c])
  PROVE  ConfigShape'
BY DEF ConfigShape

LEMMA ConfigExcused ==
  ASSUME ConfigShape, NEW P \in BOOLEAN, seen' = [seen EXCEPT !.excused = @ \/ P]
  PROVE  DOMAIN seen' = DOMAIN seen /\ seen'.excused \in BOOLEAN /\ (seen'.excused <=> seen.excused \/ P)
<1>1. DOMAIN seen' = DOMAIN seen /\ seen'.excused = (seen.excused \/ P)
  BY DEF ConfigShape
<1>2. (seen.excused \/ P) \in BOOLEAN
  BY Zenon
<1> QED
  BY Zenon, <1>1, <1>2

LEMMA ReloadsNone ==
  ASSUME ConfigShape
  PROVE  reloads = {} <=> \A c \in Callers : calls[c].pc = "idle"
BY DEF ConfigShape, ConfigCall, reloads, at

LEMMA ConfigEdits ==
  ASSUME ConfigWatchInv, NEW f \in Files, Edit(f)
  PROVE  ConfigWatchInv'
<1>1. st' = [st EXCEPT !.file = f, !.mod = @ + 1] /\ calls' = calls /\ seen' = [seen EXCEPT !.excused = @ \/ st.run = "starts"]
  BY DEF Edit
<1>2. /\ DOMAIN st' = DOMAIN st /\ st'.file = f /\ st'.mod = st.mod + 1 /\ st'.current = st.current /\ st'.told = st.told
      /\ st'.run = st.run /\ st'.lastMod = st.lastMod /\ st'.loaded = st.loaded
  BY <1>1 DEF ConfigWatchInv, ConfigShape
<1>3. DOMAIN seen' = DOMAIN seen /\ seen'.excused \in BOOLEAN /\ (seen'.excused <=> seen.excused \/ st.run = "starts")
  BY Zenon, <1>1, ConfigExcused DEF ConfigWatchInv
<1>4. st'.mod \in Nat /\ st'.lastMod <= st'.mod /\ st'.lastMod # st'.mod
  BY <1>2 DEF ConfigWatchInv, ConfigShape
<1>5. ConfigShape'
  BY <1>1, <1>2, <1>3, <1>4, ConfigShapeKeeps DEF ConfigWatchInv, ConfigShape
<1>6. ConfigPolls'
  BY SMTT(30), <1>2, <1>3, <1>4 DEF ConfigPolls, fresh
<1>7. ConfigTells'
  BY <1>1, <1>2, <1>3 DEF ConfigWatchInv, ConfigTells
<1> QED
  BY <1>5, <1>6, <1>7 DEF ConfigWatchInv

LEMMA ConfigStarts ==
  ASSUME ConfigWatchInv, RunStarts
  PROVE  ConfigWatchInv'
<1>1. st.run = "starts" /\ st' = [st EXCEPT !.run = "polls", !.lastMod = st.mod] /\ calls' = calls /\ seen' = seen
  BY DEF RunStarts
<1>2. /\ DOMAIN st' = DOMAIN st /\ st'.file = st.file /\ st'.mod = st.mod /\ st'.current = st.current /\ st'.told = st.told
      /\ st'.run = "polls" /\ st'.lastMod = st.mod /\ st'.loaded = st.loaded
  BY <1>1 DEF ConfigWatchInv, ConfigShape
<1>3. ConfigShape'
  BY <1>1, <1>2, ConfigShapeKeeps DEF ConfigWatchInv, ConfigShape, isFile
<1>4. ConfigPolls'
  BY <1>1, <1>2 DEF ConfigWatchInv, ConfigPolls, fresh
<1>5. ConfigTells'
  BY <1>1, <1>2 DEF ConfigWatchInv, ConfigTells
<1> QED
  BY <1>3, <1>4, <1>5 DEF ConfigWatchInv

LEMMA ConfigStats ==
  ASSUME ConfigWatchInv, PollStat
  PROVE  ConfigWatchInv'
<1>1. st.run = "polls" /\ st' = [st EXCEPT !.run = "loads", !.lastMod = st.mod] /\ calls' = calls /\ seen' = seen
  BY DEF PollStat
<1>2. /\ DOMAIN st' = DOMAIN st /\ st'.file = st.file /\ st'.mod = st.mod /\ st'.current = st.current /\ st'.told = st.told
      /\ st'.run = "loads" /\ st'.lastMod = st.mod /\ st'.loaded = st.loaded
  BY <1>1 DEF ConfigWatchInv, ConfigShape
<1>3. ConfigShape'
  BY <1>1, <1>2, ConfigShapeKeeps DEF ConfigWatchInv, ConfigShape, isFile
<1>4. ConfigPolls'
  BY <1>1, <1>2 DEF ConfigWatchInv, ConfigPolls, fresh
<1>5. ConfigTells'
  BY <1>1, <1>2 DEF ConfigWatchInv, ConfigTells
<1> QED
  BY <1>3, <1>4, <1>5 DEF ConfigWatchInv

LEMMA ConfigStops ==
  ASSUME ConfigWatchInv, Stop
  PROVE  ConfigWatchInv'
<1>1. st.run = "polls" /\ st' = [st EXCEPT !.run = "stopped"] /\ calls' = calls /\ seen' = seen
  BY DEF Stop
<1>2. /\ DOMAIN st' = DOMAIN st /\ st'.file = st.file /\ st'.mod = st.mod /\ st'.current = st.current /\ st'.told = st.told
      /\ st'.run = "stopped" /\ st'.lastMod = st.lastMod /\ st'.loaded = st.loaded
  BY <1>1 DEF ConfigWatchInv, ConfigShape
<1>3. ConfigShape'
  BY <1>1, <1>2, ConfigShapeKeeps DEF ConfigWatchInv, ConfigShape, isFile
<1>4. ConfigPolls'
  BY <1>1, <1>2 DEF ConfigWatchInv, ConfigPolls, fresh
<1>5. ConfigTells'
  BY <1>1, <1>2 DEF ConfigWatchInv, ConfigTells
<1> QED
  BY <1>3, <1>4, <1>5 DEF ConfigWatchInv

LEMMA ConfigPollTells ==
  ASSUME ConfigWatchInv, PollTell
  PROVE  ConfigWatchInv'
<1>1. st.run = "tells" /\ st' = [st EXCEPT !.run = "polls", !.told = st.loaded] /\ calls' = calls /\ seen' = seen
  BY DEF PollTell
<1>2. /\ DOMAIN st' = DOMAIN st /\ st'.file = st.file /\ st'.mod = st.mod /\ st'.current = st.current /\ st'.told = st.loaded
      /\ st'.run = "polls" /\ st'.lastMod = st.lastMod /\ st'.loaded = st.loaded
  BY <1>1 DEF ConfigWatchInv, ConfigShape
<1>3. ConfigShape'
  BY <1>1, <1>2, ConfigShapeKeeps DEF ConfigWatchInv, ConfigShape, isFile
<1>4. ConfigPolls'
  BY <1>1, <1>2 DEF ConfigWatchInv, ConfigPolls, fresh
<1>5. ConfigTells'
  BY <1>1, <1>2 DEF ConfigWatchInv, ConfigTells
<1> QED
  BY <1>3, <1>4, <1>5 DEF ConfigWatchInv

LEMMA ConfigLoads ==
  ASSUME ConfigWatchInv, PollLoad
  PROVE  ConfigWatchInv'
<1>1. st.run = "loads" /\ calls' = calls /\ seen' = seen
  BY DEF PollLoad
<1>2. CASE Decodes(st.file)
  <2>1. st' = [st EXCEPT !.run = "sets", !.loaded = st.file]
    BY <1>2 DEF PollLoad
  <2>2. /\ DOMAIN st' = DOMAIN st /\ st'.file = st.file /\ st'.mod = st.mod /\ st'.current = st.current /\ st'.told = st.told
        /\ st'.run = "sets" /\ st'.lastMod = st.lastMod /\ st'.loaded = st.file
    BY <2>1 DEF ConfigWatchInv, ConfigShape
  <2>3. ConfigShape'
    BY SMTT(30), <1>1, <1>2, <2>2, ConfigShapeKeeps DEF ConfigWatchInv, ConfigShape, isFile
  <2>4. ConfigPolls'
    BY Zenon, <1>1, <2>2 DEF ConfigWatchInv, ConfigPolls, fresh
  <2>5. ConfigTells'
    BY SMTT(30), <1>1, <2>2 DEF ConfigWatchInv, ConfigTells
  <2> QED
    BY <2>3, <2>4, <2>5 DEF ConfigWatchInv
<1>3. CASE ~Decodes(st.file)
  <2>1. st' = [st EXCEPT !.run = "polls"]
    BY <1>3 DEF PollLoad
  <2>2. /\ DOMAIN st' = DOMAIN st /\ st'.file = st.file /\ st'.mod = st.mod /\ st'.current = st.current /\ st'.told = st.told
        /\ st'.run = "polls" /\ st'.lastMod = st.lastMod /\ st'.loaded = st.loaded
    BY <2>1 DEF ConfigWatchInv, ConfigShape
  <2>3. ConfigShape'
    BY SMTT(30), <1>1, <2>2, ConfigShapeKeeps DEF ConfigWatchInv, ConfigShape, isFile
  <2>4. ConfigPolls'
    BY Zenon, <1>1, <1>3, <2>2 DEF ConfigWatchInv, ConfigPolls, fresh
  <2>5. ConfigTells'
    BY SMTT(30), <1>1, <2>2 DEF ConfigWatchInv, ConfigTells
  <2> QED
    BY <2>3, <2>4, <2>5 DEF ConfigWatchInv
<1> QED
  BY <1>2, <1>3

LEMMA ConfigSets ==
  ASSUME ConfigWatchInv, PollSet
  PROVE  ConfigWatchInv'
<1>1. /\ st.run = "sets" /\ st' = [st EXCEPT !.run = "tells", !.current = st.loaded] /\ calls' = calls
      /\ seen' = [seen EXCEPT !.excused = @ \/ reloads # {}]
  BY DEF PollSet, adopted
<1>2. /\ DOMAIN st' = DOMAIN st /\ st'.file = st.file /\ st'.mod = st.mod /\ st'.current = st.loaded /\ st'.told = st.told
      /\ st'.run = "tells" /\ st'.lastMod = st.lastMod /\ st'.loaded = st.loaded
  BY <1>1 DEF ConfigWatchInv, ConfigShape
<1>3. /\ DOMAIN seen' = DOMAIN seen /\ seen'.excused \in BOOLEAN
      /\ seen'.excused <=> seen.excused \/ ~\A c \in Callers : calls[c].pc = "idle"
  BY Zenon, <1>1, ConfigExcused, ReloadsNone DEF ConfigWatchInv
<1>4. ConfigShape'
  BY <1>1, <1>2, <1>3, ConfigShapeKeeps DEF ConfigWatchInv, ConfigShape, isFile
<1>5. ConfigPolls'
  BY <1>1, <1>2, <1>3 DEF ConfigWatchInv, ConfigPolls, fresh
<1>6. ConfigTells'
  BY <1>1, <1>2, <1>3 DEF ConfigWatchInv, ConfigTells
<1> QED
  BY <1>4, <1>5, <1>6 DEF ConfigWatchInv

LEMMA ConfigGoes ==
  ASSUME ConfigWatchInv, NEW c \in Callers, NEW k, goes(c, k), ConfigCall(k)
  PROVE  /\ calls' = [d \in Callers |-> calls'[d]] /\ \A d \in Callers : ConfigCall(calls'[d])
         /\ calls'[c] = k /\ \A d \in Callers : d # c => calls'[d] = calls[d]
<1>1. /\ calls' = [d \in Callers |-> calls'[d]]
      /\ calls'[c] = k /\ \A d \in Callers : d # c => calls'[d] = calls[d]
  BY GoesOne DEF ConfigWatchInv, ConfigShape
<1> QED
  BY <1>1 DEF ConfigWatchInv, ConfigShape

LEMMA ConfigReloads ==
  ASSUME ConfigWatchInv, NEW c \in Callers, ReloadLoad(c)
  PROVE  ConfigWatchInv'
<1> DEFINE k == [pc |-> "set", file |-> st.file]
<1>1. /\ calls[c].pc = "idle" /\ Decodes(st.file) /\ goes(c, k) /\ st' = st
      /\ seen' = [seen EXCEPT !.excused = @ \/ (reloads # {} \/ st.run = "tells")]
  BY DEF ReloadLoad, at
<1>2. k.pc = "set" /\ k.file = st.file /\ ConfigCall(k)
  BY <1>1 DEF ConfigCall, isFile, ConfigWatchInv, ConfigShape
<1> HIDE DEF k
<1>3. /\ DOMAIN seen' = DOMAIN seen /\ seen'.excused \in BOOLEAN
      /\ seen'.excused <=> seen.excused \/ (reloads # {} \/ st.run = "tells")
  BY Zenon, <1>1, ConfigExcused DEF ConfigWatchInv
<1>4. ~seen'.excused => ~seen.excused /\ st.run # "tells" /\ \A d \in Callers : calls[d].pc = "idle"
  BY SMTT(30), <1>3, ReloadsNone DEF ConfigWatchInv
<1>5. /\ calls' = [d \in Callers |-> calls'[d]] /\ \A d \in Callers : ConfigCall(calls'[d])
      /\ calls'[c] = k /\ \A d \in Callers : d # c => calls'[d] = calls[d]
  BY <1>1, <1>2, ConfigGoes
<1>6. ConfigShape'
  BY <1>1, <1>3, <1>5, ConfigShapeKeeps DEF ConfigWatchInv, ConfigShape, isFile
<1>7. ConfigPolls'
  BY <1>1, <1>2, <1>4, <1>5 DEF ConfigWatchInv, ConfigPolls, fresh
<1>8. ConfigTells'
  BY <1>1, <1>2, <1>4, <1>5 DEF ConfigWatchInv, ConfigTells
<1> QED
  BY <1>6, <1>7, <1>8 DEF ConfigWatchInv

LEMMA ConfigReloadSets ==
  ASSUME ConfigWatchInv, NEW c \in Callers, ReloadSet(c)
  PROVE  ConfigWatchInv'
<1> DEFINE k == calls[c]
           l == [k EXCEPT !.pc = "tell"]
<1>1. k.pc = "set" /\ st' = [st EXCEPT !.current = k.file] /\ goes(c, l) /\ seen' = seen
  BY DEF ReloadSet, at
<1>2. ConfigCall(k)
  BY DEF ConfigWatchInv, ConfigShape
<1>3. seen.excused \/ fresh(k.file) \/ st.run = "sets"
  BY <1>1 DEF ConfigWatchInv, ConfigPolls
<1>4. seen.excused \/ (st.run # "tells" /\ \A d \in Callers : d # c => calls[d].pc = "idle")
  BY <1>1 DEF ConfigWatchInv, ConfigTells
<1> HIDE DEF k
<1>5. ConfigCall(l) /\ l.pc = "tell" /\ l.file = k.file /\ isFile(k.file)
  BY <1>1, <1>2 DEF ConfigCall
<1> HIDE DEF l
<1>6. /\ DOMAIN st' = DOMAIN st /\ st'.file = st.file /\ st'.mod = st.mod /\ st'.current = k.file /\ st'.told = st.told
      /\ st'.run = st.run /\ st'.lastMod = st.lastMod /\ st'.loaded = st.loaded
  BY <1>1 DEF ConfigWatchInv, ConfigShape
<1>7. /\ calls' = [d \in Callers |-> calls'[d]] /\ \A d \in Callers : ConfigCall(calls'[d])
      /\ calls'[c] = l /\ \A d \in Callers : d # c => calls'[d] = calls[d]
  BY <1>1, <1>5, ConfigGoes
<1>8. ConfigShape'
  BY <1>1, <1>5, <1>6, <1>7, ConfigShapeKeeps DEF ConfigWatchInv, ConfigShape
<1>9. ConfigPolls'
  BY <1>1, <1>3, <1>5, <1>6, <1>7 DEF ConfigWatchInv, ConfigPolls, fresh
<1>10. ConfigTells'
  BY <1>1, <1>4, <1>5, <1>6, <1>7 DEF ConfigWatchInv, ConfigTells
<1> QED
  BY <1>8, <1>9, <1>10 DEF ConfigWatchInv

LEMMA ConfigReloadTells ==
  ASSUME ConfigWatchInv, NEW c \in Callers, ReloadTell(c)
  PROVE  ConfigWatchInv'
<1> DEFINE f == calls[c].file
<1>1. calls[c].pc = "tell" /\ st' = [st EXCEPT !.told = f] /\ goes(c, Idle) /\ seen' = seen
  BY DEF ReloadTell, at, returns
<1>2. Idle.pc = "idle" /\ ConfigCall(Idle)
  BY DEF Idle, ConfigCall
<1>3. seen.excused \/ (f = st.current /\ st.run # "tells" /\ \A d \in Callers : d # c => calls[d].pc = "idle")
  BY <1>1 DEF ConfigWatchInv, ConfigTells
<1> HIDE DEF f
<1>4. /\ DOMAIN st' = DOMAIN st /\ st'.file = st.file /\ st'.mod = st.mod /\ st'.current = st.current /\ st'.told = f
      /\ st'.run = st.run /\ st'.lastMod = st.lastMod /\ st'.loaded = st.loaded
  BY <1>1 DEF ConfigWatchInv, ConfigShape
<1>5. /\ calls' = [d \in Callers |-> calls'[d]] /\ \A d \in Callers : ConfigCall(calls'[d])
      /\ calls'[c] = Idle /\ \A d \in Callers : d # c => calls'[d] = calls[d]
  BY <1>1, <1>2, ConfigGoes
<1>6. ConfigShape'
  BY <1>1, <1>4, <1>5, ConfigShapeKeeps DEF ConfigWatchInv, ConfigShape, isFile
<1>7. ConfigPolls'
  BY <1>1, <1>2, <1>4, <1>5 DEF ConfigWatchInv, ConfigPolls, fresh
<1>8. ConfigTells'
  BY <1>1, <1>2, <1>3, <1>4, <1>5 DEF ConfigWatchInv, ConfigTells
<1> QED
  BY <1>6, <1>7, <1>8 DEF ConfigWatchInv

LEMMA ConfigWatchStep == ConfigWatchInv /\ ConfigWatchNext => ConfigWatchInv'
BY ConfigEdits, ConfigStarts, ConfigStats, ConfigLoads, ConfigSets, ConfigPollTells, ConfigStops,
   ConfigReloads, ConfigReloadSets, ConfigReloadTells DEF ConfigWatchNext

-----------------------------------------------------------------------------
(* federation and mock. *)
(* A takeover leaves the owner it found, and the one it expected. *)
FederationInv ==
  /\ seen = [k \in Keys |-> seen[k]]
  /\ TakeoverFromKnownOwner

LEMMA FederationInitial == FederationInit => FederationInv
BY DEF FederationInit, FederationInv, TakeoverFromKnownOwner

LEMMA FederationSound == FederationInv => TakeoverFromKnownOwner
BY DEF FederationInv

LEMMA FederationStep == FederationInv /\ FederationNext => FederationInv'
<1> SUFFICES ASSUME FederationInv, FederationNext PROVE FederationInv'
  OBVIOUS
<1>1. ASSUME NEW c \in Callers, TransferOwnership(c) PROVE FederationInv'
  <2> DEFINE k == calls[c].key from == calls[c].from
  <2>1. CASE mayTransfer(k, from)
    <3>1. seen' = [seen EXCEPT ![k] = <<from, from>>]
      BY <1>1, <2>1 DEF TransferOwnership, mayTransfer
    <3> HIDE DEF k, from
    <3> QED
      BY <3>1 DEF FederationInv, TakeoverFromKnownOwner
  <2>2. CASE ~mayTransfer(k, from)
    BY <1>1, <2>2 DEF TransferOwnership, FederationInv, TakeoverFromKnownOwner
  <2> QED
    BY <2>1, <2>2
<1>2. CASE UNCHANGED seen
  BY <1>2 DEF FederationInv, TakeoverFromKnownOwner
<1> QED
  BY Zenon, <1>1, <1>2 DEF FederationNext, FederationLookup, Release, FederationRegister

(* A client that was closed has its flag set, and a request that was begun *)
(* after that does not pass the check.                                     *)
MockCallOk(k, shut) ==
  /\ k.pc = "check" /\ k.late => k.client \in shut
  /\ k.pc \in {"txn", "seq", "route"} => k.late = FALSE

MockInv ==
  /\ DOMAIN st = {"clients", "closed", "closing", "shut", "txn", "seq"} /\ DOMAIN seen = {"closed", "used"}
  /\ calls = [c \in Callers |-> calls[c]]
  /\ seen.closed \subseteq st.shut
  /\ seen.used = FALSE
  /\ \A c \in Callers : MockCallOk(calls[c], st.shut)

LEMMA MockInitial == MockInit => MockInv
<1> SUFFICES ASSUME MockInit PROVE MockInv
  OBVIOUS
<1>1. calls = [c \in Callers |-> calls[c]] /\ \A c \in Callers : calls[c].pc = "idle"
  BY SMTT(30) DEF MockInit, CallsInit, Idle
<1>2. \A c \in Callers : MockCallOk(calls[c], st.shut)
  BY <1>1 DEF MockCallOk
<1> QED
  BY SMTT(30), <1>1, <1>2 DEF MockInit, MockInv

LEMMA MockSound == MockInv => ClosedIsUnusable
BY DEF MockInv, ClosedIsUnusable

(* A closed client stays closed. *)
LEMMA MockCallStays ==
  ASSUME NEW k, NEW shut, NEW shut2, shut \subseteq shut2, MockCallOk(k, shut)
  PROVE  MockCallOk(k, shut2)
BY DEF MockCallOk

(* The registry's steps and a holder's Close: more clients are closed. *)
LEMMA MockCloses ==
  ASSUME MockInv, UNCHANGED calls, NEW x,
         DOMAIN st' = DOMAIN st, st'.shut = st.shut \cup {x},
         seen' = [seen EXCEPT !.closed = seen.closed \cup {x}]
  PROVE  MockInv'
<1>1. \A c \in Callers : MockCallOk(calls'[c], st'.shut)
  BY MockCallStays DEF MockInv
<1>2. DOMAIN seen' = DOMAIN seen /\ seen'.closed = seen.closed \cup {x} /\ seen'.used = FALSE
  BY DEF MockInv
<1> QED
  BY <1>1, <1>2 DEF MockInv

(* A step of one call of Request, or of Lookup. *)
LEMMA MockCalls ==
  ASSUME MockInv, NEW c \in Callers, NEW k, goes(c, k), MockCallOk(k, st.shut),
         DOMAIN st' = DOMAIN st, st'.shut = st.shut,
         DOMAIN seen' = DOMAIN seen, seen'.closed = seen.closed, seen'.used = FALSE
  PROVE  MockInv'
<1>1. /\ calls' = [d \in Callers |-> calls'[d]]
      /\ calls'[c] = k /\ \A d \in Callers : d # c => calls'[d] = calls[d]
  BY GoesOne DEF MockInv
<1>2. \A d \in Callers : MockCallOk(calls'[d], st'.shut)
  BY Zenon, <1>1 DEF MockInv
<1> QED
  BY SMTT(30), <1>1, <1>2 DEF MockInv

LEMMA MockRequests ==
  ASSUME MockInv, NEW c \in Callers,
         \/ MockRequestBegin(c) \/ MockRequestCheck(c) \/ MockRequestRefused(c) \/ MockRequestTxn(c)
         \/ MockRequestSeq(c) \/ MockRequestRoute(c) \/ Drop(c) \/ \E k \in Keys : MockLookup(c, k)
  PROVE  MockInv'
<1> DEFINE old == calls[c]
<1>1. MockCallOk(old, st.shut)
  BY Zenon DEF MockInv
<1>2. ASSUME NEW k, goes(c, k), MockCallOk(k, st.shut), UNCHANGED <<st, seen>> PROVE MockInv'
  <2>1. st' = st /\ seen' = seen /\ seen.used = FALSE
    BY <1>2 DEF MockInv
  <2> QED
    BY Zenon, <1>2, <2>1, MockCalls
<1>3. CASE MockRequestBegin(c)
  <2> DEFINE k == [pc |-> "check", client |-> old.client, late |-> old.client \in seen.closed]
  <2>1. goes(c, k) /\ UNCHANGED <<st, seen>>
    BY Zenon, <1>3 DEF MockRequestBegin
  <2>2. MockCallOk(k, st.shut)
    BY DEF MockInv, MockCallOk
  <2> QED
    BY Zenon, <2>1, <2>2, <1>2
<1>4. CASE MockRequestCheck(c)
  <2> DEFINE k == [old EXCEPT !.pc = "txn"]
  <2>1. goes(c, k) /\ UNCHANGED <<st, seen>> /\ old.pc = "check" /\ old.client \notin st.shut
    BY Zenon, <1>4 DEF MockRequestCheck, at
  <2>2. MockCallOk(k, st.shut)
    BY <1>1, <2>1 DEF MockCallOk
  <2> QED
    BY Zenon, <2>1, <2>2, <1>2
<1>5. CASE MockRequestRefused(c) \/ Drop(c) \/ \E q \in Keys : MockLookup(c, q)
  <2>1. PICK k : goes(c, k) /\ k.pc \in {"has", "idle"} /\ UNCHANGED <<st, seen>>
    <3>1. [pc |-> "idle"].pc = "idle" /\ \A x : [pc |-> "has", client |-> x].pc = "has"
      BY SMTT(30)
    <3>2. CASE MockRequestRefused(c)
      BY Zenon, <3>1, <3>2 DEF MockRequestRefused, stillHas
    <3>3. CASE Drop(c)
      BY Zenon, <3>1, <3>3 DEF Drop, returns, Idle
    <3>4. ASSUME NEW q \in Keys, MockLookup(c, q)
          PROVE  \E k : goes(c, k) /\ k.pc \in {"has", "idle"} /\ UNCHANGED <<st, seen>>
      BY Zenon, <3>1, <3>4 DEF MockLookup
    <3> QED
      BY Zenon, <1>5, <3>2, <3>3, <3>4
  <2>2. MockCallOk(k, st.shut)
    BY SMTT(30), <2>1 DEF MockCallOk
  <2> QED
    BY Zenon, <2>1, <2>2, <1>2
<1>6. CASE MockRequestTxn(c) \/ MockRequestSeq(c)
  <2>1. PICK p \in {"seq", "route"} : /\ goes(c, [old EXCEPT !.pc = p]) /\ old.pc \in {"txn", "seq"}
                                     /\ seen' = seen
    BY <1>6 DEF MockRequestTxn, MockRequestSeq, at
  <2>2. DOMAIN st' = DOMAIN st /\ st'.shut = st.shut
    BY <1>6 DEF MockRequestTxn, MockRequestSeq, MockInv
  <2> DEFINE k == [old EXCEPT !.pc = p]
  <2>3. MockCallOk(k, st.shut)
    BY <1>1, <2>1 DEF MockCallOk
  <2>4. seen.used = FALSE
    BY DEF MockInv
  <2> HIDE DEF old
  <2> QED
    BY Zenon, <2>1, <2>2, <2>3, <2>4, MockCalls DEF old
<1>7. CASE MockRequestRoute(c)
  <2>1. /\ goes(c, stillHas(c)) /\ old.pc = "route" /\ st' = st
        /\ seen' = [seen EXCEPT !.used = seen.used \/ old.late]
    BY <1>7 DEF MockRequestRoute, at
  <2>2. (seen.used \/ old.late) = FALSE
    BY <1>1, <2>1 DEF MockCallOk, MockInv
  <2>3. seen' = [seen EXCEPT !.used = FALSE]
    BY Zenon, <2>1, <2>2
  <2>4. DOMAIN seen' = DOMAIN seen /\ seen'.closed = seen.closed /\ seen'.used = FALSE
    BY <2>3 DEF MockInv
  <2>5. MockCallOk(stillHas(c), st.shut)
    BY SMTT(30) DEF MockCallOk, stillHas
  <2> QED
    BY Zenon, <2>1, <2>4, <2>5, MockCalls
<1> QED
  BY Zenon, <1>3, <1>4, <1>5, <1>6, <1>7

LEMMA MockStep == MockInv /\ MockNext => MockInv'
<1> SUFFICES ASSUME MockInv, MockNext PROVE MockInv'
  OBVIOUS
<1>1. ASSUME NEW k \in Keys, MockDeregister(k) \/ MockCloseOne(k) PROVE MockInv'
  <2>1. /\ UNCHANGED calls /\ st' = takenOut(k)
        /\ seen' = [seen EXCEPT !.closed = seen.closed \cup {st.clients[k]}]
    BY Zenon, <1>1 DEF MockDeregister, MockCloseOne
  <2>2. DOMAIN st' = DOMAIN st /\ st'.shut = st.shut \cup {st.clients[k]}
    BY <2>1 DEF takenOut, closedWith, MockInv
  <2> QED
    BY Zenon, <2>1, <2>2, MockCloses
<1>2. ASSUME NEW c \in Callers, MockClientClose(c) PROVE MockInv'
  <2>1. /\ UNCHANGED calls /\ st' = [st EXCEPT !.shut = st.shut \cup {calls[c].client}]
        /\ seen' = [seen EXCEPT !.closed = seen.closed \cup {calls[c].client}]
    BY Zenon, <1>2 DEF MockClientClose
  <2>2. DOMAIN st' = DOMAIN st /\ st'.shut = st.shut \cup {calls[c].client}
    BY <2>1 DEF MockInv
  <2> QED
    BY Zenon, <2>1, <2>2, MockCloses
<1>3. CASE \/ \E k \in Keys, x \in InProcess : MockRegister(k, x)
           \/ MockCloseBegin \/ MockCloseEnd
  <2>1. calls' = calls /\ seen' = seen /\ DOMAIN st' = DOMAIN st /\ st'.shut = st.shut
    BY <1>3 DEF MockRegister, MockCloseBegin, MockCloseEnd, MockInv
  <2> QED
    BY <2>1 DEF MockInv
<1> QED
  BY Zenon, <1>1, <1>2, <1>3, MockRequests DEF MockNext

-----------------------------------------------------------------------------
(* The packages together. *)
RegistriesInv ==
  /\ kind \in {"handles", "tsn", "dials", "config", "federation", "mock"}
  /\ kind = "handles" => HandlesInv
  /\ kind = "tsn" => TsnInv
  /\ kind = "dials" => DialsInv
  /\ kind = "config" => ConfigWatchInv
  /\ kind = "federation" => FederationInv
  /\ kind = "mock" => MockInv

(* At every moment of every behaviour the registries' promises hold: a     *)
(* takeover displaces the owner that was looked up (federation), a client  *)
(* routes no request that is begun after it was closed (mock), a request   *)
(* has the priority of its own stream and no socket outlives its Registry  *)
(* (tsn, udp), a handle reaches its own Controller (capi), and the current *)
(* configuration passed every check and is what the application was told   *)
(* (config).                                                               *)
THEOREM RegistriesAreSafe == RegistriesSpec => []RegistriesSafe
<1>1. RegistriesInit => RegistriesInv
  BY HandlesInitial, TsnInitial, DialsInitial, ConfigWatchInitial, FederationInitial, MockInitial DEF RegistriesInit, RegistriesInv
<1>2. RegistriesInv /\ [RegistriesNext]_vars => RegistriesInv'
  <2> SUFFICES ASSUME RegistriesInv, [RegistriesNext]_vars PROVE RegistriesInv'
    OBVIOUS
  <2>1. CASE kind = "handles" /\ HandlesNext /\ UNCHANGED kind
    BY <2>1, HandlesStep DEF RegistriesInv
  <2>2. CASE kind = "tsn" /\ TsnNext /\ UNCHANGED kind
    BY <2>2, TsnStep DEF RegistriesInv
  <2>3. CASE kind = "dials" /\ DialsNext /\ UNCHANGED kind
    BY <2>3, DialsStep DEF RegistriesInv
  <2>4. CASE kind = "config" /\ ConfigWatchNext /\ UNCHANGED kind
    BY <2>4, ConfigWatchStep DEF RegistriesInv
  <2>5. CASE kind = "federation" /\ FederationNext /\ UNCHANGED kind
    BY <2>5, FederationStep DEF RegistriesInv
  <2>6. CASE kind = "mock" /\ MockNext /\ UNCHANGED kind
    BY <2>6, MockStep DEF RegistriesInv
  <2>7. CASE UNCHANGED vars
    <3>1. kind' = kind /\ st' = st /\ calls' = calls /\ seen' = seen
      BY <2>7 DEF vars
    <3>2. HandlesInv => HandlesInv'
      <4>1. HandlesShape => HandlesShape'
        BY SMTT(30), <3>1 DEF HandlesShape
      <4>2. HandlesOpen => HandlesOpen'
        BY SMTT(30), <3>1 DEF HandlesOpen, inHand, oneHand
      <4> QED
        BY <4>1, <4>2 DEF HandlesInv
    <3>3. TsnInv => TsnInv'
      <4>1. TsnShape => TsnShape'
        BY <3>1 DEF TsnShape
      <4>2. TsnPriorities => TsnPriorities'
        BY <3>1 DEF TsnPriorities, OwnPriority
      <4>3. TsnSockets => TsnSockets'
        BY SMTT(30), <3>1 DEF TsnSockets, dialsOnce, dialling
      <4> QED
        BY <4>1, <4>2, <4>3 DEF TsnInv
    <3>4. DialsInv => DialsInv'
      <4>1. DialsShape => DialsShape'
        BY <3>1 DEF DialsShape
      <4>2. DialsSockets => DialsSockets'
        BY SMTT(30), <3>1 DEF DialsSockets, DialsNoSocketLeft, Registered, dialling, dialsOnce, at
      <4> QED
        BY <4>1, <4>2 DEF DialsInv
    <3>5. ConfigWatchInv => ConfigWatchInv'
      <4>1. ConfigShape => ConfigShape'
        BY <3>1 DEF ConfigShape
      <4>2. ConfigPolls => ConfigPolls'
        BY SMTT(30), <3>1 DEF ConfigPolls, fresh
      <4>3. ConfigTells => ConfigTells'
        BY SMTT(30), <3>1 DEF ConfigTells, fresh
      <4> QED
        BY <4>1, <4>2, <4>3 DEF ConfigWatchInv
    <3>6. FederationInv => FederationInv'
      BY <3>1 DEF FederationInv, TakeoverFromKnownOwner
    <3>7. MockInv => MockInv'
      BY <3>1 DEF MockInv, MockCallOk
    <3> QED
      BY <3>1, <3>2, <3>3, <3>4, <3>5, <3>6, <3>7 DEF RegistriesInv
  <2> QED
    BY <2>1, <2>2, <2>3, <2>4, <2>5, <2>6, <2>7 DEF RegistriesNext
<1>3. RegistriesInv => RegistriesSafe
  BY HandlesSound, TsnSound, DialsSound, ConfigWatchSound, FederationSound, MockSound DEF RegistriesInv, RegistriesSafe
<1> QED
  BY <1>1, <1>2, <1>3, PTL DEF RegistriesSpec
=============================================================================
