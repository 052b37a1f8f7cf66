---------------------------- MODULE BridgesProofs ---------------------------
(***************************************************************************)
(* Bridges keeps its promises, for every value of the constants: for each  *)
(* bridge an inductive invariant, that it holds at first, that every step  *)
(* keeps it and that it implies the bridge's property.                     *)
(***************************************************************************)
EXTENDS Bridges, TLAPS

(* What a call does to the table of calls. *)
LEMMA GoesOne ==
  ASSUME calls = [d \in Callers |-> calls[d]], NEW c \in Callers, NEW k, goes(c, k)
  PROVE  /\ calls' = [d \in Callers |-> calls'[d]]
         /\ calls'[c] = k /\ \A d \in Callers : d # c => calls'[d] = calls[d]
BY DEF goes

-----------------------------------------------------------------------------
(* The goroutine runCmd of mqttbr and ddsbr. *)
BridgeFields == {"queue", "open", "pc", "stop", "close"}

(* Close has returned only after runCmd. *)
BridgeOk(b) == DOMAIN b = BridgeFields /\ (b.close = "done" => b.pc = "done")

LEMMA NewBridgeOk == BridgeOk(NewBridge)
BY DEF BridgeOk, BridgeFields, NewBridge

LEMMA EnqueuedOk == ASSUME NEW b, BridgeOk(b) PROVE BridgeOk(enqueued(b))
BY DEF BridgeOk, BridgeFields, enqueued

LEMMA BridgeSteps ==
  ASSUME "bridge" \in DOMAIN st, BridgeOk(st.bridge), "late" \in DOMAIN seen, seen.late = FALSE, BridgeNext,
         seen = [x \in DOMAIN seen |-> seen[x]]
  PROVE  /\ \E b : BridgeOk(b) /\ st' = [st EXCEPT !.bridge = b]
         /\ UNCHANGED <<calls, seen>>
<1> DEFINE b == st.bridge
<1>1. DOMAIN b = BridgeFields /\ (b.close = "done" => b.pc = "done")
  BY DEF BridgeOk
<1>2. CASE TakeCommand
  <2>1. b.close # "done" /\ UNCHANGED calls
    BY Zenon, <1>1, <1>2 DEF TakeCommand, setBridge
  <2>2. seen' = seen \/ seen' = [seen EXCEPT !.late = seen.late \/ b.close = "done"]
    BY Zenon, <1>2 DEF TakeCommand
  <2>3. (seen.late \/ b.close = "done") = FALSE
    BY Zenon, <2>1
  <2>4. UNCHANGED seen
    BY Zenon, <2>2, <2>3
  <2>5. BridgeOk([b EXCEPT !.queue = b.queue - 1]) /\ BridgeOk([b EXCEPT !.queue = b.queue - 1, !.pc = "request"])
    BY <1>1, <2>1 DEF BridgeOk, BridgeFields
  <2> QED
    BY Zenon, <1>2, <2>1, <2>4, <2>5 DEF TakeCommand, setBridge
<1>3. CASE RequestEnds
  <2>1. b.pc = "request" /\ UNCHANGED <<calls, seen>> /\ st' = [st EXCEPT !.bridge = [b EXCEPT !.pc = "select"]]
    BY Zenon, <1>3 DEF RequestEnds, setBridge
  <2>2. BridgeOk([b EXCEPT !.pc = "select"])
    BY <1>1, <2>1 DEF BridgeOk, BridgeFields
  <2> QED
    BY Zenon, <2>1, <2>2
<1>4. CASE RunCmdReturns
  <2>1. UNCHANGED <<calls, seen>> /\ st' = [st EXCEPT !.bridge = [b EXCEPT !.pc = "done"]]
    BY Zenon, <1>4 DEF RunCmdReturns, setBridge
  <2>2. BridgeOk([b EXCEPT !.pc = "done"])
    BY <1>1 DEF BridgeOk, BridgeFields
  <2> QED
    BY Zenon, <2>1, <2>2
<1>5. CASE BridgeCloseBegin
  <2>1. UNCHANGED <<calls, seen>> /\ st' = [st EXCEPT !.bridge = [b EXCEPT !.stop = TRUE, !.close = "waiting"]]
    BY Zenon, <1>5 DEF BridgeCloseBegin, setBridge
  <2>2. BridgeOk([b EXCEPT !.stop = TRUE, !.close = "waiting"])
    BY <1>1 DEF BridgeOk, BridgeFields
  <2> QED
    BY Zenon, <2>1, <2>2
<1>6. CASE BridgeCloseEnd
  <2>1. /\ b.pc = "done" /\ UNCHANGED <<calls, seen>>
        /\ st' = [st EXCEPT !.bridge = [b EXCEPT !.close = "done"]]
    BY Zenon, <1>6 DEF BridgeCloseEnd, setBridge, waited
  <2>2. BridgeOk([b EXCEPT !.close = "done"])
    BY <1>1, <2>1 DEF BridgeOk, BridgeFields
  <2> QED
    BY Zenon, <2>1, <2>2
<1> QED
  BY Zenon, <1>2, <1>3, <1>4, <1>5, <1>6 DEF BridgeNext, runCmd

-----------------------------------------------------------------------------
(* ddsbr. *)
DdsCall(k, subs) == k.pc = "write" => DOMAIN k = {"pc", "left"} /\ k.left \subseteq subs

(* A Write that holds the read lock has yet to send to readers that are in *)
(* the topic, and those are open.                                          *)
DdsInv ==
  /\ DOMAIN st = {"bridge", "subs", "samples", "chan"} /\ DOMAIN st.chan = Readers
  /\ BridgeOk(st.bridge)
  /\ seen = [late |-> FALSE, panic |-> FALSE]
  /\ \A r \in Readers : r \in st.subs => st.chan[r] = "open"
  /\ calls = [c \in Callers |-> calls[c]]
  /\ \A c \in Callers : DdsCall(calls[c], st.subs)

LEMMA DdsInitial == DdsInit => DdsInv
<1> SUFFICES ASSUME DdsInit PROVE DdsInv
  OBVIOUS
<1>1. calls = [c \in Callers |-> Idle] /\ Idle.pc = "idle"
  BY Zenon DEF DdsInit, CallsInit, Idle
<1>2. /\ DOMAIN st = {"bridge", "subs", "samples", "chan"} /\ st.bridge = NewBridge /\ st.subs = {BridgeReader}
      /\ st.chan = [r \in Readers |-> IF r = BridgeReader THEN "open" ELSE "none"]
      /\ seen = [late |-> FALSE, panic |-> FALSE]
  BY DEF DdsInit
<1> QED
  BY <1>1, <1>2, NewBridgeOk DEF DdsInv, DdsCall

LEMMA DdsSound == DdsInv => QuietAfterClose /\ NoSendOnClosed
BY DEF DdsInv, QuietAfterClose, NoSendOnClosed

LEMMA DdsReaders ==
  ASSUME DdsInv, NEW r \in Readers, NewDataReader(r) \/ ReaderClose(r) \/ ReaderClosed(r)
  PROVE  DdsInv'
<1>1. CASE NewDataReader(r)
  <2>1. /\ st' = [st EXCEPT !.subs = st.subs \cup {r}, !.chan = [st.chan EXCEPT ![r] = "open"]] /\ calls' = calls /\ seen' = seen
    BY Zenon, <1>1 DEF NewDataReader
  <2>2. /\ DOMAIN st' = DOMAIN st /\ st'.bridge = st.bridge /\ st'.subs = st.subs \cup {r}
        /\ st'.chan = [st.chan EXCEPT ![r] = "open"]
    BY <2>1 DEF DdsInv
  <2>3. \A c \in Callers : DdsCall(calls[c], st.subs \cup {r})
    BY Zenon DEF DdsInv, DdsCall
  <2> QED
    BY <2>1, <2>2, <2>3 DEF DdsInv
<1>2. CASE ReaderClose(r)
  <2>1. st' = [st EXCEPT !.subs = st.subs \ {r}] /\ calls' = calls /\ seen' = seen /\ \A c \in Callers : calls[c].pc # "write"
    BY Zenon, <1>2 DEF ReaderClose, locked, at
  <2>2. /\ DOMAIN st' = DOMAIN st /\ st'.bridge = st.bridge /\ st'.subs = st.subs \ {r} /\ st'.chan = st.chan
    BY <2>1 DEF DdsInv
  <2> QED
    BY <2>1, <2>2 DEF DdsInv, DdsCall
<1>3. CASE ReaderClosed(r)
  <2> DEFINE b == [st.bridge EXCEPT !.open = st.bridge.open /\ r # BridgeReader]
  <2>1. /\ r \notin st.subs /\ calls' = calls /\ seen' = seen
        /\ st' = [st EXCEPT !.chan = [st.chan EXCEPT ![r] = "closed"], !.bridge = b]
    BY Zenon, <1>3 DEF ReaderClosed, mayClose
  <2>2. /\ DOMAIN st' = DOMAIN st /\ st'.bridge = b /\ st'.subs = st.subs
        /\ st'.chan = [st.chan EXCEPT ![r] = "closed"]
    BY <2>1 DEF DdsInv
  <2>3. BridgeOk(b)
    BY DEF DdsInv, BridgeOk, BridgeFields
  <2> HIDE DEF b
  <2> QED
    BY <2>1, <2>2, <2>3 DEF DdsInv
<1> QED
  BY Zenon, <1>1, <1>2, <1>3

LEMMA DdsWrites ==
  ASSUME DdsInv, NEW c \in Callers, WriteBegin(c) \/ WriteEnd(c) \/ \E r \in Readers : WriteStep(c, r)
  PROVE  DdsInv'
<1>1. CASE WriteBegin(c)
  <2> DEFINE k == [pc |-> "write", left |-> st.subs]
  <2>1. goes(c, k) /\ st' = [st EXCEPT !.samples = st.samples + 1] /\ seen' = seen
    BY Zenon, <1>1 DEF WriteBegin
  <2>2. DOMAIN st' = DOMAIN st /\ st'.bridge = st.bridge /\ st'.subs = st.subs /\ st'.chan = st.chan
    BY <2>1 DEF DdsInv
  <2>3. DdsCall(k, st.subs)
    BY DEF DdsCall
  <2> HIDE DEF k
  <2>4. calls' = [d \in Callers |-> calls'[d]] /\ \A d \in Callers : DdsCall(calls'[d], st.subs)
    BY <2>1, <2>3, GoesOne DEF DdsInv
  <2> QED
    BY <2>1, <2>2, <2>4 DEF DdsInv
<1>2. CASE WriteEnd(c)
  <2>1. goes(c, Idle) /\ st' = st /\ seen' = seen
    BY Zenon, <1>2 DEF WriteEnd, returns
  <2>2. DdsCall(Idle, st.subs)
    BY DEF DdsCall, Idle
  <2>3. calls' = [d \in Callers |-> calls'[d]] /\ \A d \in Callers : DdsCall(calls'[d], st.subs)
    BY <2>1, <2>2, GoesOne DEF DdsInv
  <2> QED
    BY <2>1, <2>3 DEF DdsInv
<1>3. ASSUME NEW r \in Readers, WriteStep(c, r) PROVE DdsInv'
  <2> DEFINE k == [calls[c] EXCEPT !.left = calls[c].left \ {r}]
  <2>1. /\ calls[c].pc = "write" /\ r \in calls[c].left /\ goes(c, k)
        /\ st' = st \/ st' = [st EXCEPT !.bridge = enqueued(st.bridge)]
        /\ seen' = [seen EXCEPT !.panic = seen.panic \/ st.chan[r] = "closed"]
    BY Zenon, <1>3 DEF WriteStep, at
  <2>2. DdsCall(calls[c], st.subs) /\ r \in st.subs /\ st.chan[r] = "open"
    BY Zenon, <2>1 DEF DdsInv, DdsCall
  <2>3. seen' = [late |-> FALSE, panic |-> FALSE]
    BY Zenon, <2>1, <2>2 DEF DdsInv
  <2>4. DdsCall(k, st.subs)
    BY <2>1, <2>2 DEF DdsCall
  <2> HIDE DEF k
  <2>5. calls' = [d \in Callers |-> calls'[d]] /\ \A d \in Callers : DdsCall(calls'[d], st.subs)
    BY <2>1, <2>4, GoesOne DEF DdsInv
  <2>6. DOMAIN st' = DOMAIN st /\ BridgeOk(st'.bridge) /\ st'.subs = st.subs /\ st'.chan = st.chan
    BY <2>1, EnqueuedOk DEF DdsInv
  <2> QED
    BY <2>3, <2>5, <2>6 DEF DdsInv
<1> QED
  BY Zenon, <1>1, <1>2, <1>3

LEMMA DdsStep == DdsInv /\ DdsNext => DdsInv'
<1> SUFFICES ASSUME DdsInv, DdsNext PROVE DdsInv'
  OBVIOUS
<1>1. CASE BridgeNext
  <2>1. "bridge" \in DOMAIN st /\ BridgeOk(st.bridge) /\ "late" \in DOMAIN seen /\ seen.late = FALSE /\ seen = [x \in DOMAIN seen |-> seen[x]]
    BY DEF DdsInv
  <2>2. PICK b : BridgeOk(b) /\ st' = [st EXCEPT !.bridge = b]
    BY Zenon, <1>1, <2>1, BridgeSteps
  <2>3. calls' = calls /\ seen' = seen
    BY Zenon, <1>1, <2>1, BridgeSteps
  <2>4. DOMAIN st' = DOMAIN st /\ st'.bridge = b /\ st'.subs = st.subs /\ st'.chan = st.chan
    BY <2>2 DEF DdsInv
  <2> QED
    BY <2>2, <2>3, <2>4 DEF DdsInv
<1> QED
  BY Zenon, <1>1, DdsReaders, DdsWrites DEF DdsNext, Bridge, BridgeNext

-----------------------------------------------------------------------------
(* shmem. *)
(* A bus that was closed is done, unless the registry is held to wait for  *)
(* it; one that is done serves nothing.                                    *)
BusOk(b, held) ==
  /\ DOMAIN b = {"queue", "closed", "ctrlClosed", "serving", "done"}
  /\ b.done => b.serving = 0
  /\ b.closed => b.done \/ held

held(g) == st.mu /\ g = st.gen

ShmemInv ==
  /\ DOMAIN st = {"gen", "open", "closed", "mu", "bus"} /\ DOMAIN st.bus = Gens
  /\ DOMAIN seen = {"ops", "late"} /\ seen.late = FALSE
  /\ st.gen \in Nat /\ (st.gen > 0 => st.gen \in Gens)
  /\ st.mu \/ st.open => st.gen > 0
  /\ \A g \in Gens : BusOk(st.bus[g], held(g))

LEMMA ShmemInitial == ShmemInit => ShmemInv
<1> SUFFICES ASSUME ShmemInit PROVE ShmemInv
  OBVIOUS
<1>1. /\ DOMAIN st = {"gen", "open", "closed", "mu", "bus"} /\ st.bus = [g \in Gens |-> Bus]
      /\ st.gen = 0 /\ st.mu = FALSE /\ st.open = FALSE /\ DOMAIN seen = {"ops", "late"} /\ seen.late = FALSE
  BY DEF ShmemInit
<1>2. \A x : BusOk(Bus, x)
  BY DEF BusOk, Bus
<1> QED
  BY <1>1, <1>2 DEF ShmemInv

LEMMA ShmemSound == ShmemInv => NoRouteAfterDeregister
BY DEF ShmemInv, NoRouteAfterDeregister

(* A step that changes one bus, and the registry only if its lock is free. *)
LEMMA ShmemBusStep ==
  ASSUME ShmemInv, NEW g \in Gens, NEW b,
         DOMAIN st' = DOMAIN st, st'.bus = [st.bus EXCEPT ![g] = b], st'.gen = st.gen,
         st.mu => st'.mu, st'.mu \/ st'.open => st.gen > 0, BusOk(b, held(g)'),
         DOMAIN seen' = DOMAIN seen, seen'.late = FALSE
  PROVE  ShmemInv'
<1>1. \A h \in Gens : h # g => st'.bus[h] = st.bus[h] /\ (held(h) => held(h)')
  BY DEF ShmemInv, held
<1>2. \A h \in Gens : BusOk(st'.bus[h], held(h)')
  BY <1>1 DEF ShmemInv, BusOk
<1> QED
  BY <1>2 DEF ShmemInv

(* Requests touch a bus's queue only. *)
LEMMA ShmemRequests ==
  ASSUME ShmemInv, NEW c \in Callers, ShmemRequestBegin(c) \/ RequestStep(c)
  PROVE  ShmemInv'
<1>1. CASE ShmemRequestBegin(c)
  <2>1. st' = st /\ \E g \in 1..st.gen : seen' = [seen EXCEPT !.ops = Append(seen.ops, [gen |-> g, answer |-> 0])]
    BY Zenon, <1>1 DEF ShmemRequestBegin
  <2>2. DOMAIN seen' = {"ops", "late"} /\ seen'.late = FALSE
    BY <2>1 DEF ShmemInv
  <2> QED
    BY Zenon, <2>1, <2>2 DEF ShmemInv, held
<1>2. CASE ShmemRequestSend(c)
  <2>0. PICK g : g = calls[c].gen
    OBVIOUS
  <2> DEFINE b == [st.bus[g] EXCEPT !.queue = Append(st.bus[g].queue, calls[c].op)]
  <2>1. st' = [st EXCEPT !.bus = [st.bus EXCEPT ![g] = b]] /\ seen' = seen
    BY Zenon, <1>2, <2>0 DEF ShmemRequestSend
  <2>2. /\ DOMAIN st' = DOMAIN st /\ st'.gen = st.gen /\ st'.mu = st.mu /\ st'.open = st.open
        /\ st'.bus = [st.bus EXCEPT ![g] = b] /\ DOMAIN st'.bus = DOMAIN st.bus
    BY <2>1 DEF ShmemInv
  <2>3. CASE g \in Gens
    <3>1. BusOk(b, held(g)')
      BY <2>2, <2>3 DEF ShmemInv, BusOk, held
    <3> QED
      BY Zenon, <2>1, <2>2, <2>3, <3>1, ShmemBusStep DEF ShmemInv
  <2>4. CASE g \notin Gens
    <3>1. \A h \in Gens : st'.bus[h] = st.bus[h]
      BY <2>2, <2>4 DEF ShmemInv
    <3> QED
      BY <2>1, <2>2, <3>1 DEF ShmemInv, held
  <2> QED
    BY <2>3, <2>4
<1>3. CASE ShmemRequestTimeout(c) \/ ShmemRequestClosed(c) \/ ShmemRequestAnswer(c)
  <2>1. st' = st /\ seen' = seen
    BY Zenon, <1>3 DEF ShmemRequestTimeout, ShmemRequestClosed, ShmemRequestAnswer
  <2> QED
    BY Zenon, <2>1 DEF ShmemInv, held
<1> QED
  BY Zenon, <1>1, <1>2, <1>3 DEF RequestStep

LEMMA ShmemServes ==
  ASSUME ShmemInv, NEW g \in Gens, ServeTake(g) \/ ServeRoute(g) \/ ServeReturn(g)
  PROVE  ShmemInv'
<1> DEFINE b == st.bus[g]
<1>0. BusOk(b, held(g))
  BY Zenon DEF ShmemInv
<1>a. ASSUME NEW new, st' = [st EXCEPT !.bus = [st.bus EXCEPT ![g] = new]], BusOk(new, held(g)),
             DOMAIN seen' = DOMAIN seen, seen'.late = FALSE
      PROVE  ShmemInv'
  <2>1. /\ DOMAIN st' = DOMAIN st /\ st'.gen = st.gen /\ st'.mu = st.mu /\ st'.open = st.open
        /\ st'.bus = [st.bus EXCEPT ![g] = new]
    BY <1>a DEF ShmemInv
  <2>2. held(g)' = held(g)
    BY <2>1 DEF held
  <2>3. st'.mu \/ st'.open => st.gen > 0
    BY <2>1 DEF ShmemInv
  <2> QED
    BY Zenon, <1>a, <2>1, <2>2, <2>3, ShmemBusStep
<1>1. CASE ServeTake(g)
  <2> DEFINE new == [b EXCEPT !.serving = Head(b.queue), !.queue = Tail(b.queue)]
  <2>1. ~b.done /\ st' = [st EXCEPT !.bus = [st.bus EXCEPT ![g] = new]] /\ seen' = seen
    BY Zenon, <1>1 DEF ServeTake, ShmemInv
  <2>2. BusOk(new, held(g))
    BY <1>0, <2>1 DEF BusOk
  <2> HIDE DEF new
  <2> QED
    BY Zenon, <1>a, <2>1, <2>2 DEF ShmemInv
<1>2. CASE ServeRoute(g)
  <2> DEFINE new == [b EXCEPT !.serving = 0]
  <2>1. b.serving # 0 /\ st' = [st EXCEPT !.bus = [st.bus EXCEPT ![g] = new]]
    BY Zenon, <1>2 DEF ServeRoute
  <2>2. b.closed => st.mu
    BY Zenon, <1>0, <2>1 DEF BusOk, held
  <2>3. PICK ops : seen' = [seen EXCEPT !.ops = ops, !.late = seen.late \/ (b.closed /\ ~st.mu)]
    BY Zenon, <1>2 DEF ServeRoute
  <2>4. DOMAIN seen' = DOMAIN seen /\ seen'.late = FALSE
    BY Zenon, <2>2, <2>3 DEF ShmemInv
  <2>5. BusOk(new, held(g))
    BY <1>0 DEF BusOk
  <2> HIDE DEF new
  <2> QED
    BY Zenon, <1>a, <2>1, <2>4, <2>5
<1>3. CASE ServeReturn(g)
  <2> DEFINE new == [b EXCEPT !.done = TRUE]
  <2>1. b.serving = 0 /\ st' = [st EXCEPT !.bus = [st.bus EXCEPT ![g] = new]] /\ seen' = seen
    BY Zenon, <1>3 DEF ServeReturn
  <2>2. BusOk(new, held(g))
    BY <1>0, <2>1 DEF BusOk
  <2> HIDE DEF new
  <2> QED
    BY Zenon, <1>a, <2>1, <2>2 DEF ShmemInv
<1> QED
  BY Zenon, <1>1, <1>2, <1>3

LEMMA ShmemRegistry ==
  ASSUME ShmemInv, Open \/ ControllerClose \/ ShmemDeregister \/ ShmemClose \/ Unlock
  PROVE  ShmemInv'
<1>1. CASE Open
  <2>1. /\ ~st.mu /\ st.gen < MaxGen /\ st' = [st EXCEPT !.gen = st.gen + 1, !.open = TRUE] /\ seen' = seen
    BY Zenon, <1>1 DEF Open
  <2>2. /\ DOMAIN st' = DOMAIN st /\ st'.gen = st.gen + 1 /\ st'.mu = st.mu /\ st'.bus = st.bus
    BY <2>1 DEF ShmemInv
  <2>3. st'.gen \in Gens /\ st'.gen \in Nat /\ st'.gen > 0
    BY <2>1, <2>2, ShmemAssumption DEF ShmemInv, Gens
  <2>4. \A g \in Gens : held(g) = FALSE /\ held(g)' = FALSE
    BY <2>1, <2>2 DEF held
  <2> QED
    BY Zenon, <2>1, <2>2, <2>3, <2>4 DEF ShmemInv
<1> DEFINE g == st.gen
           b == st.bus[g]
<1>2. CASE ControllerClose
  <2> DEFINE new == [b EXCEPT !.ctrlClosed = TRUE]
  <2>1. st.gen > 0 /\ st' = [st EXCEPT !.bus = [st.bus EXCEPT ![g] = new]] /\ seen' = seen
    BY Zenon, <1>2 DEF ControllerClose
  <2>2. /\ DOMAIN st' = DOMAIN st /\ st'.gen = st.gen /\ st'.mu = st.mu /\ st'.open = st.open
        /\ st'.bus = [st.bus EXCEPT ![g] = new]
    BY <2>1 DEF ShmemInv
  <2>3. g \in Gens /\ BusOk(new, held(g)')
    BY <2>1, <2>2 DEF ShmemInv, BusOk, held
  <2> HIDE DEF new
  <2> QED
    BY Zenon, <2>1, <2>2, <2>3, ShmemBusStep DEF ShmemInv
<1>3. CASE ShmemDeregister
  <2> DEFINE new == [b EXCEPT !.closed = TRUE, !.ctrlClosed = TRUE]
  <2>1. /\ st.open /\ seen' = seen
        /\ st' = [st EXCEPT !.mu = TRUE, !.open = FALSE, !.bus = [st.bus EXCEPT ![g] = new]]
    BY Zenon, <1>3 DEF ShmemDeregister, ShmemInv
  <2>2. /\ DOMAIN st' = DOMAIN st /\ st'.gen = st.gen /\ st'.mu = TRUE /\ g \in Gens /\ g > 0
        /\ st'.bus = [st.bus EXCEPT ![g] = new]
    BY <2>1 DEF ShmemInv
  <2>3. BusOk(new, held(g)')
    BY <2>2 DEF ShmemInv, BusOk, held
  <2> HIDE DEF new
  <2> QED
    BY Zenon, <2>1, <2>2, <2>3, ShmemBusStep DEF ShmemInv
<1>4. CASE ShmemClose
  <2>1. CASE st.open
    <3> DEFINE new == [b EXCEPT !.closed = TRUE]
    <3>1. /\ seen' = seen
          /\ st' = [st EXCEPT !.mu = TRUE, !.closed = TRUE, !.open = FALSE, !.bus = [st.bus EXCEPT ![g] = new]]
      BY <1>4, <2>1 DEF ShmemClose, ShmemInv
    <3>2. /\ DOMAIN st' = DOMAIN st /\ st'.gen = st.gen /\ st'.mu = TRUE /\ g \in Gens /\ g > 0
          /\ st'.bus = [st.bus EXCEPT ![g] = new]
      BY <2>1, <3>1 DEF ShmemInv
    <3>3. BusOk(new, held(g)')
      BY <3>2 DEF ShmemInv, BusOk, held
    <3> HIDE DEF new
    <3> QED
      BY Zenon, <3>1, <3>2, <3>3, ShmemBusStep DEF ShmemInv
  <2>2. CASE ~st.open
    <3>1. st' = [st EXCEPT !.closed = TRUE] /\ seen' = seen
      BY Zenon, <1>4, <2>2 DEF ShmemClose
    <3>2. /\ DOMAIN st' = DOMAIN st /\ st'.gen = st.gen /\ st'.mu = st.mu /\ st'.open = st.open /\ st'.bus = st.bus
      BY <3>1 DEF ShmemInv
    <3> QED
      BY Zenon, <3>1, <3>2 DEF ShmemInv, held
  <2> QED
    BY <2>1, <2>2
<1>5. CASE Unlock
  <2>1. st.mu /\ b.done /\ st' = [st EXCEPT !.mu = FALSE] /\ seen' = seen
    BY Zenon, <1>5 DEF Unlock, mayUnlock
  <2>2. /\ DOMAIN st' = DOMAIN st /\ st'.gen = st.gen /\ st'.open = st.open /\ st'.bus = st.bus
    BY <2>1 DEF ShmemInv
  <2>3. \A h \in Gens : BusOk(st.bus[h], held(h)')
    BY Zenon, <2>1 DEF ShmemInv, BusOk, held
  <2>4. st.gen > 0
    BY Zenon, <2>1 DEF ShmemInv
  <2> QED
    BY <2>1, <2>2, <2>3, <2>4 DEF ShmemInv
<1> QED
  BY Zenon, <1>1, <1>2, <1>3, <1>4, <1>5

LEMMA ShmemStep == ShmemInv /\ ShmemNext => ShmemInv'
BY Zenon, ShmemRequests, ShmemServes, ShmemRegistry DEF ShmemNext

-----------------------------------------------------------------------------
(* someip. *)
(* The session of the n-th request, up to the wrap. *)
sessionOf(n) == IF n = Sessions THEN 0 ELSE n

LEMMA SessionsDiffer ==
  ASSUME NEW n \in 1..Sessions, NEW m \in 1..Sessions, sessionOf(n) = sessionOf(m)
  PROVE  n = m
BY SomeIpAssumption DEF sessionOf

LEMMA SessionOfNext ==
  ASSUME NEW n \in Nat, n < Sessions
  PROVE  (sessionOf(n) + 1) % Sessions = sessionOf(n + 1)
<1>1. Sessions \in Nat /\ Sessions > 0 /\ sessionOf(n) = n
  BY SomeIpAssumption DEF sessionOf
<1>2. CASE n + 1 = Sessions
  <2>1. Sessions % Sessions = 0
    BY <1>1
  <2> QED
    BY <1>1, <1>2, <2>1 DEF sessionOf
<1>3. CASE n + 1 < Sessions
  <2>1. (n + 1) % Sessions = n + 1
    BY <1>1, <1>3
  <2> QED
    BY <1>1, <1>3, <2>1 DEF sessionOf
<1> QED
  BY <1>1, <1>2, <1>3

(* What a datagram says, when asked requests were made and up is what      *)
(* upstream did.                                                           *)
IsRequest(f, asked) ==
  /\ f.type = "request"
  /\ asked <= Sessions => f.n \in 1..asked /\ f.session = sessionOf(f.n)

IsResponse(f, asked, up) ==
  /\ f.type = "response" /\ f.up \in up /\ f.code = f.up.code
  /\ asked <= Sessions => f.up.n \in 1..asked /\ f.session = sessionOf(f.up.n)

SomeIpCall(k, asked, up) ==
  /\ k.pc \in {"idle", "number", "register", "send", "wait"}
  /\ k.pc = "number" => k.body \in Bodies
  /\ k.pc \in {"register", "send", "wait"} =>
       /\ DOMAIN k = {"pc", "body", "n", "session", "got"}
       /\ asked <= Sessions => k.n \in 1..asked /\ k.session = sessionOf(k.n)
       /\ k.got # <<>> => IsResponse(k.got[1], asked, up) /\ k.got[1].session = k.session

IsAnswer(a, asked, up) == a.up \in up /\ a.code = a.up.code /\ (asked <= Sessions => a.up.n = a.n)

(* An entry of pending belongs to the one call that waits with it. *)
Waits(s, c, table) == c \in Callers /\ table[c].pc \in {"send", "wait"} /\ table[c].session = s

SomeIpShape ==
  /\ DOMAIN st = {"closed", "readDone", "next", "pending", "net"} /\ DOMAIN seen = {"asked", "up", "answers"}
  /\ seen.asked \in Seq(Bodies)
  /\ Len(seen.asked) <= Sessions => st.next = sessionOf(Len(seen.asked))
  /\ calls = [c \in Callers |-> calls[c]]

SomeIpFacts ==
  /\ \A f \in st.net : IsRequest(f, Len(seen.asked)) \/ IsResponse(f, Len(seen.asked), seen.up)
  /\ \A c \in Callers : SomeIpCall(calls[c], Len(seen.asked), seen.up)
  /\ \A a \in seen.answers : IsAnswer(a, Len(seen.asked), seen.up)
  /\ \A s \in DOMAIN st.pending : Waits(s, st.pending[s], calls)

SomeIpInv == SomeIpShape /\ SomeIpFacts

LEMMA SomeIpInitial == SomeIpInit => SomeIpInv
<1> SUFFICES ASSUME SomeIpInit PROVE SomeIpInv
  OBVIOUS
<1>1. calls = [c \in Callers |-> Idle] /\ Idle.pc = "idle"
  BY Zenon DEF SomeIpInit, CallsInit, Idle
<1>2. /\ DOMAIN st = {"closed", "readDone", "next", "pending", "net"} /\ DOMAIN seen = {"asked", "up", "answers"}
      /\ st.next = 0 /\ st.pending = <<>> /\ st.net = {} /\ seen.asked = <<>> /\ seen.answers = {}
  BY DEF SomeIpInit
<1>3. SomeIpShape
  BY <1>1, <1>2, SomeIpAssumption DEF SomeIpShape, sessionOf
<1>4. SomeIpFacts
  <2>1. DOMAIN st.pending = {}
    BY <1>2
  <2>2. \A c \in Callers : SomeIpCall(calls[c], Len(seen.asked), seen.up)
    BY <1>1 DEF SomeIpCall
  <2> QED
    BY <1>2, <2>1, <2>2 DEF SomeIpFacts
<1> QED
  BY <1>3, <1>4 DEF SomeIpInv

LEMMA SomeIpSound == SomeIpInv => AnswerOfUpstream
BY Zenon DEF SomeIpInv, SomeIpFacts, IsAnswer, AnswerOfUpstream

(* What was said stays true when another request is made and when upstream *)
(* does more.                                                              *)
LEMMA SomeIpGrows ==
  ASSUME NEW n \in Nat, NEW m \in Nat, n <= m, NEW up, NEW more, up \subseteq more
  PROVE  /\ \A f : IsRequest(f, n) => IsRequest(f, m)
         /\ \A f : IsResponse(f, n, up) => IsResponse(f, m, more)
         /\ \A k : SomeIpCall(k, n, up) => SomeIpCall(k, m, more)
         /\ \A a : IsAnswer(a, n, up) => IsAnswer(a, m, more)
<1>1. (m <= Sessions => n <= Sessions) /\ 1..n \subseteq 1..m
  BY SomeIpAssumption
<1>2. \A f : IsRequest(f, n) => IsRequest(f, m)
  BY Zenon, <1>1 DEF IsRequest
<1>3. \A f : IsResponse(f, n, up) => IsResponse(f, m, more)
  BY Zenon, <1>1 DEF IsResponse
<1>4. \A k : SomeIpCall(k, n, up) => SomeIpCall(k, m, more)
  BY Zenon, <1>1, <1>3 DEF SomeIpCall
<1>5. \A a : IsAnswer(a, n, up) => IsAnswer(a, m, more)
  BY Zenon, <1>1 DEF IsAnswer
<1> QED
  BY <1>2, <1>3, <1>4, <1>5

LEMMA SomeIpCallsKeep ==
  ASSUME SomeIpInv, NEW c \in Callers, NEW k, goes(c, k), NEW n, NEW up,
         \A d \in Callers : SomeIpCall(calls[d], n, up), SomeIpCall(k, n, up)
  PROVE  calls' = [d \in Callers |-> calls'[d]] /\ \A d \in Callers : SomeIpCall(calls'[d], n, up)
<1>1. /\ calls' = [d \in Callers |-> calls'[d]] /\ calls'[c] = k
      /\ \A d \in Callers : d # c => calls'[d] = calls[d]
  BY Zenon, GoesOne DEF SomeIpInv, SomeIpShape
<1>2. ASSUME NEW d \in Callers PROVE SomeIpCall(calls'[d], n, up)
  <2>1. CASE d = c
    BY Zenon, <1>1, <2>1
  <2>2. CASE d # c
    BY Zenon, <1>1, <2>2
  <2> QED
    BY <2>1, <2>2
<1> QED
  BY Zenon, <1>1, <1>2

LEMMA SomeIpBegins ==
  ASSUME SomeIpInv, NEW c \in Callers, SomeIpRequestBegin(c)
  PROVE  SomeIpInv'
<1>1. PICK body \in Bodies : goes(c, [pc |-> "number", body |-> body])
  BY Zenon DEF SomeIpRequestBegin
<1> DEFINE k == [pc |-> "number", body |-> body]
<1>2. calls[c].pc = "idle" /\ st' = st /\ seen' = seen
  BY Zenon DEF SomeIpRequestBegin, at
<1>3. SomeIpCall(k, Len(seen.asked), seen.up)
  BY DEF SomeIpCall
<1> HIDE DEF k
<1>4. calls' = [d \in Callers |-> calls'[d]] /\ \A d \in Callers : SomeIpCall(calls'[d], Len(seen.asked), seen.up)
  BY Zenon, <1>1, <1>3, SomeIpCallsKeep DEF SomeIpInv, SomeIpFacts, k
<1>5. \A s \in DOMAIN st.pending : Waits(s, st.pending[s], calls) /\ st.pending[s] # c
  BY Zenon, <1>2 DEF SomeIpInv, SomeIpFacts, Waits
<1>6. \A s, d : Waits(s, d, calls) /\ d # c => Waits(s, d, calls')
  BY Zenon, <1>1, GoesOne DEF Waits, SomeIpInv, SomeIpShape
<1>7. SomeIpShape'
  BY Zenon, <1>2, <1>4 DEF SomeIpInv, SomeIpShape
<1>8. \A s \in DOMAIN st'.pending : Waits(s, st.pending[s], calls')
  BY Zenon, <1>2, <1>5, <1>6
<1>9. SomeIpFacts'
  BY Zenon, <1>2, <1>4, <1>8 DEF SomeIpInv, SomeIpFacts
<1> QED
  BY <1>7, <1>9 DEF SomeIpInv

LEMMA SomeIpNumbers ==
  ASSUME SomeIpInv, NEW c \in Callers, SomeIpRequestNumber(c)
  PROVE  SomeIpInv'
<1> DEFINE s == nextSession
           n == Len(seen.asked) + 1
           k == [pc |-> "register", body |-> calls[c].body, n |-> n, session |-> s, got |-> <<>>]
<1>1. /\ calls[c].pc = "number" /\ calls[c].body \in Bodies /\ seen.asked \in Seq(Bodies) /\ Len(seen.asked) \in Nat
      /\ n \in Nat /\ Len(seen.asked) <= n
  BY DEF SomeIpRequestNumber, at, SomeIpInv, SomeIpFacts, SomeIpShape, SomeIpCall
<1>2. seen' = [seen EXCEPT !.asked = Append(seen.asked, calls[c].body)] /\ goes(c, k) /\ st' = [st EXCEPT !.next = s]
  BY Zenon DEF SomeIpRequestNumber
<1>3. /\ DOMAIN seen' = DOMAIN seen /\ seen'.asked \in Seq(Bodies) /\ Len(seen'.asked) = n
      /\ seen'.up = seen.up /\ seen'.answers = seen.answers
  BY <1>1, <1>2 DEF SomeIpInv, SomeIpShape
<1>4. n <= Sessions => s = sessionOf(n)
  BY <1>1, SessionOfNext, SomeIpAssumption DEF SomeIpInv, SomeIpShape, nextSession
<1>5. /\ \A x : IsRequest(x, Len(seen.asked)) => IsRequest(x, n)
      /\ \A x : IsResponse(x, Len(seen.asked), seen.up) => IsResponse(x, n, seen.up)
      /\ \A x : SomeIpCall(x, Len(seen.asked), seen.up) => SomeIpCall(x, n, seen.up)
      /\ \A x : IsAnswer(x, Len(seen.asked), seen.up) => IsAnswer(x, n, seen.up)
  <2> HIDE DEF n
  <2> QED
    BY Zenon, <1>1, SomeIpGrows
<1>6. n \in 1..n
  BY <1>1
<1>7. SomeIpCall(k, n, seen.up)
  BY <1>4, <1>6 DEF SomeIpCall
<1>8. \A d \in Callers : SomeIpCall(calls[d], n, seen.up)
  BY Zenon, <1>5 DEF SomeIpInv, SomeIpFacts
<1>9. \A x \in st.net : IsRequest(x, n) \/ IsResponse(x, n, seen.up)
  BY Zenon, <1>5 DEF SomeIpInv, SomeIpFacts
<1>10. \A a \in seen.answers : IsAnswer(a, n, seen.up)
  BY Zenon, <1>5 DEF SomeIpInv, SomeIpFacts
<1>11. \A t \in DOMAIN st.pending : Waits(t, st.pending[t], calls) /\ st.pending[t] # c
  BY <1>1 DEF SomeIpInv, SomeIpFacts, Waits
<1> HIDE DEF s, n, k
<1>12. DOMAIN st' = DOMAIN st /\ st'.next = s /\ st'.pending = st.pending /\ st'.net = st.net
  BY <1>2 DEF SomeIpInv, SomeIpShape
<1>13. calls' = [d \in Callers |-> calls'[d]] /\ \A d \in Callers : SomeIpCall(calls'[d], n, seen.up)
  BY Zenon, <1>2, <1>7, <1>8, SomeIpCallsKeep
<1>14. \A t \in DOMAIN st.pending : Waits(t, st.pending[t], calls')
  <2>1. \A t, d : Waits(t, d, calls) /\ d # c => Waits(t, d, calls')
    BY Zenon, <1>2, GoesOne DEF Waits, SomeIpInv, SomeIpShape
  <2> QED
    BY Zenon, <1>11, <2>1, <1>12
<1>15. SomeIpShape'
  BY Zenon, <1>3, <1>4, <1>12, <1>13 DEF SomeIpInv, SomeIpShape
<1>16. SomeIpFacts'
  BY Zenon, <1>3, <1>9, <1>10, <1>12, <1>13, <1>14 DEF SomeIpFacts
<1> QED
  BY <1>15, <1>16 DEF SomeIpInv

(* A call that has its session enters pending, and then sends. *)
LEMMA SomeIpGoesOn ==
  ASSUME SomeIpInv, NEW c \in Callers, NEW pc \in {"send", "wait"}, NEW k, k = [calls[c] EXCEPT !.pc = pc],
         calls[c].pc \in {"register", "send"}, goes(c, k), seen' = seen
  PROVE  /\ calls' = [d \in Callers |-> calls'[d]]
         /\ \A d \in Callers : SomeIpCall(calls'[d], Len(seen.asked), seen.up)
         /\ \A t, d : Waits(t, d, calls) => Waits(t, d, calls')
         /\ Waits(calls[c].session, c, calls')
<1>1. SomeIpCall(calls[c], Len(seen.asked), seen.up)
  BY Zenon DEF SomeIpInv, SomeIpFacts
<1>2. DOMAIN calls[c] = {"pc", "body", "n", "session", "got"}
  BY Zenon, <1>1 DEF SomeIpCall
<1>3. /\ DOMAIN k = {"pc", "body", "n", "session", "got"} /\ k.pc = pc /\ k.n = calls[c].n
      /\ k.session = calls[c].session /\ k.got = calls[c].got
  BY <1>2
<1>4. SomeIpCall(k, Len(seen.asked), seen.up)
  BY <1>1, <1>3 DEF SomeIpCall
<1>5. /\ calls' = [d \in Callers |-> calls'[d]]
      /\ \A d \in Callers : SomeIpCall(calls'[d], Len(seen.asked), seen.up)
  BY Zenon, <1>4, SomeIpCallsKeep DEF SomeIpInv, SomeIpFacts
<1>6. calls'[c] = k /\ \A d \in Callers : d # c => calls'[d] = calls[d]
  BY Zenon, GoesOne DEF SomeIpInv, SomeIpShape
<1>7. Waits(calls[c].session, c, calls')
  BY <1>3, <1>6 DEF Waits
<1>8. \A t, d : Waits(t, d, calls) => Waits(t, d, calls')
  BY <1>3, <1>6 DEF Waits
<1> QED
  BY <1>5, <1>7, <1>8

LEMMA SomeIpRegisters ==
  ASSUME SomeIpInv, NEW c \in Callers, SomeIpRequestRegister(c)
  PROVE  SomeIpInv'
<1> DEFINE s == calls[c].session
           k == [calls[c] EXCEPT !.pc = "send"]
<1>1. /\ calls[c].pc = "register" /\ goes(c, k) /\ seen' = seen
      /\ st' = [st EXCEPT !.pending = put(st.pending, s, c)]
  BY Zenon DEF SomeIpRequestRegister, at
<1> HIDE DEF k
<1>2. /\ calls' = [d \in Callers |-> calls'[d]]
      /\ \A d \in Callers : SomeIpCall(calls'[d], Len(seen.asked), seen.up)
      /\ \A t, d : Waits(t, d, calls) => Waits(t, d, calls')
      /\ Waits(s, c, calls')
  BY <1>1, SomeIpGoesOn DEF k
<1> HIDE DEF s
<1>3. DOMAIN st' = DOMAIN st /\ st'.next = st.next /\ st'.pending = put(st.pending, s, c) /\ st'.net = st.net
  BY <1>1 DEF SomeIpInv, SomeIpShape
<1>4. \A t \in DOMAIN st'.pending : Waits(t, st'.pending[t], calls')
  <2>1. /\ DOMAIN st'.pending = DOMAIN st.pending \cup {s} /\ st'.pending[s] = c
        /\ \A t \in DOMAIN st.pending : t # s => st'.pending[t] = st.pending[t]
    BY Zenon, <1>3 DEF put
  <2>2. \A t \in DOMAIN st.pending : Waits(t, st.pending[t], calls)
    BY Zenon DEF SomeIpInv, SomeIpFacts
  <2> QED
    BY <1>2, <2>1, <2>2
<1>5. SomeIpShape'
  BY Zenon, <1>1, <1>2, <1>3 DEF SomeIpInv, SomeIpShape
<1>6. SomeIpFacts'
  BY Zenon, <1>1, <1>2, <1>3, <1>4 DEF SomeIpInv, SomeIpFacts
<1> QED
  BY <1>5, <1>6 DEF SomeIpInv

LEMMA SomeIpSends ==
  ASSUME SomeIpInv, NEW c \in Callers, SomeIpRequestSend(c)
  PROVE  SomeIpInv'
<1> DEFINE k == [calls[c] EXCEPT !.pc = "wait"]
           f == [type |-> "request", session |-> calls[c].session, n |-> calls[c].n, body |-> calls[c].body]
<1>1. calls[c].pc = "send" /\ goes(c, k) /\ seen' = seen /\ st' = [st EXCEPT !.net = st.net \cup {f}]
  BY Zenon DEF SomeIpRequestSend, at
<1>2. IsRequest(f, Len(seen.asked))
  <2>1. SomeIpCall(calls[c], Len(seen.asked), seen.up)
    BY Zenon DEF SomeIpInv, SomeIpFacts
  <2> QED
    BY <1>1, <2>1 DEF IsRequest, SomeIpCall
<1> HIDE DEF k, f
<1>3. /\ calls' = [d \in Callers |-> calls'[d]]
      /\ \A d \in Callers : SomeIpCall(calls'[d], Len(seen.asked), seen.up)
      /\ \A t, d : Waits(t, d, calls) => Waits(t, d, calls')
  BY <1>1, SomeIpGoesOn DEF k
<1>4. DOMAIN st' = DOMAIN st /\ st'.next = st.next /\ st'.pending = st.pending /\ st'.net = st.net \cup {f}
  BY <1>1 DEF SomeIpInv, SomeIpShape
<1>5. SomeIpShape'
  BY Zenon, <1>1, <1>3, <1>4 DEF SomeIpInv, SomeIpShape
<1>6. \A x \in st'.net : IsRequest(x, Len(seen.asked)) \/ IsResponse(x, Len(seen.asked), seen.up)
  BY Zenon, <1>2, <1>4 DEF SomeIpInv, SomeIpFacts
<1>7. \A t \in DOMAIN st'.pending : Waits(t, st'.pending[t], calls')
  BY Zenon, <1>3, <1>4 DEF SomeIpInv, SomeIpFacts
<1>8. SomeIpFacts'
  BY Zenon, <1>1, <1>3, <1>4, <1>6, <1>7 DEF SomeIpInv, SomeIpFacts
<1> QED
  BY <1>5, <1>8 DEF SomeIpInv

LEMMA SomeIpServer ==
  ASSUME SomeIpInv, NEW f \in st.net, Handle(f)
  PROVE  SomeIpInv'
<1> DEFINE n == Len(seen.asked)
<1>1. PICK code \in {"OK", "NotOK"} :
        LET up == [n |-> f.n, control |-> controlFor(f.body), code |-> code] IN
        /\ seen' = [seen EXCEPT !.up = seen.up \cup {up}]
        /\ st' = [st EXCEPT !.net = st.net \cup {[type |-> "response", session |-> f.session, code |-> code, up |-> up]}]
  BY Zenon DEF Handle
<1> DEFINE up == [n |-> f.n, control |-> controlFor(f.body), code |-> code]
           x == [type |-> "response", session |-> f.session, code |-> code, up |-> up]
           more == seen.up \cup {up}
<1>2. f.type = "request" /\ calls' = calls
  BY Zenon DEF Handle
<1>3. IsRequest(f, n)
  BY Zenon, <1>2 DEF SomeIpInv, SomeIpFacts, IsResponse
<1>4. IsResponse(x, n, more)
  BY <1>3 DEF IsResponse, IsRequest
<1>5. /\ DOMAIN seen' = DOMAIN seen /\ seen'.asked = seen.asked /\ seen'.up = more /\ seen'.answers = seen.answers
      /\ DOMAIN st' = DOMAIN st /\ st'.next = st.next /\ st'.pending = st.pending /\ st'.net = st.net \cup {x}
  BY <1>1 DEF SomeIpInv, SomeIpShape
<1>6. n \in Nat /\ n <= n /\ seen.up \subseteq more
  BY DEF SomeIpInv, SomeIpShape
<1> HIDE DEF n, up, x, more
<1>7. /\ \A y : IsRequest(y, n) => IsRequest(y, n)
      /\ \A y : IsResponse(y, n, seen.up) => IsResponse(y, n, more)
      /\ \A y : SomeIpCall(y, n, seen.up) => SomeIpCall(y, n, more)
      /\ \A y : IsAnswer(y, n, seen.up) => IsAnswer(y, n, more)
  BY Zenon, <1>6, SomeIpGrows
<1>8. SomeIpShape'
  BY Zenon, <1>2, <1>5 DEF SomeIpInv, SomeIpShape
<1>9. Len(seen'.asked) = n
  BY Zenon, <1>5 DEF n
<1>10. \A y \in st'.net : IsRequest(y, n) \/ IsResponse(y, n, more)
  BY Zenon, <1>4, <1>5, <1>7 DEF SomeIpInv, SomeIpFacts, n
<1>11. /\ \A c \in Callers : SomeIpCall(calls'[c], n, more)
       /\ \A a \in seen'.answers : IsAnswer(a, n, more)
  BY Zenon, <1>2, <1>5, <1>7 DEF SomeIpInv, SomeIpFacts, n
<1>12. \A s \in DOMAIN st'.pending : Waits(s, st'.pending[s], calls')
  BY Zenon, <1>2, <1>5 DEF SomeIpInv, SomeIpFacts, Waits
<1>13. SomeIpFacts'
  BY Zenon, <1>5, <1>9, <1>10, <1>11, <1>12 DEF SomeIpFacts
<1> QED
  BY <1>8, <1>13 DEF SomeIpInv

LEMMA SomeIpReads ==
  ASSUME SomeIpInv, NEW f \in st.net, Deliver(f)
  PROVE  SomeIpInv'
<1> DEFINE c == st.pending[f.session]
           k == [calls[c] EXCEPT !.got = <<f>>]
<1>1. /\ f.type = "response" /\ f.session \in DOMAIN st.pending /\ goes(c, k)
      /\ st' = st /\ seen' = seen
  BY Zenon DEF Deliver, at
<1>2. /\ Waits(f.session, c, calls) /\ c \in Callers /\ calls[c].session = f.session
      /\ calls[c].pc \in {"send", "wait"}
  BY Zenon, <1>1 DEF SomeIpInv, SomeIpFacts, Waits
<1>3. IsResponse(f, Len(seen.asked), seen.up)
  BY Zenon, <1>1 DEF SomeIpInv, SomeIpFacts, IsRequest
<1>4. SomeIpCall(calls[c], Len(seen.asked), seen.up)
  BY Zenon, <1>2 DEF SomeIpInv, SomeIpFacts
<1>5. DOMAIN calls[c] = {"pc", "body", "n", "session", "got"}
  BY Zenon, <1>2, <1>4 DEF SomeIpCall
<1>6. /\ DOMAIN k = {"pc", "body", "n", "session", "got"} /\ k.pc = calls[c].pc /\ k.n = calls[c].n
      /\ k.session = calls[c].session /\ k.got[1] = f
  BY <1>1, <1>5
<1>7. SomeIpCall(k, Len(seen.asked), seen.up)
  <2> HIDE DEF k, c
  <2> QED
    BY SMTT(30), <1>1, <1>2, <1>3, <1>4, <1>6 DEF SomeIpCall
<1> HIDE DEF k, c
<1>8. calls' = [d \in Callers |-> calls'[d]] /\ \A d \in Callers : SomeIpCall(calls'[d], Len(seen.asked), seen.up)
  BY Zenon, <1>1, <1>2, <1>7, SomeIpCallsKeep DEF SomeIpInv, SomeIpFacts
<1>9. \A s, d : Waits(s, d, calls) => Waits(s, d, calls')
  BY <1>1, <1>2, <1>6, GoesOne DEF Waits, SomeIpInv, SomeIpShape
<1>10. SomeIpShape'
  BY Zenon, <1>1, <1>8 DEF SomeIpInv, SomeIpShape
<1>11. \A s \in DOMAIN st'.pending : Waits(s, st'.pending[s], calls')
  BY Zenon, <1>1, <1>9 DEF SomeIpInv, SomeIpFacts
<1>12. SomeIpFacts'
  BY Zenon, <1>1, <1>8, <1>11 DEF SomeIpInv, SomeIpFacts
<1> QED
  BY <1>10, <1>12 DEF SomeIpInv

(* A call returns and takes its entry along. *)
LEMMA SomeIpReturns ==
  ASSUME SomeIpInv, NEW c \in Callers,
         \/ SomeIpRequestAnswer(c) \/ SomeIpRequestTimeout(c) \/ SomeIpRequestClosed(c)
         \/ SomeIpRequestUnsent(c)
  PROVE  SomeIpInv'
<1> DEFINE n == Len(seen.asked)
           k == calls[c]
           a == [n |-> k.n, code |-> k.got[1].code, up |-> k.got[1].up]
<1>1. k.pc \in {"send", "wait"} /\ st' = [st EXCEPT !.pending = forget(c)] /\ goes(c, Idle)
  BY Zenon DEF SomeIpRequestAnswer, SomeIpRequestTimeout, SomeIpRequestClosed, SomeIpRequestUnsent,
     RequestFails, at, returns
<1>2. \/ seen' = seen
      \/ k.got # <<>> /\ seen' = [seen EXCEPT !.answers = seen.answers \cup {a}]
  BY Zenon DEF SomeIpRequestAnswer, SomeIpRequestTimeout, SomeIpRequestClosed, SomeIpRequestUnsent, RequestFails
<1>3. SomeIpCall(k, n, seen.up) /\ SomeIpCall(Idle, n, seen.up)
  BY Zenon DEF SomeIpInv, SomeIpFacts, SomeIpCall, Idle
<1>4. ASSUME k.got # <<>> PROVE IsAnswer(a, n, seen.up)
  <2>1. /\ IsResponse(k.got[1], n, seen.up) /\ k.got[1].session = k.session
        /\ n <= Sessions => k.n \in 1..n /\ k.session = sessionOf(k.n)
    BY Zenon, <1>1, <1>3, <1>4 DEF SomeIpCall
  <2>2. ASSUME n <= Sessions PROVE a.up.n = a.n
    <3>1. /\ a.up.n \in 1..n /\ a.n \in 1..n /\ sessionOf(a.up.n) = sessionOf(a.n)
      BY Zenon, <2>1, <2>2 DEF IsResponse
    <3>2. 1..n \subseteq 1..Sessions
      BY <2>2, SomeIpAssumption DEF SomeIpInv, SomeIpShape
    <3> QED
      BY Zenon, <3>1, <3>2, SessionsDiffer
  <2> QED
    BY Zenon, <2>1, <2>2 DEF IsAnswer, IsResponse
<1> HIDE DEF a
<1>5. /\ DOMAIN seen' = DOMAIN seen /\ seen'.asked = seen.asked /\ seen'.up = seen.up
      /\ \A x \in seen'.answers : IsAnswer(x, n, seen.up)
  <2>1. \A x \in seen.answers : IsAnswer(x, n, seen.up)
    BY Zenon DEF SomeIpInv, SomeIpFacts
  <2> QED
    BY <1>2, <1>4, <2>1 DEF SomeIpInv, SomeIpShape
<1>6. DOMAIN st' = DOMAIN st /\ st'.next = st.next /\ st'.net = st.net /\ st'.pending = forget(c)
  BY <1>1 DEF SomeIpInv, SomeIpShape
<1>7. calls' = [d \in Callers |-> calls'[d]] /\ \A d \in Callers : SomeIpCall(calls'[d], n, seen.up)
  BY Zenon, <1>1, <1>3, SomeIpCallsKeep DEF SomeIpInv, SomeIpFacts
<1>8. \A s \in DOMAIN st'.pending : Waits(s, st'.pending[s], calls')
  <2>1. /\ DOMAIN forget(c) = DOMAIN st.pending \ {k.session}
        /\ \A s \in DOMAIN forget(c) : forget(c)[s] = st.pending[s]
    BY Zenon DEF forget, Restrict
  <2>2. \A s \in DOMAIN forget(c) : Waits(s, forget(c)[s], calls) /\ forget(c)[s] # c
    BY Zenon, <2>1 DEF SomeIpInv, SomeIpFacts, Waits
  <2>3. \A s, d : Waits(s, d, calls) /\ d # c => Waits(s, d, calls')
    BY Zenon, <1>1, GoesOne DEF Waits, SomeIpInv, SomeIpShape
  <2> QED
    BY Zenon, <1>6, <2>2, <2>3
<1>9. SomeIpShape'
  BY Zenon, <1>5, <1>6, <1>7 DEF SomeIpInv, SomeIpShape
<1>10. SomeIpFacts'
  BY Zenon, <1>5, <1>6, <1>7, <1>8 DEF SomeIpInv, SomeIpFacts
<1> QED
  BY <1>9, <1>10 DEF SomeIpInv

LEMMA SomeIpStep == SomeIpInv /\ SomeIpNext => SomeIpInv'
<1> SUFFICES ASSUME SomeIpInv, SomeIpNext PROVE SomeIpInv'
  OBVIOUS
<1>1. CASE ReadLoopEnds \/ SomeIpClose
  <2>1. calls' = calls /\ seen' = seen /\ (st' = [st EXCEPT !.readDone = TRUE] \/ st' = [st EXCEPT !.closed = TRUE])
    BY Zenon, <1>1 DEF ReadLoopEnds, SomeIpClose
  <2>2. DOMAIN st' = DOMAIN st /\ st'.next = st.next /\ st'.pending = st.pending /\ st'.net = st.net
    BY <2>1 DEF SomeIpInv, SomeIpShape
  <2>3. SomeIpShape'
    BY Zenon, <2>1, <2>2 DEF SomeIpInv, SomeIpShape
  <2>4. SomeIpFacts'
    BY Zenon, <2>1, <2>2 DEF SomeIpInv, SomeIpFacts, Waits
  <2> QED
    BY <2>3, <2>4 DEF SomeIpInv
<1> QED
  BY Zenon, <1>1, SomeIpBegins, SomeIpNumbers, SomeIpRegisters, SomeIpSends, SomeIpServer, SomeIpReads, SomeIpReturns
     DEF SomeIpNext

-----------------------------------------------------------------------------
(* doipbr. *)
Reply == [type : {"Ack"}, len : Lens] \cup {[type |-> "Nack", len |-> 1]}

(* The connection, with n requests made, while it is open and no Nack has  *)
(* been met: between two Sends it is empty, and during one it holds the    *)
(* request or the answer to it.                                            *)
Between(s, n) == s.out = <<>> /\ s.in = <<>> /\ Len(s.reply) = n
During(s, n) ==
  /\ n > 0
  /\ \/ s.out = <<n>> /\ s.in = <<>> /\ Len(s.reply) = n - 1
     \/ s.out = <<>> /\ Len(s.reply) = n /\ s.in = bytes(n, s.reply[n].len)

DoIpShape ==
  /\ DOMAIN st = {"mu", "out", "in", "reply", "sends", "conn", "handler", "close"} /\ DOMAIN seen = {"got", "nacked"}
  /\ st.sends \in Nat /\ st.reply \in Seq(Reply)
  /\ calls = [c \in Callers |-> calls[c]]
  /\ \A c \in Callers : calls[c].pc = "read" => st.mu
  /\ \A c, d \in Callers : calls[c].pc = "read" /\ calls[d].pc = "read" => c = d

DoIpLockstep ==
  st.conn /\ ~seen.nacked =>
    /\ ~st.mu => Between(st, st.sends)
    /\ st.mu => During(st, st.sends)
    /\ \A c \in Callers : calls[c].pc = "read" => calls[c].n = st.sends

DoIpInv == DoIpShape /\ DoIpLockstep /\ MineUntilNack

LEMMA DoIpInitial == DoIpInit => DoIpInv
<1> SUFFICES ASSUME DoIpInit PROVE DoIpInv
  OBVIOUS
<1>1. calls = [c \in Callers |-> Idle] /\ Idle.pc = "idle"
  BY Zenon DEF DoIpInit, CallsInit, Idle
<1>2. /\ DOMAIN st = {"mu", "out", "in", "reply", "sends", "conn", "handler", "close"} /\ DOMAIN seen = {"got", "nacked"}
      /\ st.mu = FALSE /\ st.out = <<>> /\ st.in = <<>> /\ st.reply = <<>> /\ st.sends = 0 /\ seen.got = {}
  BY DEF DoIpInit
<1>3. DoIpShape
  BY <1>1, <1>2 DEF DoIpShape
<1>4. DoIpLockstep
  BY <1>1, <1>2 DEF DoIpLockstep, Between
<1> QED
  BY <1>2, <1>3, <1>4 DEF DoIpInv, MineUntilNack

LEMMA BytesAre ==
  ASSUME NEW n \in Nat, NEW len \in Nat
  PROVE  /\ bytes(n, len) \in Seq(Nat \X Nat) /\ Len(bytes(n, len)) = HeaderLen + len
         /\ \A i \in 1..(HeaderLen + len) : bytes(n, len)[i] = <<n, i>>
BY DEF bytes, HeaderLen

LEMMA HeaderIs ==
  ASSUME NEW S, NEW a \in Seq(S), HeaderLen <= Len(a), NEW i \in 1..HeaderLen
  PROVE  SubSeq(a, 1, HeaderLen)[i] = a[i]
BY DEF HeaderLen

LEMMA ReplyLen == ASSUME NEW r \in Reply PROVE r.len \in Nat
<1>1. CASE r \in [type : {"Ack"}, len : Lens]
  BY Zenon, <1>1, DoIpAssumption
<1>2. CASE r = [type |-> "Nack", len |-> 1]
  BY <1>2
<1> QED
  BY Zenon, <1>1, <1>2 DEF Reply

LEMMA DoIpSends ==
  ASSUME DoIpInv, NEW c \in Callers, SendBegin(c)
  PROVE  DoIpInv'
<1> DEFINE k == [pc |-> "read", n |-> st.sends + 1]
<1>1. /\ ~st.mu /\ st.conn /\ goes(c, k) /\ seen' = seen
      /\ st' = [st EXCEPT !.mu = TRUE, !.sends = st.sends + 1, !.out = Append(st.out, st.sends + 1)]
  BY Zenon DEF SendBegin
<1>2. /\ DOMAIN st' = DOMAIN st /\ st'.mu = TRUE /\ st'.sends = st.sends + 1 /\ st'.out = Append(st.out, st.sends + 1)
      /\ st'.conn = st.conn /\ st'.in = st.in /\ st'.reply = st.reply /\ st.sends \in Nat
  BY Zenon, <1>1 DEF DoIpInv, DoIpShape
<1>3. k.pc = "read" /\ k.n = st.sends + 1
  OBVIOUS
<1> HIDE DEF k
<1>4. /\ calls' = [d \in Callers |-> calls'[d]] /\ calls'[c] = k /\ \A d \in Callers : d # c => calls'[d] = calls[d]
  BY Zenon, <1>1, GoesOne DEF DoIpInv, DoIpShape
<1>5. \A d \in Callers : calls'[d].pc = "read" => d = c
  BY Zenon, <1>1, <1>4 DEF DoIpInv, DoIpShape
<1>6. DoIpShape'
  BY <1>1, <1>2, <1>4, <1>5 DEF DoIpInv, DoIpShape
<1>7. ASSUME ~seen.nacked PROVE During(st', st'.sends)
  <2>1. Between(st, st.sends)
    BY Zenon, <1>1, <1>7 DEF DoIpInv, DoIpLockstep
  <2> QED
    BY <1>2, <2>1 DEF Between, During
<1>8. DoIpLockstep'
  <2>1. \A d \in Callers : calls'[d].pc = "read" => calls'[d].n = st'.sends
    BY Zenon, <1>2, <1>3, <1>4, <1>5
  <2> QED
    BY Zenon, <1>1, <1>2, <1>7, <2>1 DEF DoIpLockstep
<1> QED
  BY Zenon, <1>1, <1>6, <1>8 DEF DoIpInv, MineUntilNack

LEMMA DoIpHandles ==
  ASSUME DoIpInv, HandleMessage
  PROVE  DoIpInv'
<1>1. st.out # <<>> /\ calls' = calls /\ seen' = seen
  BY Zenon DEF HandleMessage
<1>2. CASE st.conn
  <2>1. PICK r \in Reply : st' = [st EXCEPT !.out = Tail(st.out), !.reply = Append(st.reply, r),
                                            !.in = st.in \o bytes(Head(st.out), r.len)]
    BY Zenon, <1>2 DEF HandleMessage, Reply
  <2>2. /\ DOMAIN st' = DOMAIN st /\ st'.out = Tail(st.out) /\ st'.reply = Append(st.reply, r)
        /\ st'.in = st.in \o bytes(Head(st.out), r.len)
        /\ st'.mu = st.mu /\ st'.sends = st.sends /\ st'.conn = st.conn
    BY <2>1 DEF DoIpInv, DoIpShape
  <2>3. DoIpShape'
    BY <1>1, <2>2 DEF DoIpInv, DoIpShape
  <2>4. ASSUME ~seen.nacked PROVE st.mu /\ During(st', st'.sends)
    <3>1. st.mu /\ st.sends > 0 /\ st.out = <<st.sends>> /\ st.in = <<>> /\ Len(st.reply) = st.sends - 1
      BY Zenon, <1>1, <1>2, <2>4 DEF DoIpInv, DoIpLockstep, Between, During
    <3>2. st.sends \in Nat /\ st.reply \in Seq(Reply) /\ r.len \in Nat
      BY Zenon, ReplyLen DEF DoIpInv, DoIpShape
    <3>3. Head(st.out) = st.sends /\ Tail(st.out) = <<>>
      BY <3>1, <3>2
    <3>4. st'.in = bytes(st.sends, r.len)
      <4>1. bytes(st.sends, r.len) \in Seq(Nat \X Nat)
        BY Zenon, <3>2, BytesAre
      <4> HIDE DEF bytes
      <4> QED
        BY <2>2, <3>1, <3>3, <4>1
    <3>5. Len(st'.reply) = st.sends /\ st'.reply[st.sends] = r
      BY <2>2, <3>1, <3>2
    <3> QED
      BY Zenon, <2>2, <3>1, <3>3, <3>4, <3>5 DEF During
  <2>5. DoIpLockstep'
    BY Zenon, <1>1, <2>2, <2>4 DEF DoIpInv, DoIpLockstep
  <2> QED
    BY Zenon, <1>1, <2>3, <2>5 DEF DoIpInv, MineUntilNack
<1>3. CASE ~st.conn
  <2>1. st' = [st EXCEPT !.out = <<>>, !.handler = "done"]
    BY Zenon, <1>3 DEF HandleMessage
  <2>2. /\ DOMAIN st' = DOMAIN st /\ st'.reply = st.reply /\ st'.mu = st.mu /\ st'.sends = st.sends /\ st'.conn = st.conn
    BY <2>1 DEF DoIpInv, DoIpShape
  <2> QED
    BY Zenon, <1>1, <1>3, <2>2 DEF DoIpInv, DoIpShape, DoIpLockstep, MineUntilNack
<1> QED
  BY <1>2, <1>3

(* A call that was reading returns: the lock is free and nobody reads. *)
LEMMA DoIpReturns ==
  ASSUME DoIpInv, NEW c \in Callers, calls[c].pc = "read", goes(c, Idle),
         DOMAIN st' = DOMAIN st, st'.mu = FALSE, st'.sends = st.sends, st'.reply = st.reply, DOMAIN seen' = DOMAIN seen
  PROVE  DoIpShape' /\ \A d \in Callers : calls'[d].pc # "read"
<1>1. Idle.pc = "idle"
  BY DEF Idle
<1>2. calls' = [d \in Callers |-> calls'[d]] /\ calls'[c] = Idle /\ \A d \in Callers : d # c => calls'[d] = calls[d]
  BY Zenon, GoesOne DEF DoIpInv, DoIpShape
<1>3. \A d \in Callers : calls'[d].pc # "read"
  BY <1>1, <1>2 DEF DoIpInv, DoIpShape
<1> QED
  BY Zenon, <1>2, <1>3 DEF DoIpInv, DoIpShape

LEMMA DoIpReads ==
  ASSUME DoIpInv, NEW c \in Callers, SendRead(c)
  PROVE  DoIpInv'
<1>1. calls[c].pc = "read" /\ st.conn /\ Len(st.in) >= HeaderLen /\ goes(c, Idle)
  BY Zenon DEF SendRead, at, returns
<1>2. /\ DOMAIN st' = DOMAIN st /\ st'.mu = FALSE /\ st'.sends = st.sends /\ st'.reply = st.reply /\ st'.out = st.out
      /\ DOMAIN seen' = DOMAIN seen /\ (seen.nacked => seen'.nacked)
  <2>1. PICK in : st' = [st EXCEPT !.mu = FALSE, !.in = in]
    BY Zenon DEF SendRead
  <2>2. \/ seen' = seen \/ seen' = [seen EXCEPT !.nacked = TRUE]
        \/ \E got : seen' = [seen EXCEPT !.got = got]
    BY Zenon DEF SendRead
  <2> QED
    BY <2>1, <2>2 DEF DoIpInv, DoIpShape
<1>3. DoIpShape' /\ \A d \in Callers : calls'[d].pc # "read"
  BY Zenon, <1>1, <1>2, DoIpReturns
<1>4. CASE seen.nacked
  <2>1. MineUntilNack'
    <3>1. seen'.got = seen.got \/ \E n, of : seen'.got = seen.got \cup {[n |-> n, nacked |-> seen.nacked, of |-> of]}
      <4>1. \/ seen' = seen \/ seen' = [seen EXCEPT !.nacked = TRUE]
            \/ \E n, of : seen' = [seen EXCEPT !.got = seen.got \cup {[n |-> n, nacked |-> seen.nacked, of |-> of]}]
        BY Zenon DEF SendRead
      <4> QED
        BY Zenon, <4>1 DEF DoIpInv, DoIpShape
    <3>2. \A n, of : [n |-> n, nacked |-> seen.nacked, of |-> of].nacked
      BY <1>4
    <3>3. \A g \in seen.got : g.nacked \/ g.of \subseteq {g.n}
      BY Zenon DEF DoIpInv, MineUntilNack
    <3> QED
      BY <3>1, <3>2, <3>3 DEF MineUntilNack
  <2> QED
    BY Zenon, <1>2, <1>3, <1>4, <2>1 DEF DoIpInv, DoIpLockstep
<1>5. CASE ~seen.nacked
  <2> DEFINE n == st.sends
             r == st.reply[n]
  <2>1. calls[c].n = n /\ n \in Nat /\ During(st, n) /\ st.reply \in Seq(Reply)
    BY Zenon, <1>1, <1>5 DEF DoIpInv, DoIpShape, DoIpLockstep
  <2>2. n > 0 /\ st.out = <<>> /\ Len(st.reply) = n /\ st.in = bytes(n, r.len)
    <3>1. Len(<<>>) < HeaderLen
      BY DEF HeaderLen
    <3> QED
      BY <1>1, <2>1, <3>1 DEF During, HeaderLen
  <2>3. r \in Reply /\ r.len \in Nat
    BY <2>1, <2>2, ReplyLen
  <2>4. /\ st.in \in Seq(Nat \X Nat) /\ Len(st.in) = HeaderLen + r.len
        /\ \A i \in 1..(HeaderLen + r.len) : st.in[i] = <<n, i>>
    <3> HIDE DEF n, r
    <3>1. /\ bytes(n, r.len) \in Seq(Nat \X Nat) /\ Len(bytes(n, r.len)) = HeaderLen + r.len
          /\ \A i \in 1..(HeaderLen + r.len) : bytes(n, r.len)[i] = <<n, i>>
      <4>1. n \in Nat /\ r.len \in Nat
        BY Zenon, <2>1, <2>3
      <4> QED
        BY Zenon, <4>1, BytesAre
    <3>2. st.in = bytes(n, r.len)
      BY Zenon, <2>2
    <3> QED
      BY Zenon, <3>1, <3>2
  <2> HIDE DEF n, r
  <2>5. \A i \in 1..HeaderLen : header[i] = <<n, i>>
    <3>1. \A i \in 1..HeaderLen : header[i] = st.in[i] /\ i \in 1..(HeaderLen + r.len)
      <4>1. HeaderLen <= Len(st.in) /\ 1..HeaderLen \subseteq 1..(HeaderLen + r.len)
        <5>1. Len(st.in) = HeaderLen + r.len /\ r.len \in Nat
          BY Zenon, <2>3, <2>4
        <5> QED
          BY <5>1 DEF HeaderLen
      <4>2. st.in \in Seq(Nat \X Nat)
        BY Zenon, <2>4
      <4> QED
        BY Zenon, <4>1, <4>2, HeaderIs DEF header
    <3> QED
      BY Zenon, <2>4, <3>1
  <2>6. isHeader /\ header[1][1] = n
    <3>1. 1 \in 1..HeaderLen
      BY DEF HeaderLen
    <3>2. header[1][1] = n
      BY <2>5, <3>1
    <3> QED
      BY Zenon, <2>5, <3>2 DEF isHeader
  <2>7. /\ st' = [st EXCEPT !.mu = FALSE, !.in = left(r)]
        /\ seen' = IF r.type = "Ack"
                     THEN [seen EXCEPT !.got = seen.got \cup {[n |-> calls[c].n, nacked |-> seen.nacked,
                            of |-> {st.in[i][1] : i \in (HeaderLen + 1)..(HeaderLen + r.len)}]}]
                     ELSE [seen EXCEPT !.nacked = TRUE]
    BY Zenon, <2>6 DEF SendRead, n, r
  <2>8. CASE r.type = "Ack"
    <3> DEFINE of == {st.in[i][1] : i \in (HeaderLen + 1)..(HeaderLen + r.len)}
               g == [n |-> calls[c].n, nacked |-> seen.nacked, of |-> of]
    <3>1. of \subseteq {n}
      <4>1. (HeaderLen + 1)..(HeaderLen + r.len) \subseteq 1..(HeaderLen + r.len)
        BY <2>3 DEF HeaderLen
      <4>2. \A i \in (HeaderLen + 1)..(HeaderLen + r.len) : st.in[i] = <<n, i>>
        BY Zenon, <2>4, <4>1
      <4>3. \A i \in (HeaderLen + 1)..(HeaderLen + r.len) : st.in[i][1] = n
        BY <4>2
      <4> QED
        BY Zenon, <4>3
    <3> HIDE DEF of
    <3>2. seen'.got = seen.got \cup {g} /\ seen'.nacked = seen.nacked
      BY <2>7, <2>8 DEF DoIpInv, DoIpShape, of
    <3>3. MineUntilNack'
      <4>1. g.of \subseteq {g.n}
        BY <2>1, <3>1
      <4> HIDE DEF g
      <4> QED
        BY Zenon, <3>2, <4>1 DEF DoIpInv, MineUntilNack
    <3>4. st'.in = <<>> /\ st'.conn = st.conn
      <4>1. SubSeq(st.in, HeaderLen + r.len + 1, Len(st.in)) = <<>>
        BY <2>3, <2>4 DEF HeaderLen
      <4>2. left(r) = <<>>
        BY Zenon, <4>1, <2>8 DEF left, after
      <4> QED
        BY <2>7, <4>2 DEF DoIpInv, DoIpShape
    <3>5. Between(st', n)
      BY Zenon, <1>2, <2>2, <3>4 DEF Between
    <3>6. DoIpLockstep'
      BY Zenon, <1>2, <1>3, <3>5 DEF DoIpLockstep, n
    <3> QED
      BY <1>3, <3>3, <3>6 DEF DoIpInv
  <2>9. CASE r.type # "Ack"
    <3>1. seen'.nacked = TRUE /\ seen'.got = seen.got
      BY <2>7, <2>9 DEF DoIpInv, DoIpShape
    <3> QED
      BY Zenon, <1>3, <3>1 DEF DoIpInv, DoIpLockstep, MineUntilNack
  <2> QED
    BY <2>8, <2>9
<1> QED
  BY <1>4, <1>5

LEMMA DoIpStep == DoIpInv /\ DoIpNext => DoIpInv'
<1> SUFFICES ASSUME DoIpInv, DoIpNext PROVE DoIpInv'
  OBVIOUS
<1>1. ASSUME NEW c \in Callers, SendFails(c) PROVE DoIpInv'
  <2>1. calls[c].pc = "read" /\ ~st.conn /\ st' = [st EXCEPT !.mu = FALSE] /\ goes(c, Idle) /\ seen' = seen
    BY Zenon, <1>1 DEF SendFails, at, returns
  <2>2. /\ DOMAIN st' = DOMAIN st /\ st'.mu = FALSE /\ st'.sends = st.sends /\ st'.reply = st.reply /\ st'.conn = st.conn
    BY <2>1 DEF DoIpInv, DoIpShape
  <2>3. DoIpShape'
    BY Zenon, <2>1, <2>2, DoIpReturns
  <2> QED
    BY Zenon, <2>1, <2>2, <2>3 DEF DoIpInv, DoIpLockstep, MineUntilNack
<1>2. CASE HandlerReturns \/ ClientClose \/ DoIpCloseBegin \/ DoIpCloseEnd
  <2>1. /\ calls' = calls /\ seen' = seen
        /\ \/ st' = [st EXCEPT !.handler = "done"] \/ st' = [st EXCEPT !.conn = FALSE]
           \/ st' = [st EXCEPT !.close = "waits"] \/ st' = [st EXCEPT !.close = "done"]
    BY Zenon, <1>2 DEF HandlerReturns, ClientClose, DoIpCloseBegin, DoIpCloseEnd
  <2>2. /\ DOMAIN st' = DOMAIN st /\ st'.mu = st.mu /\ st'.sends = st.sends /\ st'.reply = st.reply
        /\ st'.in = st.in /\ st'.out = st.out /\ (st'.conn => st.conn)
    BY <2>1 DEF DoIpInv, DoIpShape
  <2>3. DoIpShape'
    BY Zenon, <2>1, <2>2 DEF DoIpInv, DoIpShape
  <2>4. DoIpLockstep'
    BY Zenon, <2>1, <2>2 DEF DoIpInv, DoIpLockstep, Between, During
  <2> QED
    BY Zenon, <2>1, <2>3, <2>4 DEF DoIpInv, MineUntilNack
<1> QED
  BY Zenon, <1>1, <1>2, DoIpSends, DoIpHandles, DoIpReads DEF DoIpNext

-----------------------------------------------------------------------------
(* restbridge and grpcbridge. *)
(* Sequences of events. *)
LEMMA Associates ==
  ASSUME NEW a \in Seq(Nat), NEW b \in Seq(Nat), NEW c \in Seq(Nat)
  PROVE  (a \o b) \o c = a \o (b \o c)
BY SMTT(30)

LEMMA Joins ==
  ASSUME NEW a \in Seq(Nat), NEW b \in Seq(Nat)
  PROVE  /\ a \o b \in Seq(Nat) /\ Len(a \o b) = Len(a) + Len(b) /\ Range(a \o b) = Range(a) \cup Range(b)
         /\ \A i \in 1..(Len(a) + Len(b)) : (a \o b)[i] = IF i <= Len(a) THEN a[i] ELSE b[i - Len(a)]
<1> DEFINE c == a \o b
<1>1. /\ c \in Seq(Nat) /\ Len(c) = Len(a) + Len(b) /\ DOMAIN c = 1..(Len(a) + Len(b))
      /\ DOMAIN a = 1..Len(a) /\ DOMAIN b = 1..Len(b) /\ Len(a) \in Nat /\ Len(b) \in Nat
      /\ \A i \in 1..(Len(a) + Len(b)) : c[i] = IF i <= Len(a) THEN a[i] ELSE b[i - Len(a)]
  BY SMT
<1> HIDE DEF c
<1>2. ASSUME NEW i \in DOMAIN c PROVE c[i] \in Range(a) \cup Range(b)
  <2>1. CASE i <= Len(a)
    <3>1. i \in DOMAIN a /\ c[i] = a[i]
      BY <1>1, <2>1
    <3> QED
      BY Zenon, <3>1 DEF Range
  <2>2. CASE ~(i <= Len(a))
    <3>1. i - Len(a) \in DOMAIN b /\ c[i] = b[i - Len(a)]
      BY <1>1, <2>2
    <3> QED
      BY Zenon, <3>1 DEF Range
  <2> QED
    BY <2>1, <2>2
<1>3. ASSUME NEW i \in DOMAIN a PROVE a[i] \in Range(c)
  <2>1. i \in DOMAIN c /\ c[i] = a[i]
    BY SMTT(30), <1>1
  <2> QED
    BY Zenon, <2>1 DEF Range
<1>4. ASSUME NEW i \in DOMAIN b PROVE b[i] \in Range(c)
  <2> DEFINE j == Len(a) + i
  <2>1. j \in 1..(Len(a) + Len(b)) /\ ~(j <= Len(a)) /\ j - Len(a) = i
    BY SMTT(30), <1>1
  <2> HIDE DEF j
  <2>2. j \in DOMAIN c /\ c[j] = b[i]
    BY Zenon, <1>1, <2>1
  <2> QED
    BY Zenon, <2>2 DEF Range
<1>5. Range(c) = Range(a) \cup Range(b)
  BY Zenon, <1>2, <1>3, <1>4 DEF Range
<1> QED
  BY Zenon, <1>1, <1>5 DEF c

LEMMA Adds ==
  ASSUME NEW a \in Seq(Nat), NEW e \in Nat
  PROVE  /\ Append(a, e) \in Seq(Nat) /\ Len(Append(a, e)) = Len(a) + 1 /\ Append(a, e) = a \o <<e>>
         /\ Append(a, e)[Len(a) + 1] = e /\ \A i \in 1..Len(a) : Append(a, e)[i] = a[i]
BY SMT

(* What moves from the head of one channel to the end of the next stays    *)
(* where it is on the way.                                                 *)
LEMMA Moves ==
  ASSUME NEW a \in Seq(Nat), NEW b \in Seq(Nat), b # <<>>
  PROVE  /\ Append(a, Head(b)) \in Seq(Nat) /\ Tail(b) \in Seq(Nat)
         /\ Append(a, Head(b)) \o Tail(b) = a \o b
<1>1. Append(a, Head(b)) \in Seq(Nat) /\ Tail(b) \in Seq(Nat)
  BY SMT
<1>2. Append(a, Head(b)) \o Tail(b) = a \o b
  BY SMTT(30)
<1> QED
  BY Zenon, <1>1, <1>2

(* The events on the way, oldest first and none after the n-th. *)
InOrder(a, n) ==
  /\ a \in Seq(Nat)
  /\ \A i, j \in 1..Len(a) : i < j => a[i] < a[j]
  /\ \A i \in 1..Len(a) : a[i] <= n

LEMMA Appends ==
  ASSUME NEW a \in Seq(Nat), NEW q \in Seq(Nat), NEW n \in Nat, InOrder(a \o q, n)
  PROVE  /\ Append(q, n + 1) \in Seq(Nat) /\ InOrder(a \o Append(q, n + 1), n + 1)
         /\ Range(a \o Append(q, n + 1)) = Range(a \o q) \cup {n + 1}
<1> DEFINE one == <<n + 1>>
<1>0. Range(one) = {n + 1}
  BY DEF Range
<1>1. n + 1 \in Nat /\ Append(q, n + 1) = q \o one /\ one \in Seq(Nat)
  BY Adds
<1> HIDE DEF one
<1>2. a \o Append(q, n + 1) = (a \o q) \o one
  <2>1. (a \o q) \o one = a \o (q \o one)
    BY <1>1, Associates
  <2> QED
    BY Zenon, <1>1, <2>1
<1> DEFINE w == a \o q
<1>3. w \in Seq(Nat)
  BY Zenon DEF InOrder
<1> HIDE DEF w
<1>4. w \o one = Append(w, n + 1)
  BY Zenon, <1>1, <1>3, Adds DEF one
<1>5. InOrder(w, n)
  BY DEF w
<1> DEFINE v == Append(w, n + 1)
<1>6. /\ v \in Seq(Nat) /\ Len(v) = Len(w) + 1 /\ Len(w) \in Nat
      /\ v[Len(w) + 1] = n + 1 /\ \A i \in 1..Len(w) : v[i] = w[i] /\ w[i] \in Nat
  BY SMTT(30), <1>1, <1>3, Adds
<1> HIDE DEF v
<1>7. InOrder(v, n + 1)
  <2>1. \A i \in 1..Len(v) : i \in 1..Len(w) \/ i = Len(w) + 1
    BY <1>6
  <2>2. ASSUME NEW i \in 1..Len(v) PROVE v[i] <= n + 1
    <3>1. CASE i \in 1..Len(w)
      <4>1. v[i] <= n /\ v[i] \in Nat
        BY Zenon, <1>5, <1>6, <3>1 DEF InOrder
      <4> QED
        BY <4>1
    <3>2. CASE i = Len(w) + 1
      BY <1>6, <3>2
    <3> QED
      BY <2>1, <3>1, <3>2
  <2>3. ASSUME NEW i \in 1..Len(v), NEW j \in 1..Len(v), i < j PROVE v[i] < v[j]
    <3>1. i \in 1..Len(w)
      BY <1>6, <2>3
    <3>2. v[i] <= n /\ v[i] \in Nat /\ v[i] = w[i]
      BY Zenon, <1>5, <1>6, <3>1 DEF InOrder
    <3>3. CASE j = Len(w) + 1
      BY <1>6, <3>2, <3>3
    <3>4. CASE j \in 1..Len(w)
      BY Zenon, <1>5, <1>6, <2>3, <3>1, <3>2, <3>4 DEF InOrder
    <3> QED
      BY <2>1, <3>3, <3>4
  <2> QED
    BY Zenon, <1>6, <2>2, <2>3 DEF InOrder
<1>8. Range(v) = Range(w) \cup {n + 1}
  <2>1. Range(w \o one) = Range(w) \cup Range(one)
    BY <1>1, <1>3, Joins
  <2> QED
    BY Zenon, <1>0, <1>4, <2>1 DEF v
<1> QED
  BY Zenon, <1>1, <1>2, <1>4, <1>7, <1>8, Adds DEF v, w

(* A step that loses the head of b, on the way between a and c. *)
LEMMA Drops ==
  ASSUME NEW a \in Seq(Nat), NEW b \in Seq(Nat), NEW c \in Seq(Nat), b # <<>>, NEW n \in Nat,
         InOrder((a \o b) \o c, n)
  PROVE  /\ Tail(b) \in Seq(Nat) /\ InOrder((a \o Tail(b)) \o c, n)
         /\ Range((a \o b) \o c) \subseteq Range((a \o Tail(b)) \o c) \cup {Head(b)}
<1> DEFINE d == Tail(b) \o c
           h == Head(b)
<1>1. h \in Nat /\ Tail(b) \in Seq(Nat) /\ d \in Seq(Nat) /\ <<h>> \in Seq(Nat)
  BY Joins
<1>2. b = <<h>> \o Tail(b)
  BY SMT
<1>3. (a \o b) \o c = a \o (<<h>> \o d)
  <2>1. (a \o b) \o c = a \o (b \o c)
    BY Zenon, Associates
  <2>2. (<<h>> \o Tail(b)) \o c = <<h>> \o d
    BY Zenon, <1>1, Associates
  <2> QED
    BY Zenon, <1>2, <2>1, <2>2
<1>4. (a \o Tail(b)) \o c = a \o d
  BY Zenon, <1>1, Associates
<1> HIDE DEF d, h
<1>5. /\ a \o d \in Seq(Nat) /\ Len(a \o d) = Len(a) + Len(d)
      /\ \A i \in 1..(Len(a) + Len(d)) : (a \o d)[i] = IF i <= Len(a) THEN a[i] ELSE d[i - Len(a)]
  BY Zenon, <1>1, Joins
<1> DEFINE e == <<h>> \o d
<1>6. /\ e \in Seq(Nat) /\ Len(e) = 1 + Len(d) /\ e[1] = h /\ \A i \in 1..Len(d) : e[i + 1] = d[i]
  BY <1>1
<1> HIDE DEF e
<1>7. /\ a \o e \in Seq(Nat) /\ Len(a \o e) = Len(a) + Len(e)
      /\ \A i \in 1..(Len(a) + Len(e)) : (a \o e)[i] = IF i <= Len(a) THEN a[i] ELSE e[i - Len(a)]
  BY Zenon, <1>6, Joins
<1>8. InOrder(a \o e, n)
  BY Zenon, <1>3 DEF e
<1> DEFINE to(i) == IF i <= Len(a) THEN i ELSE i + 1
<1>9. Len(a) \in Nat /\ Len(d) \in Nat
  BY <1>1
<1>10. ASSUME NEW i \in 1..Len(a \o d) PROVE to(i) \in 1..Len(a \o e) /\ (a \o d)[i] = (a \o e)[to(i)]
  <2>1. /\ i \in 1..(Len(a) + Len(d)) /\ to(i) \in 1..(Len(a) + Len(e)) /\ Len(a \o e) = Len(a) + Len(e)
    BY SMTT(30), <1>5, <1>6, <1>7, <1>9
  <2>2. CASE i <= Len(a)
    BY Zenon, <1>5, <1>7, <2>1, <2>2
  <2>3. CASE ~(i <= Len(a))
    <3>1. to(i) = i + 1 /\ ~(i + 1 <= Len(a)) /\ (i + 1) - Len(a) = (i - Len(a)) + 1 /\ i - Len(a) \in 1..Len(d)
      BY <1>9, <2>1, <2>3
    <3>2. (a \o d)[i] = d[i - Len(a)] /\ (a \o e)[i + 1] = e[(i + 1) - Len(a)]
      BY Zenon, <1>5, <1>7, <2>1, <2>3, <3>1
    <3>3. e[(i - Len(a)) + 1] = d[i - Len(a)]
      BY Zenon, <1>6, <3>1
    <3> QED
      BY Zenon, <2>1, <3>1, <3>2, <3>3
  <2> QED
    BY Zenon, <2>2, <2>3
<1>11. \A i, j \in 1..Len(a \o d) : i < j => to(i) < to(j)
  BY SMTT(30), <1>5, <1>9
<1> HIDE DEF to
<1>12. InOrder(a \o d, n)
  BY Zenon, <1>5, <1>8, <1>10, <1>11 DEF InOrder
<1>13. Range(a \o e) = Range(a) \cup Range(e) /\ Range(a \o d) = Range(a) \cup Range(d)
  BY Zenon, <1>1, <1>6, Joins
<1>14. Range(e) = {h} \cup Range(d)
  <2>1. Range(<<h>>) = {h}
    BY DEF Range
  <2> QED
    BY Zenon, <1>1, <2>1, Joins DEF e
<1> QED
  BY Zenon, <1>1, <1>3, <1>4, <1>12, <1>13, <1>14 DEF e, h

StreamFields == {"pc", "joined", "queue", "wire", "out", "done", "closed", "grpc"}
onWay(x, h) == h.taken \o x.out \o x.wire \o x.queue

StreamShape(x, h) ==
  /\ DOMAIN x = StreamFields /\ DOMAIN h = {"since", "dropped", "taken"}
  /\ h.taken \in Seq(Nat) /\ x.out \in Seq(Nat) /\ x.wire \in Seq(Nat) /\ x.queue \in Seq(Nat)

(* Stream x with its history h after n events.  While it lasts, a stream   *)
(* of restbridge that Subscribe returned is joined.                        *)
StreamOk(x, h, n) ==
  /\ StreamShape(x, h) /\ InOrder(onWay(x, h), n)
  /\ ~x.done => h.since \subseteq Range(onWay(x, h)) \cup h.dropped
  /\ x.pc = "open" /\ ~x.done /\ ~x.grpc => x.joined

TelemetryInv ==
  /\ calls \in Nat /\ DOMAIN st = Subscribers /\ DOMAIN seen = Subscribers
  /\ \A s \in Subscribers : StreamOk(st[s], seen[s], calls)

LEMMA TelemetryInitial == TelemetryInit => TelemetryInv
<1> SUFFICES ASSUME TelemetryInit PROVE TelemetryInv
  OBVIOUS
<1>1. PICK grpc \in BOOLEAN : st = [s \in Subscribers |-> Stream(grpc)]
  BY Zenon DEF TelemetryInit
<1> DEFINE h == [since |-> {}, dropped |-> {}, taken |-> <<>>]
<1>2. calls = 0 /\ seen = [s \in Subscribers |-> h]
  BY Zenon DEF TelemetryInit
<1>3. StreamShape(Stream(grpc), h)
  BY DEF StreamShape, Stream, StreamFields
<1>4. onWay(Stream(grpc), h) = <<>>
  BY DEF onWay, Stream
<1>5. InOrder(<<>>, 0)
  BY DEF InOrder
<1>6. StreamOk(Stream(grpc), h, 0)
  <2>1. h.since = {} /\ Stream(grpc).pc = "none"
    BY DEF Stream
  <2> QED
    BY Zenon, <1>3, <1>4, <1>5, <2>1 DEF StreamOk
<1> HIDE DEF h
<1> QED
  BY <1>1, <1>2, <1>6 DEF TelemetryInv

LEMMA TelemetrySound == TelemetryInv => NoEventMissed
<1> SUFFICES ASSUME TelemetryInv, NEW s \in Subscribers
             PROVE  LET way == seen[s].taken \o st[s].out \o st[s].wire \o st[s].queue IN
                    /\ \A i, j \in DOMAIN way : i < j => way[i] < way[j]
                    /\ ~st[s].done => seen[s].since \subseteq Range(way) \cup seen[s].dropped
  BY Zenon DEF NoEventMissed
<1> DEFINE way == onWay(st[s], seen[s])
<1>1. StreamOk(st[s], seen[s], calls)
  BY Zenon DEF TelemetryInv
<1>2. InOrder(way, calls) /\ (~st[s].done => seen[s].since \subseteq Range(way) \cup seen[s].dropped)
  BY Zenon, <1>1 DEF StreamOk
<1> HIDE DEF way
<1>3. \A i, j \in DOMAIN way : i < j => way[i] < way[j]
  BY <1>2 DEF InOrder
<1> QED
  BY Zenon, <1>2, <1>3 DEF way, onWay

(* A step of stream s alone. *)
LEMMA StreamStep ==
  ASSUME TelemetryInv, NEW s \in Subscribers, NEW x, NEW h, StreamOk(x, h, calls),
         st' = [st EXCEPT ![s] = x], seen' = [seen EXCEPT ![s] = h], calls' = calls
  PROVE  TelemetryInv'
<1>1. /\ DOMAIN st' = Subscribers /\ DOMAIN seen' = Subscribers /\ st'[s] = x /\ seen'[s] = h
      /\ \A t \in Subscribers : t # s => st'[t] = st[t] /\ seen'[t] = seen[t]
  BY DEF TelemetryInv
<1> QED
  BY Zenon, <1>1 DEF TelemetryInv

LEMMA SetsStep ==
  ASSUME TelemetryInv, NEW s \in Subscribers, NEW x, StreamOk(x, seen[s], calls), sets(s, x)
  PROVE  TelemetryInv'
<1>1. st' = [st EXCEPT ![s] = x] /\ calls' = calls /\ seen' = seen
  BY Zenon DEF sets
<1>2. /\ DOMAIN st' = Subscribers /\ st'[s] = x /\ \A t \in Subscribers : t # s => st'[t] = st[t]
  BY <1>1 DEF TelemetryInv
<1> QED
  BY Zenon, <1>1, <1>2 DEF TelemetryInv

(* Joining, leaving, returning and ending move no event. *)
LEMMA StreamCalls ==
  ASSUME TelemetryInv, NEW s \in Subscribers,
         \/ TelemetrySubscribe(s) \/ HandlerJoins(s) \/ HandlerLeaves(s) \/ SubscribeReturns(s)
         \/ ReceiveEnds(s) \/ CancelStream(s)
  PROVE  TelemetryInv'
<1> DEFINE x == st[s]
           h == seen[s]
<1>0. StreamOk(x, h, calls)
  BY Zenon DEF TelemetryInv
<1>1. ASSUME NEW y, DOMAIN y = StreamFields, y.out = x.out, y.wire = x.wire, y.queue = x.queue,
             x.done => y.done, y.pc = "open" /\ ~y.done /\ ~y.grpc => y.joined, sets(s, y)
      PROVE  TelemetryInv'
  <2>1. onWay(y, h) = onWay(x, h)
    BY Zenon, <1>1 DEF onWay
  <2>2. StreamShape(y, h)
    BY Zenon, <1>0, <1>1 DEF StreamOk, StreamShape
  <2>3. StreamOk(y, h, calls)
    BY Zenon, <1>0, <1>1, <2>1, <2>2 DEF StreamOk
  <2> QED
    BY Zenon, <1>1, <2>3, SetsStep
<1>2. DOMAIN x = StreamFields /\ (x.pc = "open" /\ ~x.done /\ ~x.grpc => x.joined)
  BY Zenon, <1>0 DEF StreamOk, StreamShape
<1>3. CASE TelemetrySubscribe(s)
  <2> DEFINE y == [x EXCEPT !.pc = "dials"]
  <2>1. sets(s, y)
    BY Zenon, <1>3 DEF TelemetrySubscribe
  <2>2. DOMAIN y = StreamFields /\ y.out = x.out /\ y.wire = x.wire /\ y.queue = x.queue /\ y.done = x.done /\ y.pc = "dials"
    BY <1>2 DEF StreamFields
  <2> QED
    BY Zenon, <1>1, <2>1, <2>2
<1>4. CASE HandlerJoins(s)
  <2> DEFINE y == [x EXCEPT !.joined = TRUE]
  <2>1. sets(s, y)
    BY Zenon, <1>4 DEF HandlerJoins
  <2>2. DOMAIN y = StreamFields /\ y.out = x.out /\ y.wire = x.wire /\ y.queue = x.queue /\ y.done = x.done /\ y.joined = TRUE
    BY <1>2 DEF StreamFields
  <2> QED
    BY Zenon, <1>1, <2>1, <2>2
<1>5. CASE HandlerLeaves(s)
  <2> DEFINE y == [x EXCEPT !.joined = FALSE]
  <2>1. sets(s, y) /\ x.done
    BY Zenon, <1>5 DEF HandlerLeaves
  <2>2. DOMAIN y = StreamFields /\ y.out = x.out /\ y.wire = x.wire /\ y.queue = x.queue /\ y.done = x.done
    BY <1>2 DEF StreamFields
  <2> QED
    BY Zenon, <1>1, <2>1, <2>2
<1>6. CASE SubscribeReturns(s)
  <2> DEFINE y == [x EXCEPT !.pc = "open"]
  <2>1. sets(s, y) /\ (x.joined \/ x.grpc)
    BY Zenon, <1>6 DEF SubscribeReturns, mayReturn
  <2>2. /\ DOMAIN y = StreamFields /\ y.out = x.out /\ y.wire = x.wire /\ y.queue = x.queue /\ y.done = x.done
        /\ y.joined = x.joined /\ y.grpc = x.grpc
    BY <1>2 DEF StreamFields
  <2> HIDE DEF y
  <2> QED
    BY Zenon, <1>1, <2>1, <2>2
<1>7. CASE ReceiveEnds(s)
  <2> DEFINE y == [x EXCEPT !.closed = TRUE]
  <2>1. sets(s, y)
    BY Zenon, <1>7 DEF ReceiveEnds
  <2>2. /\ DOMAIN y = StreamFields /\ y.out = x.out /\ y.wire = x.wire /\ y.queue = x.queue /\ y.done = x.done
        /\ y.joined = x.joined /\ y.grpc = x.grpc /\ y.pc = x.pc
    BY <1>2 DEF StreamFields
  <2> HIDE DEF y
  <2> QED
    BY SMTT(30), <1>1, <1>2, <2>1, <2>2
<1>8. CASE CancelStream(s)
  <2> DEFINE y == [x EXCEPT !.done = TRUE]
  <2>1. sets(s, y)
    BY Zenon, <1>8 DEF CancelStream
  <2>2. DOMAIN y = StreamFields /\ y.out = x.out /\ y.wire = x.wire /\ y.queue = x.queue /\ y.done = TRUE
    BY <1>2 DEF StreamFields
  <2> QED
    BY Zenon, <1>1, <2>1, <2>2
<1> QED
  BY Zenon, <1>3, <1>4, <1>5, <1>6, <1>7, <1>8

(* The same events are on the way, and the stream is otherwise as it was. *)
LEMMA StreamMoves ==
  ASSUME NEW x, NEW h, NEW n, StreamOk(x, h, n), NEW y, NEW g, StreamShape(y, g), onWay(y, g) = onWay(x, h),
         g.since = h.since, g.dropped = h.dropped, y.done = x.done, y.pc = x.pc, y.grpc = x.grpc, y.joined = x.joined
  PROVE  StreamOk(y, g, n)
BY Zenon DEF StreamOk

LEMMA TelemetrySends ==
  ASSUME TelemetryInv, NEW s \in Subscribers, HandlerSends(s)
  PROVE  TelemetryInv'
<1> DEFINE x == st[s]
           h == seen[s]
           y == [x EXCEPT !.queue = Tail(x.queue), !.wire = Append(x.wire, Head(x.queue))]
           a == h.taken \o x.out
<1>1. x.queue # <<>> /\ sets(s, y)
  BY Zenon DEF HandlerSends
<1>2. StreamOk(x, h, calls) /\ StreamShape(x, h)
  BY Zenon DEF TelemetryInv, StreamOk
<1>3. /\ DOMAIN y = StreamFields /\ y.queue = Tail(x.queue) /\ y.wire = Append(x.wire, Head(x.queue)) /\ y.out = x.out
      /\ y.done = x.done /\ y.pc = x.pc /\ y.grpc = x.grpc /\ y.joined = x.joined
  BY <1>2 DEF StreamShape, StreamFields
<1>4. x.wire \in Seq(Nat) /\ x.queue \in Seq(Nat) /\ x.out \in Seq(Nat) /\ h.taken \in Seq(Nat)
  BY Zenon, <1>2 DEF StreamShape
<1> HIDE DEF y
<1>5. y.wire \in Seq(Nat) /\ y.queue \in Seq(Nat) /\ y.wire \o y.queue = x.wire \o x.queue
  <2>1. /\ Append(x.wire, Head(x.queue)) \in Seq(Nat) /\ Tail(x.queue) \in Seq(Nat)
        /\ Append(x.wire, Head(x.queue)) \o Tail(x.queue) = x.wire \o x.queue
    BY Zenon, <1>1, <1>4, Moves
  <2> QED
    BY Zenon, <1>3, <2>1
<1>6. a \in Seq(Nat)
  BY Zenon, <1>4, Joins
<1>7. (a \o y.wire) \o y.queue = (a \o x.wire) \o x.queue
  <2> HIDE DEF a, x
  <2>1. (a \o y.wire) \o y.queue = a \o (y.wire \o y.queue)
    BY Zenon, <1>5, <1>6, Associates
  <2>2. (a \o x.wire) \o x.queue = a \o (x.wire \o x.queue)
    BY Zenon, <1>4, <1>6, Associates
  <2> QED
    BY Zenon, <1>5, <2>1, <2>2
<1>8. onWay(y, h) = onWay(x, h)
  BY Zenon, <1>3, <1>7 DEF onWay
<1>9. StreamShape(y, h)
  BY Zenon, <1>2, <1>3, <1>5 DEF StreamShape
<1>10. StreamOk(y, h, calls)
  BY Zenon, <1>2, <1>3, <1>8, <1>9, StreamMoves
<1> QED
  BY Zenon, <1>1, <1>10, SetsStep

LEMMA TelemetryReceives ==
  ASSUME TelemetryInv, NEW s \in Subscribers, Receive(s)
  PROVE  TelemetryInv'
<1> DEFINE x == st[s]
           h == seen[s]
           e == Head(x.wire)
<1>1. x.wire # <<>>
  BY Zenon DEF Receive
<1>2. StreamOk(x, h, calls) /\ StreamShape(x, h) /\ calls \in Nat /\ h = seen[s] /\ x = st[s]
  BY Zenon DEF TelemetryInv, StreamOk
<1>3. x.wire \in Seq(Nat) /\ x.queue \in Seq(Nat) /\ x.out \in Seq(Nat) /\ h.taken \in Seq(Nat)
  BY Zenon, <1>2 DEF StreamShape
<1>4. ASSUME sets(s, [x EXCEPT !.wire = Tail(x.wire), !.out = Append(x.out, e)]) PROVE TelemetryInv'
  <2> DEFINE y == [x EXCEPT !.wire = Tail(x.wire), !.out = Append(x.out, e)]
  <2>1. /\ DOMAIN y = StreamFields /\ y.wire = Tail(x.wire) /\ y.out = Append(x.out, e) /\ y.queue = x.queue
        /\ y.done = x.done /\ y.pc = x.pc /\ y.grpc = x.grpc /\ y.joined = x.joined
    BY <1>2 DEF StreamShape, StreamFields
  <2> HIDE DEF y
  <2>2. y.wire \in Seq(Nat) /\ y.out \in Seq(Nat) /\ y.out \o y.wire = x.out \o x.wire
    BY Zenon, <1>1, <1>3, <2>1, Moves
  <2>3. (h.taken \o y.out) \o y.wire = (h.taken \o x.out) \o x.wire
    <3> HIDE DEF h, x
    <3>1. (h.taken \o y.out) \o y.wire = h.taken \o (y.out \o y.wire)
      BY Zenon, <1>3, <2>2, Associates
    <3>2. (h.taken \o x.out) \o x.wire = h.taken \o (x.out \o x.wire)
      BY Zenon, <1>3, Associates
    <3> QED
      BY Zenon, <2>2, <3>1, <3>2
  <2>4. onWay(y, h) = onWay(x, h)
    BY Zenon, <2>1, <2>3 DEF onWay
  <2>5. StreamShape(y, h)
    BY Zenon, <1>2, <1>3, <2>1, <2>2 DEF StreamShape
  <2>6. StreamOk(y, h, calls)
    BY Zenon, <1>2, <2>1, <2>4, <2>5, StreamMoves
  <2> QED
    BY Zenon, <1>4, <2>6, SetsStep DEF y
<1>5. ASSUME st' = [st EXCEPT ![s].wire = Tail(@)], seen' = [seen EXCEPT ![s].dropped = @ \cup {e}], UNCHANGED calls
      PROVE  TelemetryInv'
  <2> DEFINE y == [x EXCEPT !.wire = Tail(x.wire)]
             g == [h EXCEPT !.dropped = h.dropped \cup {e}]
             a == h.taken \o x.out
  <2>1. st' = [st EXCEPT ![s] = y] /\ seen' = [seen EXCEPT ![s] = g] /\ calls' = calls
    BY Zenon, <1>5
  <2>2. /\ DOMAIN y = StreamFields /\ y.wire = Tail(x.wire) /\ y.out = x.out /\ y.queue = x.queue
        /\ y.done = x.done /\ y.pc = x.pc /\ y.grpc = x.grpc /\ y.joined = x.joined
        /\ DOMAIN g = DOMAIN h /\ g.dropped = h.dropped \cup {e} /\ g.since = h.since /\ g.taken = h.taken
    BY <1>2 DEF StreamShape, StreamFields
  <2> HIDE DEF y, g
  <2>3. a \in Seq(Nat) /\ InOrder((a \o x.wire) \o x.queue, calls)
    BY Zenon, <1>2, <1>3, Joins DEF StreamOk, onWay
  <2> DEFINE old == (a \o x.wire) \o x.queue
             new == (a \o Tail(x.wire)) \o x.queue
  <2>4. Tail(x.wire) \in Seq(Nat) /\ InOrder(new, calls) /\ Range(old) \subseteq Range(new) \cup {e}
    BY Zenon, <1>1, <1>2, <1>3, <2>3, Drops
  <2>5. onWay(x, h) = old /\ onWay(y, g) = new
    BY Zenon, <2>2 DEF onWay
  <2> HIDE DEF old, new
  <2>6. StreamShape(y, g)
    BY Zenon, <1>2, <1>3, <2>2, <2>4 DEF StreamShape
  <2>7. ~y.done => g.since \subseteq Range(new) \cup g.dropped
    BY Zenon, <1>2, <2>2, <2>4, <2>5 DEF StreamOk
  <2>8. StreamOk(y, g, calls)
    BY Zenon, <1>2, <2>2, <2>4, <2>5, <2>6, <2>7 DEF StreamOk
  <2> QED
    BY Zenon, <2>1, <2>8, StreamStep
<1> QED
  BY Zenon, <1>4, <1>5 DEF Receive

LEMMA TelemetryTakes ==
  ASSUME TelemetryInv, NEW s \in Subscribers, Take(s)
  PROVE  TelemetryInv'
<1> DEFINE x == st[s]
           h == seen[s]
           y == [x EXCEPT !.out = Tail(x.out)]
           g == [h EXCEPT !.taken = Append(h.taken, Head(x.out))]
<1>1. x.out # <<>> /\ st' = [st EXCEPT ![s] = y] /\ seen' = [seen EXCEPT ![s] = g] /\ calls' = calls
  BY Zenon DEF Take
<1>2. StreamOk(x, h, calls) /\ StreamShape(x, h)
  BY Zenon DEF TelemetryInv, StreamOk
<1>3. x.out \in Seq(Nat) /\ h.taken \in Seq(Nat)
  BY Zenon, <1>2 DEF StreamShape
<1>4. /\ DOMAIN y = StreamFields /\ y.wire = x.wire /\ y.out = Tail(x.out) /\ y.queue = x.queue
      /\ y.done = x.done /\ y.pc = x.pc /\ y.grpc = x.grpc /\ y.joined = x.joined
      /\ DOMAIN g = DOMAIN h /\ g.dropped = h.dropped /\ g.since = h.since /\ g.taken = Append(h.taken, Head(x.out))
  BY <1>2 DEF StreamShape, StreamFields
<1> HIDE DEF y, g
<1>5. g.taken \in Seq(Nat) /\ y.out \in Seq(Nat) /\ g.taken \o y.out = h.taken \o x.out
  BY Zenon, <1>1, <1>3, <1>4, Moves
<1>6. onWay(y, g) = onWay(x, h)
  BY Zenon, <1>4, <1>5 DEF onWay
<1>7. StreamShape(y, g)
  BY Zenon, <1>2, <1>4, <1>5 DEF StreamShape
<1>8. StreamOk(y, g, calls)
  BY Zenon, <1>2, <1>4, <1>6, <1>7, StreamMoves
<1> QED
  BY Zenon, <1>1, <1>8, StreamStep

LEMMA TelemetryPublishes ==
  ASSUME TelemetryInv, PublishTelemetry
  PROVE  TelemetryInv'
<1> DEFINE e == calls + 1
           full(s) == Len(st[s].queue) >= Capacity
           y(s) == IF st[s].joined /\ ~full(s) THEN [st[s] EXCEPT !.queue = Append(st[s].queue, e)] ELSE st[s]
           g(s) == [seen[s] EXCEPT !.since = IF counts(s) THEN seen[s].since \cup {e} ELSE seen[s].since,
                                   !.dropped = IF st[s].joined /\ full(s) THEN seen[s].dropped \cup {e} ELSE seen[s].dropped]
<1>1. calls' = e /\ st' = [s \in Subscribers |-> y(s)] /\ seen' = [s \in Subscribers |-> g(s)]
  BY Zenon DEF PublishTelemetry
<1>2. calls \in Nat /\ e \in Nat
  BY DEF TelemetryInv
<1>3. ASSUME NEW s \in Subscribers PROVE StreamOk(y(s), g(s), e)
  <2> DEFINE x == st[s]
             h == seen[s]
             since == IF counts(s) THEN h.since \cup {e} ELSE h.since
             dropped == IF x.joined /\ full(s) THEN h.dropped \cup {e} ELSE h.dropped
             z == [x EXCEPT !.queue = Append(x.queue, e)]
  <2>1. StreamOk(x, h, calls) /\ StreamShape(x, h)
    BY Zenon DEF TelemetryInv, StreamOk
  <2>2. /\ DOMAIN g(s) = DOMAIN h /\ g(s).since = since /\ g(s).dropped = dropped /\ g(s).taken = h.taken
    BY <2>1 DEF StreamShape
  <2>3. /\ DOMAIN z = StreamFields /\ z.wire = x.wire /\ z.out = x.out /\ z.queue = Append(x.queue, e)
        /\ z.done = x.done /\ z.pc = x.pc /\ z.grpc = x.grpc /\ z.joined = x.joined
    BY <2>1 DEF StreamShape, StreamFields
  <2>4. y(s) = IF x.joined /\ ~full(s) THEN z ELSE x
    OBVIOUS
  <2>5. since \subseteq h.since \cup {e} /\ h.dropped \subseteq dropped
    OBVIOUS
  <2>6. x.joined /\ full(s) => e \in dropped
    OBVIOUS
  <2>7. counts(s) => x.joined
    BY Zenon, <2>1 DEF counts, StreamOk
  <2>8. ~x.joined => since = h.since
    BY Zenon, <2>7
  <2>9. StreamShape(x, g(s)) /\ onWay(x, g(s)) = onWay(x, h)
    BY Zenon, <2>1, <2>2 DEF StreamShape, onWay
  <2>10. ~x.done => h.since \subseteq Range(onWay(x, h)) \cup h.dropped
    BY Zenon, <2>1 DEF StreamOk
  <2>11. InOrder(onWay(x, h), calls)
    BY Zenon, <2>1 DEF StreamOk
  <2> HIDE DEF y, g, full, z, since, dropped
  <2>12. CASE x.joined /\ ~full(s)
    <3> DEFINE a == h.taken \o x.out \o x.wire
    <3>1. a \in Seq(Nat) /\ x.queue \in Seq(Nat) /\ onWay(x, h) = a \o x.queue
      BY Zenon, <2>1, Joins DEF StreamShape, onWay
    <3>2. onWay(z, g(s)) = a \o Append(x.queue, e)
      BY Zenon, <2>2, <2>3 DEF onWay
    <3> HIDE DEF a
    <3>3. /\ Append(x.queue, e) \in Seq(Nat) /\ InOrder(onWay(z, g(s)), e)
          /\ Range(onWay(z, g(s))) = Range(onWay(x, h)) \cup {e}
      <4>1. InOrder(a \o x.queue, calls)
        BY Zenon, <2>11, <3>1
      <4>2. /\ Append(x.queue, calls + 1) \in Seq(Nat) /\ InOrder(a \o Append(x.queue, calls + 1), calls + 1)
            /\ Range(a \o Append(x.queue, calls + 1)) = Range(a \o x.queue) \cup {calls + 1}
        BY Zenon, <1>2, <3>1, <4>1, Appends
      <4> QED
        BY Zenon, <3>1, <3>2, <4>2
    <3>4. StreamShape(z, g(s))
      BY Zenon, <2>1, <2>2, <2>3, <3>3 DEF StreamShape
    <3>5. ~z.done => g(s).since \subseteq Range(onWay(z, g(s))) \cup g(s).dropped
      BY Zenon, <2>2, <2>3, <2>5, <2>10, <3>3
    <3>6. StreamOk(z, g(s), e)
      BY Zenon, <2>1, <2>3, <3>3, <3>4, <3>5 DEF StreamOk
    <3> QED
      BY Zenon, <2>4, <2>12, <3>6
  <2>13. CASE ~(x.joined /\ ~full(s))
    <3>1. InOrder(onWay(x, h), e)
      BY SMTT(30), <1>2, <2>11 DEF InOrder
    <3>2. ~x.done => g(s).since \subseteq Range(onWay(x, h)) \cup g(s).dropped
      BY Zenon, <2>2, <2>5, <2>6, <2>8, <2>10, <2>13
    <3>3. StreamOk(x, g(s), e)
      BY Zenon, <2>1, <2>9, <3>1, <3>2 DEF StreamOk
    <3> QED
      BY Zenon, <2>4, <2>13, <3>3
  <2> QED
    BY <2>12, <2>13
<1> HIDE DEF e, y, g
<1> QED
  BY <1>1, <1>2, <1>3 DEF TelemetryInv

LEMMA TelemetryStep == TelemetryInv /\ TelemetryNext => TelemetryInv'
BY Zenon, StreamCalls, TelemetrySends, TelemetryReceives, TelemetryTakes, TelemetryPublishes DEF TelemetryNext

-----------------------------------------------------------------------------
(* mqttbr. *)
Distinct(a, P) == \A i, j \in P : a[i] = a[j] => i = j
Entries(a, P) == {a[i] : i \in P}
Known == MqttClients \cup {BridgeClient}

LEMMA EntriesGrow ==
  ASSUME NEW a, NEW b, NEW P, NEW q, q \notin P, \A i \in P : b[i] = a[i]
  PROVE  /\ Entries(b, P \cup {q}) = Entries(a, P) \cup {b[q]}
         /\ Distinct(a, P) /\ b[q] \notin Entries(a, P) => Distinct(b, P \cup {q})
<1>1. Entries(b, P \cup {q}) \subseteq Entries(a, P) \cup {b[q]}
  BY Zenon DEF Entries
<1>2. Entries(a, P) \cup {b[q]} \subseteq Entries(b, P \cup {q})
  BY Zenon DEF Entries
<1>3. Distinct(a, P) /\ b[q] \notin Entries(a, P) => Distinct(b, P \cup {q})
  BY Zenon DEF Entries, Distinct
<1> QED
  BY Zenon, <1>1, <1>2, <1>3

LEMMA EntriesDrop ==
  ASSUME NEW a, NEW P, NEW q \in P, Distinct(a, P)
  PROVE  Entries(a, P \ {q}) = Entries(a, P) \ {a[q]} /\ Distinct(a, P \ {q})
<1>1. Entries(a, P \ {q}) \subseteq Entries(a, P) \ {a[q]}
  BY Zenon DEF Entries, Distinct
<1>2. Entries(a, P) \ {a[q]} \subseteq Entries(a, P \ {q})
  BY Zenon DEF Entries
<1>3. Distinct(a, P \ {q})
  BY Zenon DEF Distinct
<1> QED
  BY Zenon, <1>1, <1>2, <1>3

(* The slice of subscribers, but for the entry that unsubscribe is about   *)
(* to fill, holds each one once.                                           *)
SliceOk(s, subscribed) ==
  LET cur == s.arrays[s.subs.arr]
      places == (1..s.subs.len) \ {s.removing} IN
  Distinct(cur, places) /\ subscribed = Entries(cur, places)

SliceShape(s) ==
  /\ s.arrays \in Seq(Seq(Known)) /\ \A a \in 1..Len(s.arrays) : Len(s.arrays[a]) > 0
  /\ DOMAIN s.subs = {"arr", "len"} /\ s.subs.arr \in 1..Len(s.arrays)
  /\ s.subs.len \in 0..Len(s.arrays[s.subs.arr]) /\ s.removing \in 0..s.subs.len

(* A publish that nothing overlapped walks over entries that stay as they  *)
(* are: its array is full or the slice only grows beyond them.             *)
Walks(p, s) ==
  /\ s.removing = 0 /\ p.arr \in 1..Len(s.arrays)
  /\ p.len \in 0..Len(s.arrays[p.arr]) /\ p.next \in 1..(p.len + 1)
  /\ p.arr = s.subs.arr => p.len <= s.subs.len
  /\ Distinct(s.arrays[p.arr], 1..p.len) /\ p.due = Entries(s.arrays[p.arr], p.next..p.len)

PublishFields == {"pc", "arr", "next", "len", "due", "once", "overlapped"}
PublishOk(p, s) ==
  p.pc = "publish" =>
    /\ DOMAIN p = PublishFields /\ p.once = TRUE
    /\ (p.overlapped = TRUE /\ p.due = {}) \/ (p.overlapped = FALSE /\ Walks(p, s))

MqttShape ==
  /\ DOMAIN st = {"bridge", "arrays", "subs", "removing", "closed", "msgs"} /\ BridgeOk(st.bridge)
  /\ DOMAIN seen = {"late", "delivered", "subscribed"} /\ seen = [x \in DOMAIN seen |-> seen[x]]
  /\ seen.late = FALSE /\ seen.delivered = TRUE
  /\ calls = [c \in Callers |-> calls[c]]

MqttSlice == SliceShape(st) /\ SliceOk(st, seen.subscribed)
MqttWalks == \A c \in Callers : PublishOk(calls[c], st)

MqttInv == MqttShape /\ MqttSlice /\ MqttWalks

LEMMA MqttInitial == MqttInit => MqttInv
<1> SUFFICES ASSUME MqttInit PROVE MqttInv
  OBVIOUS
<1>1. calls = [c \in Callers |-> Idle] /\ Idle.pc = "idle"
  BY Zenon DEF MqttInit, CallsInit, Idle
<1>2. /\ DOMAIN st = {"bridge", "arrays", "subs", "removing", "closed", "msgs"} /\ st.bridge = NewBridge
      /\ st.arrays = <<<<BridgeClient>>>> /\ st.subs = [arr |-> 1, len |-> 1] /\ st.removing = 0
      /\ DOMAIN seen = {"late", "delivered", "subscribed"} /\ seen = [x \in DOMAIN seen |-> seen[x]]
      /\ seen.late = FALSE /\ seen.delivered = TRUE /\ seen.subscribed = {BridgeClient}
  BY DEF MqttInit
<1>3. MqttShape
  BY Zenon, <1>1, <1>2, NewBridgeOk DEF MqttShape
<1>4. SliceShape(st)
  BY <1>2 DEF SliceShape, Known
<1>5. SliceOk(st, seen.subscribed)
  <2>1. st.arrays[st.subs.arr] = <<BridgeClient>> /\ (1..st.subs.len) \ {st.removing} = {1}
    BY <1>2
  <2> DEFINE a == <<BridgeClient>>
  <2>2. a[1] = BridgeClient
    OBVIOUS
  <2> HIDE DEF a
  <2>3. Distinct(a, {1}) /\ Entries(a, {1}) = {BridgeClient}
    BY Zenon, <2>2 DEF Distinct, Entries
  <2> QED
    BY Zenon, <1>2, <2>1, <2>3 DEF SliceOk, a
<1>6. MqttWalks
  BY <1>1 DEF MqttWalks, PublishOk
<1> QED
  BY <1>3, <1>4, <1>5, <1>6 DEF MqttInv, MqttSlice

LEMMA MqttSound == MqttInv => QuietAfterClose /\ DeliveredOnce
BY Zenon DEF MqttInv, MqttShape, QuietAfterClose, DeliveredOnce

(* What leaves the entries below a publish's length alone leaves it right. *)
LEMMA WalksOn ==
  ASSUME NEW p, NEW s, NEW t, Walks(p, s), t.removing = 0, p.arr \in 1..Len(t.arrays),
         p.len <= Len(t.arrays[p.arr]), Len(t.arrays[p.arr]) \in Nat,
         \A i \in 1..p.len : t.arrays[p.arr][i] = s.arrays[p.arr][i],
         p.arr = t.subs.arr => p.len <= t.subs.len
  PROVE  Walks(p, t)
<1>1. p.len \in Nat /\ p.next \in 1..(p.len + 1)
  BY DEF Walks
<1>2. p.len \in 0..Len(t.arrays[p.arr]) /\ p.next..p.len \subseteq 1..p.len
  BY <1>1
<1>3. Distinct(t.arrays[p.arr], 1..p.len)
  BY Zenon DEF Walks, Distinct
<1>4. Entries(t.arrays[p.arr], p.next..p.len) = Entries(s.arrays[p.arr], p.next..p.len)
  BY Zenon, <1>2 DEF Entries
<1> QED
  BY Zenon, <1>1, <1>2, <1>3, <1>4 DEF Walks

(* Where the slice is not touched. *)
LEMMA MqttElsewhere ==
  ASSUME MqttInv, st'.arrays = st.arrays, st'.subs = st.subs, st'.removing = st.removing,
         seen'.subscribed = seen.subscribed
  PROVE  MqttSlice' /\ \A p : PublishOk(p, st) => PublishOk(p, st')
<1>1. MqttSlice'
  BY Zenon DEF MqttInv, MqttSlice, SliceShape, SliceOk
<1>2. \A p : Walks(p, st) => Walks(p, st')
  BY Zenon DEF Walks
<1> QED
  BY Zenon, <1>1, <1>2 DEF PublishOk

LEMMA ListIs ==
  ASSUME MqttInv, unlocked
  PROVE  LET cur == st.arrays[st.subs.arr] IN
         /\ cur \in Seq(Known) /\ Len(cur) > 0 /\ Len(cur) \in Nat /\ st.subs.len \in 0..Len(cur)
         /\ Distinct(cur, 1..st.subs.len) /\ seen.subscribed = Entries(cur, 1..st.subs.len)
         /\ Range(list) = Entries(cur, 1..st.subs.len) /\ \A i \in 1..st.subs.len : list[i] = cur[i]
<1> DEFINE cur == st.arrays[st.subs.arr]
           n == st.subs.len
<1>1. cur \in Seq(Known) /\ Len(cur) > 0 /\ n \in 0..Len(cur) /\ Len(cur) \in Nat
  BY SMTT(30) DEF MqttInv, MqttSlice, SliceShape
<1>2. (1..n) \ {st.removing} = 1..n
  BY <1>1 DEF unlocked
<1>3. Distinct(cur, 1..n) /\ seen.subscribed = Entries(cur, 1..n)
  BY Zenon, <1>2 DEF MqttInv, MqttSlice, SliceOk
<1>4. list = SubSeq(cur, 1, n)
  BY Zenon DEF list
<1> HIDE DEF cur, n
<1>5. Len(list) = n /\ DOMAIN list = 1..n /\ \A i \in 1..n : list[i] = cur[i]
  BY <1>1, <1>4
<1>6. Range(list) = Entries(cur, 1..n)
  BY Zenon, <1>5 DEF Range, Entries
<1> QED
  BY Zenon, <1>1, <1>3, <1>5, <1>6 DEF cur, n

(* append in place, and in a new array. *)
LEMMA MqttSubscribes ==
  ASSUME MqttInv, NEW k \in MqttClients, MqttSubscribe(k)
  PROVE  MqttInv'
<1> DEFINE a == st.subs.arr
           n == st.subs.len
           cur == st.arrays[a]
           new == st'.arrays[a]
<1>1. unlocked /\ k \notin Range(list) /\ calls' = calls /\ k \in Known
  BY Zenon DEF MqttSubscribe, Known
<1>2. /\ cur \in Seq(Known) /\ Len(cur) > 0 /\ Len(cur) \in Nat /\ n \in 0..Len(cur)
      /\ Distinct(cur, 1..n) /\ seen.subscribed = Entries(cur, 1..n) /\ k \notin Entries(cur, 1..n)
  BY Zenon, <1>1, ListIs
<1>3. /\ st.arrays \in Seq(Seq(Known)) /\ a \in 1..Len(st.arrays) /\ DOMAIN st.subs = {"arr", "len"}
      /\ \A i \in 1..Len(st.arrays) : Len(st.arrays[i]) > 0
  BY Zenon DEF MqttInv, MqttSlice, SliceShape
<1>4. st.removing = 0
  BY <1>1 DEF unlocked
<1>5. seen' = [seen EXCEPT !.subscribed = @ \cup {k}]
  BY Zenon DEF MqttSubscribe
<1>6. seen'.subscribed = seen.subscribed \cup {k}
  BY <1>5 DEF MqttInv, MqttShape
<1>7. DOMAIN st' = DOMAIN st /\ st'.bridge = st.bridge /\ st'.removing = 0
  BY <1>4 DEF MqttSubscribe, MqttInv, MqttShape
<1>8. MqttShape'
  BY Zenon, <1>1, <1>5, <1>7 DEF MqttInv, MqttShape
<1>9. /\ SliceShape(st') /\ st'.subs.len = n + 1
      /\ st'.arrays[st'.subs.arr][n + 1] = k
      /\ \A i \in 1..n : st'.arrays[st'.subs.arr][i] = cur[i]
      /\ \A i \in 1..Len(st.arrays) :
           /\ i \in 1..Len(st'.arrays) /\ Len(st'.arrays[i]) = Len(st.arrays[i])
           /\ \A j \in 1..Len(st.arrays[i]) : (i = a => j <= n) => st'.arrays[i][j] = st.arrays[i][j]
           /\ i = st'.subs.arr => i = a
  <2>1. CASE n < Len(cur)
    <3>1. st' = [st EXCEPT !.arrays[a][n + 1] = k, !.subs.len = @ + 1]
      BY <2>1 DEF MqttSubscribe
    <3>2. /\ st'.arrays = [st.arrays EXCEPT ![a] = [cur EXCEPT ![n + 1] = k]]
          /\ st'.subs = [st.subs EXCEPT !.len = n + 1]
      BY <3>1, <1>3 DEF MqttInv, MqttShape
    <3> HIDE DEF a, n, cur
    <3>3. [cur EXCEPT ![n + 1] = k] \in Seq(Known) /\ Len([cur EXCEPT ![n + 1] = k]) = Len(cur)
      BY <1>1, <1>2, <2>1
    <3>4. /\ st'.arrays \in Seq(Seq(Known)) /\ Len(st'.arrays) = Len(st.arrays)
          /\ st'.arrays[a] = [cur EXCEPT ![n + 1] = k]
          /\ \A i \in 1..Len(st.arrays) : i # a => st'.arrays[i] = st.arrays[i]
      BY <3>2, <3>3, <1>3 DEF a
    <3>5. st'.subs.arr = a /\ st'.subs.len = n + 1 /\ DOMAIN st'.subs = {"arr", "len"}
      BY <3>2, <1>3 DEF a
    <3>6. n + 1 \in 1..Len(cur) /\ n \in Nat
      BY <2>1, <1>2
    <3>7. st'.arrays[a][n + 1] = k /\ \A i \in 1..n : st'.arrays[a][i] = cur[i]
      BY <3>4, <3>6, <1>2
    <3>8. cur = st.arrays[a]
      BY DEF cur, a
    <3>9. \A i \in 1..Len(st.arrays) : Len(st'.arrays[i]) = Len(st.arrays[i])
      BY Zenon, <3>3, <3>4, <3>8
    <3>10. ASSUME NEW i \in 1..Len(st.arrays), NEW j \in 1..Len(st.arrays[i]), i = a => j <= n
           PROVE  st'.arrays[i][j] = st.arrays[i][j]
      <4>1. CASE i = a
        <5>1. j \in 1..n
          BY <4>1, <3>6, <3>8, <3>10, <1>2
        <5> QED
          BY Zenon, <4>1, <5>1, <3>7, <3>8
      <4> QED
        BY Zenon, <4>1, <3>4
    <3>11. SliceShape(st')
      <4>1. \A i \in 1..Len(st'.arrays) : Len(st'.arrays[i]) > 0
        BY Zenon, <3>4, <3>9, <1>3
      <4>2. n + 1 \in 0..Len(st'.arrays[a]) /\ 0 \in 0..(n + 1)
        BY <3>3, <3>4, <3>6, <1>2
      <4> QED
        BY Zenon, <4>1, <4>2, <3>4, <3>5, <1>3, <1>7 DEF SliceShape
    <3> QED
      BY Zenon, <3>4, <3>5, <3>7, <3>9, <3>10, <3>11 DEF n
  <2>2. CASE ~(n < Len(cur))
    <3> DEFINE fresh == [i \in 1..(2 * Len(cur)) |-> IF i <= Len(cur) THEN cur[i] ELSE k]
    <3>1. st' = [st EXCEPT !.arrays = Append(@, fresh), !.subs = [arr |-> Len(st.arrays) + 1, len |-> n + 1]]
      BY <2>2 DEF MqttSubscribe
    <3>2. /\ st'.arrays = Append(st.arrays, fresh)
          /\ st'.subs = [arr |-> Len(st.arrays) + 1, len |-> n + 1]
      BY Zenon, <3>1 DEF MqttInv, MqttShape
    <3> HIDE DEF a, n, cur
    <3>3. n = Len(cur)
      BY <2>2, <1>2
    <3>4. fresh \in Seq(Known) /\ Len(fresh) = 2 * Len(cur)
      <4>1. \A i \in 1..(2 * Len(cur)) : fresh[i] \in Known
        BY <1>1, <1>2
      <4>2. fresh \in [1..(2 * Len(cur)) -> Known]
        BY Zenon, <4>1
      <4> QED
        BY <4>2, <1>2
    <3>5. n + 1 \in 1..(2 * Len(cur)) /\ fresh[n + 1] = k /\ \A i \in 1..n : fresh[i] = cur[i]
      BY <3>3, <1>2
    <3> HIDE DEF fresh
    <3>6. /\ st'.arrays \in Seq(Seq(Known)) /\ Len(st'.arrays) = Len(st.arrays) + 1
          /\ st'.arrays[Len(st.arrays) + 1] = fresh
          /\ \A i \in 1..Len(st.arrays) : st'.arrays[i] = st.arrays[i]
      BY <3>2, <3>4, <1>3
    <3>7. st'.subs.arr = Len(st.arrays) + 1 /\ st'.subs.len = n + 1 /\ DOMAIN st'.subs = {"arr", "len"}
      BY <3>2
    <3> DEFINE l == Len(st.arrays)
    <3>a. l \in Nat
      BY <1>3
    <3> HIDE DEF l
    <3>b. /\ \A i \in 1..(l + 1) : i \in 1..l \/ i = l + 1
          /\ \A i \in 1..l : i \in 1..(l + 1) /\ i # l + 1
          /\ l + 1 \in 1..(l + 1)
      BY <3>a
    <3>8. SliceShape(st')
      <4>1. Len(fresh) > 0 /\ n + 1 \in 0..Len(fresh) /\ 0 \in 0..(n + 1)
        BY <3>4, <3>5, <1>2
      <4>2. \A i \in 1..Len(st'.arrays) : Len(st'.arrays[i]) > 0
        BY Zenon, <3>6, <3>b, <4>1, <1>3 DEF l
      <4> QED
        BY Zenon, <3>6, <3>7, <3>b, <4>1, <4>2, <1>7 DEF SliceShape, l
    <3>9. \A i \in 1..Len(st.arrays) : i \in 1..Len(st'.arrays) /\ i # st'.subs.arr
      BY Zenon, <3>6, <3>7, <3>b DEF l
    <3> QED
      BY Zenon, <3>5, <3>6, <3>7, <3>8, <3>9 DEF n
  <2> QED
    BY Zenon, <2>1, <2>2
<1>10. SliceOk(st', seen'.subscribed)
  <2> DEFINE next == st'.arrays[st'.subs.arr]
  <2> HIDE DEF a, n, cur
  <2>1. (1..st'.subs.len) \ {st'.removing} = 1..(n + 1)
    <3>1. (1..(n + 1)) \ {0} = 1..(n + 1)
      BY <1>2
    <3> QED
      BY Zenon, <3>1, <1>7, <1>9
  <2>2. next[n + 1] = k /\ \A i \in 1..n : next[i] = cur[i]
    BY Zenon, <1>9
  <2>3. n \in Nat /\ 1..(n + 1) = (1..n) \cup {n + 1} /\ n + 1 \notin 1..n
    BY <1>2
  <2> HIDE DEF next
  <2> DEFINE P == 1..n
             q == n + 1
  <2>a. q \notin P /\ (\A i \in P : next[i] = cur[i]) /\ 1..(n + 1) = P \cup {q} /\ next[q] = k
    BY Zenon, <2>2, <2>3
  <2>b. Distinct(cur, P) /\ k \notin Entries(cur, P)
    BY Zenon, <1>2
  <2> HIDE DEF P, q
  <2>c. /\ Entries(next, P \cup {q}) = Entries(cur, P) \cup {next[q]}
        /\ Distinct(cur, P) /\ next[q] \notin Entries(cur, P) => Distinct(next, P \cup {q})
    BY Zenon, <2>a, EntriesGrow
  <2>4. Distinct(next, 1..(n + 1))
    BY Zenon, <2>a, <2>b, <2>c
  <2>5. Entries(next, 1..(n + 1)) = Entries(cur, 1..n) \cup {k}
    BY Zenon, <2>a, <2>c DEF P
  <2> QED
    BY Zenon, <2>1, <2>4, <2>5, <1>2, <1>6 DEF SliceOk, next
<1>11. ASSUME NEW c \in Callers PROVE PublishOk(calls[c], st')
  <2>1. PublishOk(calls[c], st)
    BY Zenon DEF MqttInv, MqttWalks
  <2>2. ASSUME Walks(calls[c], st) PROVE Walks(calls[c], st')
    <3> DEFINE p == calls[c]
    <3>1. /\ p.arr \in 1..Len(st.arrays) /\ p.len \in 0..Len(st.arrays[p.arr])
          /\ p.arr = a => p.len <= n
      BY Zenon, <2>2 DEF Walks
    <3> HIDE DEF p, a, n
    <3>2. Len(st.arrays[p.arr]) \in Nat
      BY SMTT(30), <3>1, <1>3
    <3>3. p.len <= Len(st'.arrays[p.arr]) /\ Len(st'.arrays[p.arr]) \in Nat /\ p.arr \in 1..Len(st'.arrays)
      BY SMTT(30), <3>1, <3>2, <1>9
    <3>4. \A i \in 1..p.len : i \in 1..Len(st.arrays[p.arr]) /\ (p.arr = a => i <= n)
      BY SMTT(30), <3>1, <3>2, <1>2
    <3>5. \A i \in 1..p.len : st'.arrays[p.arr][i] = st.arrays[p.arr][i]
      BY Zenon, <3>1, <3>4, <1>9
    <3>6. p.arr = st'.subs.arr => p.len <= st'.subs.len
      BY SMTT(30), <3>1, <3>2, <1>9, <1>2
    <3> QED
      BY Zenon, <2>2, <3>3, <3>5, <3>6, <1>7, WalksOn DEF p
  <2> QED
    BY Zenon, <2>1, <2>2 DEF PublishOk
<1> QED
  BY Zenon, <1>1, <1>8, <1>9, <1>10, <1>11 DEF MqttInv, MqttSlice, MqttWalks

(* unsubscribe takes the lock; no publish is judged after that. *)
LEMMA MqttUnsubscribes ==
  ASSUME MqttInv, unlocked, NEW k \in MqttClients, NEW new, unsubscribes(k, new),
         DOMAIN new = DOMAIN st, new.bridge = st.bridge, new.arrays = st.arrays, new.subs = st.subs
  PROVE  MqttInv'
<1> DEFINE cur == st.arrays[st.subs.arr]
           n == st.subs.len
<1>1. PICK i \in 1..n : list[i] = k /\ st' = [new EXCEPT !.removing = i]
  BY Zenon DEF unsubscribes
<1>2. /\ DOMAIN st' = DOMAIN st /\ st'.bridge = st.bridge /\ st'.arrays = st.arrays
      /\ st'.subs = st.subs /\ st'.removing = i
  BY <1>1 DEF MqttInv, MqttShape
<1>3. /\ n \in Nat /\ Distinct(cur, 1..n) /\ seen.subscribed = Entries(cur, 1..n) /\ cur[i] = k
  BY SMTT(30), <1>1, ListIs
<1>4. seen' = [seen EXCEPT !.subscribed = @ \ {k}]
  BY Zenon DEF unsubscribes
<1>5. seen'.subscribed = seen.subscribed \ {k}
  BY <1>4 DEF MqttInv, MqttShape
<1>6. calls' = [c \in Callers |-> IF at(c, "publish") THEN overlapped(calls[c]) ELSE calls[c]]
  BY Zenon DEF unsubscribes
<1>7. calls' = [c \in Callers |-> calls'[c]]
  BY Zenon, <1>6
<1>8. MqttShape'
  BY Zenon, <1>2, <1>4, <1>7 DEF MqttInv, MqttShape
<1>9. SliceShape(st')
  <2>1. SliceShape(st)
    BY Zenon DEF MqttInv, MqttSlice
  <2>2. i \in 0..n
    BY <1>1, <1>3
  <2> QED
    BY Zenon, <1>2, <2>1, <2>2 DEF SliceShape
<1>10. SliceOk(st', seen'.subscribed)
  <2>1. Distinct(cur, (1..n) \ {i}) /\ Entries(cur, (1..n) \ {i}) = Entries(cur, 1..n) \ {k}
    BY Zenon, <1>3, EntriesDrop
  <2> QED
    BY Zenon, <2>1, <1>2, <1>3, <1>5 DEF SliceOk
<1>11. ASSUME NEW c \in Callers PROVE PublishOk(calls'[c], st')
  <2>1. CASE at(c, "publish")
    <3>1. calls'[c] = overlapped(calls[c]) /\ PublishOk(calls[c], st) /\ calls[c].pc = "publish"
      BY Zenon, <1>6, <2>1 DEF MqttInv, MqttWalks, at
    <3>2. /\ DOMAIN calls'[c] = PublishFields /\ calls'[c].once = TRUE
          /\ calls'[c].overlapped = TRUE /\ calls'[c].due = {}
      BY <3>1 DEF overlapped, PublishOk, PublishFields
    <3> QED
      BY Zenon, <3>2 DEF PublishOk
  <2>2. CASE ~at(c, "publish")
    BY Zenon, <2>2, <1>6 DEF PublishOk, at
  <2> QED
    BY Zenon, <2>1, <2>2
<1> QED
  BY Zenon, <1>8, <1>9, <1>10, <1>11 DEF MqttInv, MqttSlice, MqttWalks

(* An entry moves down, or the slice is cut: every entry is still there. *)
LEMMA MqttShifts ==
  ASSUME MqttInv, UnsubscribeShift
  PROVE  MqttInv'
<1> DEFINE a == st.subs.arr
           n == st.subs.len
           j == st.removing
           cur == st.arrays[a]
           next == st'.arrays[a]
<1>1. j # 0 /\ calls' = calls /\ seen' = seen
  BY Zenon DEF UnsubscribeShift, unlocked
<1>2. SliceShape(st) /\ Distinct(cur, (1..n) \ {j}) /\ seen.subscribed = Entries(cur, (1..n) \ {j})
  BY Zenon DEF MqttInv, MqttSlice, SliceOk
<1>3. /\ cur \in Seq(Known) /\ Len(cur) \in Nat /\ Len(cur) > 0 /\ n \in 0..Len(cur) /\ j \in 1..n
      /\ st.arrays \in Seq(Seq(Known)) /\ a \in 1..Len(st.arrays) /\ DOMAIN st.subs = {"arr", "len"}
      /\ \A i \in 1..Len(st.arrays) : Len(st.arrays[i]) > 0
  <2>1. /\ st.arrays \in Seq(Seq(Known)) /\ a \in 1..Len(st.arrays) /\ n \in 0..Len(cur) /\ j \in 0..n
        /\ DOMAIN st.subs = {"arr", "len"} /\ \A i \in 1..Len(st.arrays) : Len(st.arrays[i]) > 0
    BY Zenon, <1>2 DEF SliceShape
  <2> HIDE DEF n, j
  <2> QED
    BY <1>1, <2>1
<1>4. DOMAIN st' = DOMAIN st /\ st'.bridge = st.bridge
  BY DEF UnsubscribeShift, MqttInv, MqttShape
<1>5. MqttShape'
  BY Zenon, <1>1, <1>4 DEF MqttInv, MqttShape
<1>6. ASSUME NEW c \in Callers PROVE PublishOk(calls[c], st')
  <2>1. PublishOk(calls[c], st) /\ ~Walks(calls[c], st)
    BY Zenon, <1>1 DEF MqttInv, MqttWalks, Walks
  <2> QED
    BY Zenon, <2>1 DEF PublishOk
<1>7. SliceShape(st') /\ SliceOk(st', seen.subscribed)
  <2>1. CASE j = n
    <3>1. st' = [st EXCEPT !.subs.len = @ - 1, !.removing = 0]
      BY <2>1, <1>3 DEF UnsubscribeShift, shifted
    <3>2. /\ st'.arrays = st.arrays /\ st'.subs.arr = a /\ st'.subs.len = n - 1
          /\ DOMAIN st'.subs = {"arr", "len"} /\ st'.removing = 0
      BY <3>1, <1>3 DEF MqttInv, MqttShape
    <3>3. SliceShape(st')
      BY SMTT(30), <3>2, <1>3 DEF SliceShape
    <3> HIDE DEF j, n
    <3>4. (1..(n - 1)) \ {0} = (1..n) \ {j}
      BY <2>1, <1>3
    <3> QED
      BY Zenon, <3>2, <3>3, <3>4, <1>2 DEF SliceOk
  <2>2. CASE j # n
    <3>1. st' = [st EXCEPT !.arrays[a][j] = cur[j + 1], !.removing = j + 1]
      BY <2>2, <1>3 DEF UnsubscribeShift, shifted
    <3>2. /\ st'.arrays = [st.arrays EXCEPT ![a] = [cur EXCEPT ![j] = cur[j + 1]]]
          /\ st'.subs = st.subs /\ st'.removing = j + 1
      BY <3>1, <1>3 DEF MqttInv, MqttShape
    <3> HIDE DEF a, j, n, cur
    <3>3. j \in 1..Len(cur) /\ j + 1 \in 1..Len(cur) /\ j + 1 \in 1..n /\ j + 1 # j /\ j \in 1..n
      BY <2>2, <1>3
    <3>4. [cur EXCEPT ![j] = cur[j + 1]] \in Seq(Known) /\ Len([cur EXCEPT ![j] = cur[j + 1]]) = Len(cur)
      BY <3>3, <1>3
    <3>5. /\ st'.arrays \in Seq(Seq(Known)) /\ Len(st'.arrays) = Len(st.arrays)
          /\ next = [cur EXCEPT ![j] = cur[j + 1]]
          /\ \A i \in 1..Len(st.arrays) : i # a => st'.arrays[i] = st.arrays[i]
      BY SMTT(30), <3>2, <3>4, <1>3
    <3>6. Len(next) = Len(cur) /\ next[j] = cur[j + 1] /\ \A i \in 1..n : i # j => next[i] = cur[i]
      BY <3>3, <3>4, <3>5, <1>3
    <3>7. SliceShape(st')
      <4>1. \A i \in 1..Len(st'.arrays) : Len(st'.arrays[i]) > 0
        BY Zenon, <3>5, <3>6, <1>3
      <4>2. st'.subs.arr = a /\ st'.subs.len = n
        BY Zenon, <3>2 DEF a, n
      <4>3. j + 1 \in 0..n
        BY <3>3, <1>3
      <4> QED
        BY Zenon, <4>1, <4>2, <4>3, <3>2, <3>5, <3>6, <1>3 DEF SliceShape
    <3> HIDE DEF next
    <3>8. Distinct(next, (1..n) \ {j + 1})
      BY Zenon, <3>3, <3>6, <1>2 DEF Distinct
    <3>9. Entries(next, (1..n) \ {j + 1}) = Entries(cur, (1..n) \ {j})
      <4>1. ASSUME NEW i \in (1..n) \ {j + 1} PROVE next[i] \in Entries(cur, (1..n) \ {j})
        <5>1. CASE i = j
          BY Zenon, <5>1, <3>3, <3>6 DEF Entries
        <5>2. CASE i # j
          BY Zenon, <5>2, <3>6 DEF Entries
        <5> QED
          BY <5>1, <5>2
      <4>2. ASSUME NEW i \in (1..n) \ {j} PROVE cur[i] \in Entries(next, (1..n) \ {j + 1})
        <5>1. CASE i = j + 1
          BY Zenon, <5>1, <3>3, <3>6 DEF Entries
        <5>2. CASE i # j + 1
          BY Zenon, <5>2, <3>6 DEF Entries
        <5> QED
          BY <5>1, <5>2
      <4> QED
        BY Zenon, <4>1, <4>2 DEF Entries
    <3> QED
      BY Zenon, <3>2, <3>7, <3>8, <3>9, <1>2 DEF SliceOk, a, n, j, cur, next
  <2> QED
    BY <2>1, <2>2
<1> QED
  BY Zenon, <1>1, <1>5, <1>6, <1>7 DEF MqttInv, MqttSlice, MqttWalks

(* A publish takes the slice, meets the next entry, and ends. *)
LEMMA MqttBegins ==
  ASSUME MqttInv, NEW c \in Callers, PublishBegin(c)
  PROVE  MqttInv'
<1> DEFINE p == [pc |-> "publish", arr |-> st.subs.arr, next |-> 1, len |-> st.subs.len,
                 due |-> seen.subscribed, once |-> TRUE, overlapped |-> FALSE]
<1>1. unlocked /\ goes(c, p) /\ st' = [st EXCEPT !.msgs = @ + 1] /\ seen' = seen
  BY Zenon DEF PublishBegin
<1>2. /\ DOMAIN st' = DOMAIN st /\ st'.bridge = st.bridge /\ st'.arrays = st.arrays
      /\ st'.subs = st.subs /\ st'.removing = st.removing
  BY <1>1 DEF MqttInv, MqttShape
<1>3. MqttSlice' /\ \A q : PublishOk(q, st) => PublishOk(q, st')
  BY Zenon, <1>1, <1>2, MqttElsewhere
<1>4. calls' = [d \in Callers |-> calls'[d]] /\ calls'[c] = p /\ \A d \in Callers : d # c => calls'[d] = calls[d]
  BY Zenon, <1>1, GoesOne DEF MqttInv, MqttShape
<1>5. MqttShape'
  BY Zenon, <1>1, <1>2, <1>4 DEF MqttInv, MqttShape
<1>6. PublishOk(p, st)
  <2>1. /\ DOMAIN p = PublishFields /\ p.once = TRUE /\ p.overlapped = FALSE /\ p.arr = st.subs.arr
        /\ p.len = st.subs.len /\ p.next = 1 /\ p.due = seen.subscribed
    BY DEF PublishFields
  <2>2. /\ st.subs.arr \in 1..Len(st.arrays) /\ st.subs.len \in 0..Len(st.arrays[st.subs.arr])
        /\ st.removing = 0
    BY Zenon, <1>1 DEF MqttInv, MqttSlice, SliceShape, unlocked
  <2>3. /\ Distinct(st.arrays[st.subs.arr], 1..st.subs.len)
        /\ seen.subscribed = Entries(st.arrays[st.subs.arr], 1..st.subs.len)
    BY Zenon, <1>1, ListIs
  <2> HIDE DEF p
  <2>4. p.next \in 1..(p.len + 1) /\ p.len <= st.subs.len
    BY <2>1, <2>2
  <2> QED
    BY Zenon, <2>1, <2>2, <2>3, <2>4 DEF PublishOk, Walks
<1>7. \A d \in Callers : PublishOk(calls'[d], st')
  BY Zenon, <1>3, <1>4, <1>6 DEF MqttInv, MqttWalks
<1> QED
  BY Zenon, <1>3, <1>5, <1>7 DEF MqttInv, MqttWalks

LEMMA MqttMeets ==
  ASSUME MqttInv, NEW c \in Callers, PublishStep(c)
  PROVE  MqttInv'
<1> DEFINE p == calls[c]
           k == st.arrays[p.arr][p.next]
           q == [p EXCEPT !.next = @ + 1, !.due = @ \ {k}, !.once = @ /\ (p.overlapped \/ k \in p.due)]
<1>1. /\ p.pc = "publish" /\ p.next <= p.len /\ goes(c, q) /\ seen' = seen
      /\ st' = IF k = BridgeClient THEN [st EXCEPT !.bridge = enqueued(@)] ELSE st
  BY Zenon DEF PublishStep, at
<1>2. /\ DOMAIN st' = DOMAIN st /\ BridgeOk(st'.bridge) /\ st'.arrays = st.arrays
      /\ st'.subs = st.subs /\ st'.removing = st.removing
  <2>1. BridgeOk(st.bridge) /\ BridgeOk(enqueued(st.bridge))
    BY Zenon, EnqueuedOk DEF MqttInv, MqttShape
  <2> QED
    BY Zenon, <1>1, <2>1 DEF MqttInv, MqttShape
<1>3. MqttSlice' /\ \A r : PublishOk(r, st) => PublishOk(r, st')
  BY Zenon, <1>1, <1>2, MqttElsewhere
<1>4. calls' = [d \in Callers |-> calls'[d]] /\ calls'[c] = q /\ \A d \in Callers : d # c => calls'[d] = calls[d]
  BY Zenon, <1>1, GoesOne DEF MqttInv, MqttShape
<1>5. MqttShape'
  BY Zenon, <1>1, <1>2, <1>4 DEF MqttInv, MqttShape
<1>6. /\ DOMAIN p = PublishFields /\ p.once = TRUE
      /\ (p.overlapped = TRUE /\ p.due = {}) \/ (p.overlapped = FALSE /\ Walks(p, st))
  BY Zenon, <1>1 DEF MqttInv, MqttWalks, PublishOk
<1>7. /\ DOMAIN q = PublishFields /\ q.arr = p.arr /\ q.len = p.len /\ q.next = p.next + 1 /\ q.pc = p.pc
      /\ q.due = p.due \ {k} /\ q.overlapped = p.overlapped
      /\ q.once = (p.once /\ (p.overlapped \/ k \in p.due))
  BY <1>6 DEF PublishFields
<1>8. PublishOk(q, st)
  <2> HIDE DEF q
  <2>1. CASE p.overlapped = TRUE /\ p.due = {}
    BY Zenon, <1>6, <1>7, <2>1 DEF PublishOk
  <2>2. CASE p.overlapped = FALSE /\ Walks(p, st)
    <3> DEFINE arr == st.arrays[p.arr]
    <3>1. p.len \in Nat /\ p.next \in 1..(p.len + 1) /\ p.due = Entries(arr, p.next..p.len) /\ Distinct(arr, 1..p.len)
      BY SMTT(30), <2>2 DEF Walks
    <3>2. /\ p.next \in p.next..p.len /\ p.next + 1 \in 1..(p.len + 1)
          /\ (p.next + 1)..p.len = (p.next..p.len) \ {p.next} /\ p.next..p.len \subseteq 1..p.len
      BY SMTT(30), <1>1, <3>1
    <3>3. k \in p.due /\ k = arr[p.next]
      BY Zenon, <3>1, <3>2 DEF Entries
    <3> HIDE DEF arr, k
    <3>4. Entries(arr, (p.next + 1)..p.len) = p.due \ {k}
      <4> DEFINE P == p.next..p.len
      <4>1. Distinct(arr, P) /\ p.next \in P
        BY Zenon, <3>1, <3>2 DEF Distinct
      <4> HIDE DEF P
      <4>2. Entries(arr, P \ {p.next}) = Entries(arr, P) \ {arr[p.next]}
        BY Zenon, <4>1, EntriesDrop
      <4> QED
        BY Zenon, <3>1, <3>2, <3>3, <4>2 DEF P
    <3>5. q.once = TRUE
      BY Zenon, <3>3, <1>6, <1>7
    <3>6. Walks(q, st)
      BY Zenon, <2>2, <3>2, <3>4, <1>7 DEF Walks, arr
    <3> QED
      BY Zenon, <2>2, <3>5, <3>6, <1>7 DEF PublishOk
  <2> QED
    BY Zenon, <1>6, <2>1, <2>2
<1>9. \A d \in Callers : PublishOk(calls'[d], st')
  BY Zenon, <1>3, <1>4, <1>8 DEF MqttInv, MqttWalks
<1> QED
  BY Zenon, <1>3, <1>5, <1>9 DEF MqttInv, MqttWalks

LEMMA MqttEnds ==
  ASSUME MqttInv, NEW c \in Callers, PublishEnd(c)
  PROVE  MqttInv'
<1> DEFINE p == calls[c]
<1>1. /\ p.pc = "publish" /\ p.next > p.len /\ goes(c, Idle) /\ st' = st
      /\ seen' = [seen EXCEPT !.delivered = @ /\ p.once /\ p.due = {}]
  BY Zenon DEF PublishEnd, at, returns
<1>2. /\ DOMAIN p = PublishFields /\ p.once = TRUE
      /\ (p.overlapped = TRUE /\ p.due = {}) \/ (p.overlapped = FALSE /\ Walks(p, st))
  BY Zenon, <1>1 DEF MqttInv, MqttWalks, PublishOk
<1>3. p.due = {}
  <2>1. CASE Walks(p, st)
    <3>1. p.len \in Nat /\ p.next \in 1..(p.len + 1) /\ p.due = Entries(st.arrays[p.arr], p.next..p.len)
      BY SMTT(30), <2>1 DEF Walks
    <3>2. p.next..p.len = {}
      BY <3>1, <1>1
    <3> QED
      BY Zenon, <3>1, <3>2 DEF Entries
  <2> QED
    BY SMTT(30), <2>1, <1>2
<1>4. (seen.delivered /\ p.once /\ p.due = {}) = TRUE
  BY Zenon, <1>2, <1>3 DEF MqttInv, MqttShape
<1>5. seen' = seen
  BY Zenon, <1>1, <1>4 DEF MqttInv, MqttShape
<1>6. /\ calls' = [d \in Callers |-> calls'[d]] /\ calls'[c] = Idle
      /\ \A d \in Callers : d # c => calls'[d] = calls[d]
  BY Zenon, <1>1, GoesOne DEF MqttInv, MqttShape
<1>7. Idle.pc # "publish"
  BY DEF Idle
<1>8. \A d \in Callers : PublishOk(calls'[d], st')
  BY Zenon, <1>1, <1>6, <1>7 DEF MqttInv, MqttWalks, PublishOk
<1> QED
  BY Zenon, <1>1, <1>5, <1>6, <1>8 DEF MqttInv, MqttShape, MqttSlice, MqttWalks

LEMMA MqttStep == MqttInv /\ MqttNext => MqttInv'
<1> SUFFICES ASSUME MqttInv, MqttNext PROVE MqttInv'
  OBVIOUS
<1>1. ASSUME NEW k \in MqttClients, Unsubscribe(k) PROVE MqttInv'
  BY Zenon, <1>1, MqttUnsubscribes DEF Unsubscribe
<1>2. ASSUME NEW k \in MqttClients, CloseClient(k) PROVE MqttInv'
  <2> DEFINE new == [st EXCEPT !.closed = @ \cup {k}]
  <2>1. /\ DOMAIN new = DOMAIN st /\ new.bridge = st.bridge /\ new.arrays = st.arrays
        /\ new.subs = st.subs /\ new.removing = st.removing
    BY DEF MqttInv, MqttShape
  <2>2. unlocked /\ (unsubscribes(k, new) \/ (st' = new /\ UNCHANGED <<calls, seen>>))
    BY Zenon, <1>2 DEF CloseClient
  <2> HIDE DEF new
  <2>3. CASE unsubscribes(k, new)
    BY Zenon, <2>1, <2>2, <2>3, MqttUnsubscribes
  <2>4. CASE st' = new /\ UNCHANGED <<calls, seen>>
    <3>1. MqttSlice' /\ \A p : PublishOk(p, st) => PublishOk(p, st')
      BY Zenon, <2>1, <2>4, MqttElsewhere
    <3> QED
      BY Zenon, <2>1, <2>4, <3>1 DEF MqttInv, MqttShape, MqttWalks
  <2> QED
    BY <2>2, <2>3, <2>4
<1>3. ASSUME BridgeNext PROVE MqttInv'
  <2>1. (\E b : BridgeOk(b) /\ st' = [st EXCEPT !.bridge = b]) /\ UNCHANGED <<calls, seen>>
    BY Zenon, <1>3, BridgeSteps DEF MqttInv, MqttShape
  <2>2. /\ DOMAIN st' = DOMAIN st /\ BridgeOk(st'.bridge) /\ st'.arrays = st.arrays
        /\ st'.subs = st.subs /\ st'.removing = st.removing
    BY <2>1 DEF MqttInv, MqttShape
  <2>3. MqttSlice' /\ \A p : PublishOk(p, st) => PublishOk(p, st')
    BY Zenon, <2>1, <2>2, MqttElsewhere
  <2> QED
    BY Zenon, <2>1, <2>2, <2>3 DEF MqttInv, MqttShape, MqttWalks
<1>4. ASSUME NEW c \in Publishers, PublishBegin(c) \/ PublishStep(c) \/ PublishEnd(c) PROVE MqttInv'
  <2>1. c \in Callers
    BY MqttAssumption
  <2> QED
    BY Zenon, <2>1, <1>4, MqttBegins, MqttMeets, MqttEnds
<1> QED
  BY Zenon, <1>1, <1>2, <1>3, <1>4, MqttSubscribes, MqttShifts DEF MqttNext

-----------------------------------------------------------------------------
(* Each bridge keeps its invariant, and the invariant gives its property. *)
BridgesInv ==
  /\ kind = "mqtt" => MqttInv
  /\ kind = "dds" => DdsInv
  /\ kind = "someip" => SomeIpInv
  /\ kind = "doip" => DoIpInv
  /\ kind = "shmem" => ShmemInv
  /\ kind = "telemetry" => TelemetryInv

(* For any number of clients, readers, callers and subscribers: nothing    *)
(* goes upstream after Close of mqttbr or ddsbr has returned, a publish    *)
(* meets each subscriber once, nobody writes to a closed DDS reader, the   *)
(* answers of SOME/IP and DoIP belong to their requests, shmem does not    *)
(* route to a deregistered pair and telemetry misses no event.             *)
THEOREM BridgesAreSafe == BridgesSpec => []BridgesSafe
<1>1. BridgesInit => BridgesInv
  BY MqttInitial, DdsInitial, SomeIpInitial, DoIpInitial, ShmemInitial, TelemetryInitial DEF BridgesInit, BridgesInv
<1>2. BridgesInv /\ [BridgesNext]_vars => BridgesInv'
  <2> SUFFICES ASSUME BridgesInv, [BridgesNext]_vars PROVE BridgesInv'
    OBVIOUS
  <2>1. CASE kind = "mqtt" /\ MqttNext /\ UNCHANGED kind
    BY <2>1, MqttStep DEF BridgesInv
  <2>2. CASE kind = "dds" /\ DdsNext /\ UNCHANGED kind
    BY <2>2, DdsStep DEF BridgesInv
  <2>3. CASE kind = "someip" /\ SomeIpNext /\ UNCHANGED kind
    BY <2>3, SomeIpStep DEF BridgesInv
  <2>4. CASE kind = "doip" /\ DoIpNext /\ UNCHANGED kind
    BY <2>4, DoIpStep DEF BridgesInv
  <2>5. CASE kind = "shmem" /\ ShmemNext /\ UNCHANGED kind
    BY <2>5, ShmemStep DEF BridgesInv
  <2>6. CASE kind = "telemetry" /\ TelemetryNext /\ UNCHANGED kind
    BY <2>6, TelemetryStep DEF BridgesInv
  <2>7. CASE UNCHANGED vars
    <3>1. kind' = kind /\ st' = st /\ calls' = calls /\ seen' = seen
      BY <2>7 DEF vars
    <3>2. MqttInv => MqttInv'
      <4>1. (MqttShape => MqttShape') /\ (MqttSlice => MqttSlice') /\ (MqttWalks => MqttWalks')
        BY Zenon, <3>1 DEF MqttShape, MqttSlice, MqttWalks
      <4> QED
        BY Zenon, <4>1 DEF MqttInv
    <3>3. DdsInv => DdsInv'
      BY Zenon, <3>1 DEF DdsInv
    <3>4. SomeIpInv => SomeIpInv'
      <4>1. (SomeIpShape => SomeIpShape') /\ (SomeIpFacts => SomeIpFacts')
        BY Zenon, <3>1 DEF SomeIpShape, SomeIpFacts
      <4> QED
        BY Zenon, <4>1 DEF SomeIpInv
    <3>5. DoIpInv => DoIpInv'
      <4>1. (DoIpShape => DoIpShape') /\ (DoIpLockstep => DoIpLockstep') /\ (MineUntilNack => MineUntilNack')
        BY Zenon, <3>1 DEF DoIpShape, DoIpLockstep, MineUntilNack
      <4> QED
        BY Zenon, <4>1 DEF DoIpInv
    <3>6. ShmemInv => ShmemInv'
      BY Zenon, <3>1 DEF ShmemInv, held
    <3>7. TelemetryInv => TelemetryInv'
      BY Zenon, <3>1 DEF TelemetryInv
    <3> QED
      BY Zenon, <3>1, <3>2, <3>3, <3>4, <3>5, <3>6, <3>7 DEF BridgesInv
  <2> QED
    BY <2>1, <2>2, <2>3, <2>4, <2>5, <2>6, <2>7 DEF BridgesNext
<1>3. BridgesInv => BridgesSafe
  BY MqttSound, DdsSound, SomeIpSound, ShmemSound, TelemetrySound DEF BridgesInv, BridgesSafe, DoIpInv
<1> QED
  BY <1>1, <1>2, <1>3, PTL DEF BridgesSpec
=============================================================================
