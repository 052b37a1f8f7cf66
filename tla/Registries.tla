----------------------------- MODULE Registries -----------------------------
(***************************************************************************)
(* Tables of servers and controllers that goroutines share: who owns a     *)
(* server, in-process clients, dialled controllers, handles for C and the  *)
(* watched configuration. One section per package; st is the state of the  *)
(* package's object, calls its goroutines and seen a history.              *)
(***************************************************************************)
EXTENDS Integers, Sequences, FiniteSets, Functions, Calls

CONSTANTS
  Keys,                                               \* federation, mock, udp
  Owners,                                             \* federation
  InProcess,                                          \* mock
  MaxUses,                                            \* mock, tsn, capi
  Ranks,                                              \* tsn
  MaxControllers,                                     \* tsn, udp
  MaxHandles,                                         \* capi
  Files, MaxEdits                                     \* config

ASSUME TsnAssumption == Ranks \subseteq Int
ASSUME FilesAssumption ==
  \A f \in Files : DOMAIN f.servers \subseteq Nat /\ \A i \in DOMAIN f.servers : DOMAIN f.servers[i].addrs \subseteq Nat

-----------------------------------------------------------------------------
(***************************************************************************)
(* federation.Registry: which controller (HPC) owns which server.  A       *)
(* client looks the owner up and, later, asks to be its successor.         *)
(***************************************************************************)
(* seen: per server, the owner at the last successful transfer and the one *)
(* the new owner had looked up.                                            *)
FederationInit ==
  /\ st = [owners |-> [k \in {} |-> 0]]
  /\ seen = [k \in Keys |-> <<>>]
  /\ CallsInit

FederationRegister(o, k) ==
  /\ k \notin DOMAIN st.owners
  /\ st' = [st EXCEPT !.owners = put(@, k, o)]
  /\ UNCHANGED <<calls, seen>>

Release(k) ==
  /\ k \in DOMAIN st.owners
  /\ st' = [st EXCEPT !.owners = Restrict(@, DOMAIN @ \ {k})]
  /\ UNCHANGED <<calls, seen>>

FederationLookup(c, k) ==
  /\ at(c, "idle") /\ k \in DOMAIN st.owners
  /\ goes(c, [pc |-> "transfer", key |-> k, from |-> st.owners[k]])
  /\ UNCHANGED <<st, seen>>

(* Mutated form: the current owner is not compared. *)
mayTransfer_Any(k, from) == k \in DOMAIN st.owners

mayTransfer(k, from) == k \in DOMAIN st.owners /\ st.owners[k] = from

TransferOwnership(c) ==
  LET k == calls[c].key IN
  /\ at(c, "transfer")
  /\ IF mayTransfer(k, calls[c].from)
       THEN /\ st' = [st EXCEPT !.owners[k] = c]
            /\ seen' = [seen EXCEPT ![k] = <<st.owners[k], calls[c].from>>]
       ELSE UNCHANGED <<st, seen>>
  /\ returns(c)

FederationNext ==
  \/ \E c \in Callers : \/ TransferOwnership(c)
                       \/ \E k \in Keys : FederationLookup(c, k)
  \/ \E k \in Keys : Release(k) \/ \E o \in Owners : FederationRegister(o, k)

----------------------------------------------------------------------------
(* A client that takes a server over displaces the owner that it had       *)
(* looked up, never one that registered or took over in between.           *)
TakeoverFromKnownOwner == \A k \in Keys : seen[k] # <<>> => seen[k][1] = seen[k][2]

-----------------------------------------------------------------------------
(***************************************************************************)
(* mock.Client and mock.ClientRegistry: in-process clients of a router,    *)
(* registered under keys.  A test keeps the clients it has looked up.      *)
(***************************************************************************)
(* st.closing: Close is under way and holds the registry's lock.           *)
(* st.txn, st.seq: the counters of each client.  seen.closed: the clients  *)
(* that Deregister, Close or a holder has closed; seen.used: whether one   *)
(* of them routed a request that was begun after that.                     *)
MockInit ==
  /\ st = [clients |-> [k \in {} |-> 0], closed |-> FALSE, closing |-> FALSE, shut |-> {},
           txn |-> [x \in InProcess |-> 0], seq |-> [x \in InProcess |-> 0]]
  /\ seen = [closed |-> {}, used |-> FALSE]
  /\ CallsInit

(* Any client, also one that is registered under another key or closed. *)
MockRegister(k, x) ==
  /\ ~st.closing /\ ~st.closed /\ k \notin DOMAIN st.clients
  /\ st' = [st EXCEPT !.clients = put(@, k, x)]
  /\ UNCHANGED <<calls, seen>>

(* Mutated form: the client is dropped without closing it. *)
closedWith_None(x) == {}

closedWith(x) == {x}

(* The client of k is closed and leaves the registry, in Deregister and in *)
(* the loop of Close.                                                      *)
takenOut(k) == [st EXCEPT !.clients = Restrict(@, DOMAIN @ \ {k}), !.shut = @ \cup closedWith(st.clients[k])]

MockDeregister(k) ==
  /\ ~st.closing /\ k \in DOMAIN st.clients
  /\ st' = takenOut(k)
  /\ seen' = [seen EXCEPT !.closed = @ \cup {st.clients[k]}]
  /\ UNCHANGED calls

MockCloseBegin ==
  /\ ~st.closing /\ ~st.closed
  /\ st' = [st EXCEPT !.closed = TRUE, !.closing = TRUE]
  /\ UNCHANGED <<calls, seen>>

MockCloseOne(k) ==
  /\ st.closing /\ k \in DOMAIN st.clients
  /\ st' = takenOut(k)
  /\ seen' = [seen EXCEPT !.closed = @ \cup {st.clients[k]}]
  /\ UNCHANGED calls

MockCloseEnd ==
  /\ st.closing /\ DOMAIN st.clients = {}
  /\ st' = [st EXCEPT !.closing = FALSE]
  /\ UNCHANGED <<calls, seen>>

MockLookup(c, k) ==
  /\ at(c, "idle") /\ ~st.closing /\ ~st.closed /\ k \in DOMAIN st.clients
  /\ goes(c, [pc |-> "has", client |-> st.clients[k]])
  /\ UNCHANGED <<st, seen>>

stillHas(c) == [pc |-> "has", client |-> calls[c].client]

(* Client.Request: late says that the client had been closed when it was   *)
(* called.                                                                 *)
MockRequestBegin(c) ==
  /\ at(c, "has") /\ st.txn[calls[c].client] < MaxUses
  /\ goes(c, [pc |-> "check", client |-> calls[c].client, late |-> calls[c].client \in seen.closed])
  /\ UNCHANGED <<st, seen>>

MockRequestCheck(c) ==
  /\ at(c, "check") /\ calls[c].client \notin st.shut
  /\ goes(c, [calls[c] EXCEPT !.pc = "txn"])
  /\ UNCHANGED <<st, seen>>

(* ErrClosed, or ctx is done. *)
MockRequestRefused(c) == at(c, "check") /\ goes(c, stillHas(c)) /\ UNCHANGED <<st, seen>>

MockRequestTxn(c) ==
  /\ at(c, "txn")
  /\ st' = [st EXCEPT !.txn[calls[c].client] = @ + 1]
  /\ goes(c, [calls[c] EXCEPT !.pc = "seq"])
  /\ UNCHANGED seen

MockRequestSeq(c) ==
  /\ at(c, "seq")
  /\ st' = [st EXCEPT !.seq[calls[c].client] = @ + 1]
  /\ goes(c, [calls[c] EXCEPT !.pc = "route"])
  /\ UNCHANGED seen

(* Router.Route, which answers or drops the request. *)
MockRequestRoute(c) ==
  /\ at(c, "route")
  /\ seen' = [seen EXCEPT !.used = @ \/ calls[c].late]
  /\ goes(c, stillHas(c))
  /\ UNCHANGED st

(* Client.Close, by one that holds the client. *)
MockClientClose(c) ==
  /\ at(c, "has")
  /\ st' = [st EXCEPT !.shut = @ \cup {calls[c].client}]
  /\ seen' = [seen EXCEPT !.closed = @ \cup {calls[c].client}]
  /\ UNCHANGED calls

Drop(c) == at(c, "has") /\ returns(c) /\ UNCHANGED <<st, seen>>

MockNext ==
  \/ \E c \in Callers : \/ MockRequestBegin(c) \/ MockRequestCheck(c) \/ MockRequestRefused(c) \/ MockRequestTxn(c)
                       \/ MockRequestSeq(c) \/ MockRequestRoute(c) \/ MockClientClose(c) \/ Drop(c)
                       \/ \E k \in Keys : MockLookup(c, k)
  \/ \E k \in Keys : MockDeregister(k) \/ MockCloseOne(k) \/ \E x \in InProcess : MockRegister(k, x)
  \/ MockCloseBegin \/ MockCloseEnd

----------------------------------------------------------------------------
(* No request that is begun after its client was closed, by Deregister, by *)
(* Close of the registry or of the client, is routed, however long ago the *)
(* client was looked up and whatever it is registered as since.  One that  *)
(* had passed the check before may still be.                               *)
ClosedIsUnusable == ~seen.used

-----------------------------------------------------------------------------
(***************************************************************************)
(* tsn: a Controller that sets the priority of its socket before each      *)
(* request, and the Registry that dials and closes Controllers.  One key.  *)
(***************************************************************************)
(* st.prio: the SO_PRIORITY of each Controller's socket; st.reg: the       *)
(* registered one, 0 if there is none.                                     *)
TsnInit ==
  /\ st = [prio |-> <<>>, open |-> {}, reg |-> 0, closed |-> FALSE]
  /\ seen = [sent |-> {}, requests |-> 0]
  /\ CallsInit

(* DefaultPCPMap, with the rank clamped to its length, and what            *)
(* setSocketPriority makes of it.                                          *)
PCPFor(rank) == 7 - (IF rank < 0 THEN 0 ELSE IF rank > 6 THEN 6 ELSE rank)
socketPriority(pcp) == IF pcp > 6 THEN 6 ELSE pcp

(* Registry.Dial: NewController, and then Register or Close. *)
TsnDialBegin(c) ==
  /\ at(c, "idle") /\ Len(st.prio) < MaxControllers
  /\ st' = [st EXCEPT !.prio = Append(@, 0), !.open = @ \cup {Len(st.prio) + 1}]
  /\ goes(c, [pc |-> "register", ctrl |-> Len(st.prio) + 1])
  /\ UNCHANGED seen

(* Mutated form: a Controller that cannot be registered stays open. *)
refused_Open(x) == st

refused(x) == [st EXCEPT !.open = @ \ {x}]

DialRegister(c) ==
  LET x == calls[c].ctrl IN
  /\ at(c, "register")
  /\ st' = IF st.closed \/ st.reg # 0 THEN refused(x) ELSE [st EXCEPT !.reg = x]
  /\ returns(c)
  /\ UNCHANGED seen

TsnDeregister ==
  /\ st.reg # 0
  /\ st' = [st EXCEPT !.reg = 0, !.open = @ \ {st.reg}]
  /\ UNCHANGED <<calls, seen>>

TsnClose ==
  /\ ~st.closed
  /\ st' = [st EXCEPT !.closed = TRUE, !.reg = 0, !.open = @ \ {st.reg}]
  /\ UNCHANGED <<calls, seen>>

(* Lookup and Request: the closed check and PCPFor under the lock, *)
TsnRequestBegin(c, rank) ==
  /\ at(c, "idle") /\ ~st.closed /\ st.reg # 0 /\ seen.requests < MaxUses
  /\ goes(c, [pc |-> "priority", ctrl |-> st.reg, pcp |-> PCPFor(rank), other |-> FALSE])
  /\ seen' = [seen EXCEPT !.requests = @ + 1]
  /\ UNCHANGED st

(* Mutated form: the priority of the first request stays. *)
priority_Once(x, pcp) == IF st.prio[x] # 0 THEN st.prio[x] ELSE socketPriority(pcp)

priority(x, pcp) == socketPriority(pcp)

(* then the socket option, which the requests of the Controller share, *)
RequestPriority(c) ==
  LET x == calls[c].ctrl IN
  /\ at(c, "priority")
  /\ st' = [st EXCEPT !.prio[x] = priority(x, calls[c].pcp)]
  /\ calls' = [d \in Callers |->
       IF d = c THEN [calls[c] EXCEPT !.pc = "send"]
       ELSE IF at(d, "send") /\ calls[d].ctrl = x THEN [calls[d] EXCEPT !.other = TRUE]
       ELSE calls[d]]
  /\ UNCHANGED seen

(* and inner.Request, which fails on a closed Controller. *)
RequestSend(c) ==
  LET k == calls[c] IN
  /\ at(c, "send")
  /\ seen' = IF k.ctrl \notin st.open THEN seen
             ELSE [seen EXCEPT !.sent = @ \cup {[pcp |-> k.pcp, prio |-> st.prio[k.ctrl], other |-> k.other]}]
  /\ returns(c)
  /\ UNCHANGED st

TsnNext ==
  \/ \E c \in Callers : \/ TsnDialBegin(c) \/ DialRegister(c) \/ RequestPriority(c) \/ RequestSend(c)
                       \/ \E rank \in Ranks : TsnRequestBegin(c, rank)
  \/ TsnDeregister \/ TsnClose

----------------------------------------------------------------------------
(* A request goes out with the priority of its own kind, unless another    *)
(* request of the same Controller sets its own in between.                 *)
OwnPriority == \A s \in seen.sent : s.other \/ s.prio = socketPriority(s.pcp)

(* A Controller that is open is registered or being registered: a failed   *)
(* Dial, Deregister and Close leave no socket behind.                      *)
TsnNoSocketLeft ==
  st.open = ({st.reg} \ {0}) \cup {calls[c].ctrl : c \in {d \in Callers : at(d, "register")}}

-----------------------------------------------------------------------------
(***************************************************************************)
(* udp.Registry: dialled Controllers under keys the caller chooses.        *)
(***************************************************************************)
(* st.ctrls: the Controller of each key, 0 for none; seen.own: Controllers *)
(* whose Register failed, which are still the caller's.                    *)
DialsInit ==
  /\ st = [ctrls |-> [k \in Keys |-> 0], closed |-> FALSE, open |-> {}]
  /\ seen = [made |-> 0, own |-> {}]
  /\ CallsInit

Registered == {st.ctrls[k] : k \in Keys} \ {0}

(* NewController, in Dial or by a caller of Register *)
DialsDialBegin(c, k, mine) ==
  /\ at(c, "idle") /\ seen.made < MaxControllers
  /\ st' = [st EXCEPT !.open = @ \cup {seen.made + 1}]
  /\ seen' = [seen EXCEPT !.made = @ + 1]
  /\ goes(c, [pc |-> "register", key |-> k, ctrl |-> seen.made + 1, mine |-> mine])

mayRegister(k) == ~st.closed /\ st.ctrls[k] = 0

(* Register, after which Dial closes what was refused. *)
DialsRegister(c) ==
  LET x == calls[c] IN
  /\ at(c, "register")
  /\ st' = IF mayRegister(x.key) THEN [st EXCEPT !.ctrls[x.key] = x.ctrl]
           ELSE IF x.mine THEN st ELSE [st EXCEPT !.open = @ \ {x.ctrl}]
  /\ seen' = IF ~mayRegister(x.key) /\ x.mine THEN [seen EXCEPT !.own = @ \cup {x.ctrl}] ELSE seen
  /\ returns(c)

DialsDeregister(k) ==
  /\ st.ctrls[k] # 0
  /\ st' = [st EXCEPT !.ctrls[k] = 0, !.open = @ \ {st.ctrls[k]}]
  /\ UNCHANGED <<calls, seen>>

DialsClose ==
  /\ ~st.closed
  /\ st' = [st EXCEPT !.closed = TRUE, !.open = @ \ Registered, !.ctrls = [k \in Keys |-> 0]]
  /\ UNCHANGED <<calls, seen>>

DialsNext ==
  \/ \E c \in Callers, k \in Keys, mine \in BOOLEAN : DialsDialBegin(c, k, mine)
  \/ \E c \in Callers : DialsRegister(c)
  \/ \E k \in Keys : DialsDeregister(k)
  \/ DialsClose

----------------------------------------------------------------------------
(* An open Controller is registered, being registered or still its         *)
(* caller's: a failed Dial, Deregister and Close leave no socket behind,   *)
(* even when a Dial is under way, and a closed Registry holds none.        *)
DialsNoSocketLeft ==
  /\ st.open = Registered \cup seen.own \cup {calls[c].ctrl : c \in {d \in Callers : at(d, "register")}}
  /\ st.closed => Registered = {}

-----------------------------------------------------------------------------
(***************************************************************************)
(* capi: Controllers behind int32 handles for callers in C.                *)
(***************************************************************************)
(* st.ctrls: handle -> Controller; a Controller is the place at which it   *)
(* was made.  seen.of: the Controller for which newHandle first returned a *)
(* handle; seen.closed: how often each Controller was closed.              *)
HandlesInit ==
  /\ st = [seq |-> 0, ctrls |-> <<>>]
  /\ seen = [made |-> 0, of |-> <<>>, closed |-> <<>>, used |-> {}, requests |-> 0]
  /\ CallsInit

without(f, k) == [x \in DOMAIN f \ {k} |-> f[x]]

(* Mutated form: handles are numbered by the size of the table. *)
nextHandle_Size == Cardinality(DOMAIN st.ctrls) + 1

nextHandle == st.seq + 1

(* NewController or RegisterController, then newHandle: the number, *)
NewBegin(c) ==
  /\ at(c, "idle") /\ seen.made < MaxHandles
  /\ st' = [st EXCEPT !.seq = nextHandle]
  /\ seen' = [seen EXCEPT !.made = @ + 1, !.closed = Append(@, 0)]
  /\ goes(c, [pc |-> "store", h |-> nextHandle, ctrl |-> seen.made + 1])

(* and the entry. *)
NewEnd(c) ==
  LET k == calls[c] IN
  /\ at(c, "store")
  /\ st' = [st EXCEPT !.ctrls = put(@, k.h, k.ctrl)]
  /\ seen' = [seen EXCEPT !.of = IF k.h \in DOMAIN @ THEN @ ELSE put(@, k.h, k.ctrl)]
  /\ returns(c)

(* Request, Read and Write: getCtrl, and the request without the lock. *)
HandlesRequestBegin(c, h) ==
  /\ at(c, "idle") /\ seen.requests < MaxUses
  /\ seen' = [seen EXCEPT !.requests = @ + 1]
  /\ IF h \in DOMAIN st.ctrls THEN goes(c, [pc |-> "request", h |-> h, ctrl |-> st.ctrls[h], of |-> seen.of[h]])
     ELSE UNCHANGED calls
  /\ UNCHANGED st

RequestEnd(c) ==
  LET k == calls[c] IN
  /\ at(c, "request")
  /\ seen' = [seen EXCEPT !.used = @ \cup {<<k.of, k.ctrl>>}]
  /\ returns(c)
  /\ UNCHANGED st

(* Close takes the entry out under the lock, *)
HandlesCloseBegin(c, h) ==
  /\ at(c, "idle") /\ h \in DOMAIN st.ctrls
  /\ st' = [st EXCEPT !.ctrls = without(@, h)]
  /\ goes(c, [pc |-> "close", ctrl |-> st.ctrls[h]])
  /\ UNCHANGED seen

(* and closes the Controller after it. *)
HandlesCloseEnd(c) ==
  /\ at(c, "close")
  /\ seen' = [seen EXCEPT !.closed[calls[c].ctrl] = @ + 1]
  /\ returns(c)
  /\ UNCHANGED st

HandlesNext ==
  \E c \in Callers :
    \/ NewBegin(c) \/ NewEnd(c) \/ RequestEnd(c) \/ HandlesCloseEnd(c)
    \/ \E h \in 1..MaxHandles : HandlesRequestBegin(c, h) \/ HandlesCloseBegin(c, h)

HandleCount == Cardinality(DOMAIN st.ctrls)
----------------------------------------------------------------------------
(* A request through a handle reaches the Controller the handle was made   *)
(* for, no handle is given out again for another one, and a Controller is  *)
(* open exactly while a handle leads to it or a call is at work on it.     *)
HandleReachesItsOwn ==
  LET inHand == {calls[c].ctrl : c \in {d \in Callers : at(d, "store") \/ at(d, "close")}} IN
  /\ \A u \in seen.used : u[1] = u[2]
  /\ \A g, h \in DOMAIN st.ctrls : st.ctrls[g] = st.ctrls[h] => g = h
  /\ {i \in DOMAIN seen.closed : seen.closed[i] = 0} = {st.ctrls[h] : h \in DOMAIN st.ctrls} \cup inHand
  /\ \A i \in DOMAIN seen.closed : seen.closed[i] <= 1

-----------------------------------------------------------------------------
(***************************************************************************)
(* config: the checks of a decoded file, and the Watcher that polls its    *)
(* modification time, next to callers of Reload.                           *)
(***************************************************************************)
(* A file: its version and its servers, each a key, whether stream_id is   *)
(* eight bytes of hex, and the addresses of the endpoints.                 *)
repeats(s) == \E i, j \in DOMAIN s : i < j /\ s[i] = s[j]
keys(f) == [i \in DOMAIN f.servers |-> f.servers[i].key]

(* Mutated form: repeated keys are not looked for. *)
Decodes_Repeats(f) ==
  /\ f.version = 1
  /\ \A i \in DOMAIN f.servers : f.servers[i].idOK /\ ~repeats(f.servers[i].addrs)

Decodes(f) ==
  /\ f.version = 1 /\ ~repeats(keys(f))
  /\ \A i \in DOMAIN f.servers : f.servers[i].idOK /\ ~repeats(f.servers[i].addrs)

(* st.file and st.mod: what is on disk.  st.run: where the goroutine is;   *)
(* st.told: what onChange was last called with.  seen.excused: the file    *)
(* changed before the first Stat, or a Reload and another load overlapped. *)
ConfigWatchInit ==
  /\ \E f \in Files : Decodes(f) /\ st = [file |-> f, mod |-> 0, current |-> f, told |-> f,
                                          run |-> "starts", lastMod |-> 0, loaded |-> f]
  /\ seen = [excused |-> FALSE]
  /\ CallsInit

Edit(f) ==
  /\ st.mod < MaxEdits
  /\ st' = [st EXCEPT !.file = f, !.mod = @ + 1]
  /\ seen' = [seen EXCEPT !.excused = @ \/ st.run = "starts"]
  /\ UNCHANGED calls

reloads == {c \in Callers : at(c, "set") \/ at(c, "tell")}

(* run: the first Stat, *)
RunStarts ==
  /\ st.run = "starts"
  /\ st' = [st EXCEPT !.run = "polls", !.lastMod = st.mod]
  /\ UNCHANGED <<calls, seen>>

(* a poll that finds another time, *)
PollStat ==
  /\ st.run = "polls" /\ st.mod # st.lastMod
  /\ st' = [st EXCEPT !.run = "loads", !.lastMod = st.mod]
  /\ UNCHANGED <<calls, seen>>

(* Load, *)
PollLoad ==
  /\ st.run = "loads"
  /\ st' = IF Decodes(st.file) THEN [st EXCEPT !.run = "sets", !.loaded = st.file]
           ELSE [st EXCEPT !.run = "polls"]
  /\ UNCHANGED <<calls, seen>>

(* Mutated form: the time is taken after the file was loaded. *)
adopted_Restat == [st EXCEPT !.run = "tells", !.current = st.loaded, !.lastMod = st.mod]

adopted == [st EXCEPT !.run = "tells", !.current = st.loaded]

(* the assignment, and onChange. *)
PollSet ==
  /\ st.run = "sets"
  /\ st' = adopted
  /\ seen' = [seen EXCEPT !.excused = @ \/ reloads # {}]
  /\ UNCHANGED calls

PollTell ==
  /\ st.run = "tells"
  /\ st' = [st EXCEPT !.run = "polls", !.told = st.loaded]
  /\ UNCHANGED <<calls, seen>>

ReloadLoad(c) ==
  /\ at(c, "idle") /\ Decodes(st.file)
  /\ goes(c, [pc |-> "set", file |-> st.file])
  /\ seen' = [seen EXCEPT !.excused = @ \/ reloads # {} \/ st.run = "tells"]
  /\ UNCHANGED st

(* Mutated form: a Reload does not call onChange. *)
ReloadSet_Quiet(c) ==
  /\ at(c, "set")
  /\ st' = [st EXCEPT !.current = calls[c].file]
  /\ returns(c)
  /\ UNCHANGED seen

ReloadSet(c) ==
  /\ at(c, "set")
  /\ st' = [st EXCEPT !.current = calls[c].file]
  /\ goes(c, [calls[c] EXCEPT !.pc = "tell"])
  /\ UNCHANGED seen

ReloadTell(c) ==
  /\ at(c, "tell")
  /\ st' = [st EXCEPT !.told = calls[c].file]
  /\ returns(c)
  /\ UNCHANGED seen

Stop == st.run = "polls" /\ st' = [st EXCEPT !.run = "stopped"] /\ UNCHANGED <<calls, seen>>

ConfigWatchNext ==
  \/ \E f \in Files : Edit(f)
  \/ RunStarts \/ PollStat \/ PollLoad \/ PollSet \/ PollTell \/ Stop
  \/ \E c \in Callers : ReloadLoad(c) \/ ReloadSet(c) \/ ReloadTell(c)

----------------------------------------------------------------------------
(* The current configuration names every server once, with a stream_id,    *)
(* and every endpoint of a server once, whatever is on disk.               *)
CurrentIsSound ==
  LET s == st.current.servers IN
  \A i \in DOMAIN s : /\ s[i].idOK /\ \A j \in DOMAIN s : s[i].key = s[j].key => i = j
                      /\ \A a, b \in DOMAIN s[i].addrs : s[i].addrs[a] = s[i].addrs[b] => a = b

(* The current configuration, or the one about to be, is what is on disk   *)
(* or a poll will look at the disk again; unless the file changed before   *)
(* the first Stat, or a Reload ran beside another load and set the older   *)
(* file last.                                                              *)
CurrentOrPolling ==
  \/ st.current = st.file \/ st.lastMod # st.mod \/ st.run \in {"starts", "loads", "stopped"}
  \/ st.run = "sets" /\ st.loaded = st.file
  \/ ~Decodes(st.file) \/ seen.excused

(* With nothing under way, the application was last told of the            *)
(* configuration that Current returns, unless two loads overlapped.        *)
ToldCurrent == reloads = {} /\ st.run # "tells" => st.told = st.current \/ seen.excused
-----------------------------------------------------------------------------
(* A behaviour is about one of the packages. *)
RegistriesInit ==
  \/ kind = "federation" /\ FederationInit
  \/ kind = "mock" /\ MockInit
  \/ kind = "tsn" /\ TsnInit
  \/ kind = "dials" /\ DialsInit
  \/ kind = "handles" /\ HandlesInit
  \/ kind = "config" /\ ConfigWatchInit

RegistriesNext ==
  /\ \/ kind = "federation" /\ FederationNext
     \/ kind = "mock" /\ MockNext
     \/ kind = "tsn" /\ TsnNext
     \/ kind = "dials" /\ DialsNext
     \/ kind = "handles" /\ HandlesNext
     \/ kind = "config" /\ ConfigWatchNext
  /\ UNCHANGED kind

RegistriesSpec == RegistriesInit /\ [][RegistriesNext]_vars

(* A table that goroutines share stays true to what it stands for: a       *)
(* takeover displaced the owner that was looked up, a removed client is    *)
(* used no more, no socket outlives its registry, every request has the    *)
(* priority of its own stream, a handle reaches its own Controller, and    *)
(* the current configuration passed every check and is what the            *)
(* application was told.                                                   *)
RegistriesSafe ==
  /\ kind = "federation" => TakeoverFromKnownOwner
  /\ kind = "mock" => ClosedIsUnusable
  /\ kind = "tsn" => OwnPriority /\ TsnNoSocketLeft
  /\ kind = "dials" => DialsNoSocketLeft
  /\ kind = "handles" => HandleReachesItsOwn
  /\ kind = "config" => CurrentIsSound /\ CurrentOrPolling /\ ToldCurrent
=============================================================================
