--------------------------- MODULE GatewaysProofs ---------------------------
(***************************************************************************)
(* Gateways keeps its promises, for every value of the constants: for each *)
(* package an inductive invariant, that it holds at first, that every step *)
(* keeps it and that it implies the package's property.                    *)
(***************************************************************************)
EXTENDS Gateways, FiniteSetTheorems, TLAPS

(* What a call does to the table of calls. *)
LEMMA GoesOne ==
  ASSUME calls = [d \in Callers |-> calls[d]], NEW c \in Callers, NEW k, goes(c, k)
  PROVE  /\ calls' = [d \in Callers |-> calls'[d]]
         /\ calls'[c] = k /\ \A d \in Callers : d # c => calls'[d] = calls[d]
BY DEF goes

-----------------------------------------------------------------------------
(* admin. *)
(* admin.Server.  A call is between getOrCreate and publish, *)
isRecording(k) == k.pc \in {"req", "err", "miss", "health", "publish"}
good(k) == k.healthy

(* and has counted its request (what = "req"), its failure or its missed   *)
(* deadline in the record of key, but is not in the history yet.           *)
counted(k, key, what) ==
  /\ k.key = key
  /\ \/ what = "req" /\ k.pc \in {"err", "miss", "health"}
     \/ what = "err" /\ k.pc \in {"miss", "health"} /\ k.err
     \/ what = "miss" /\ k.pc = "health" /\ k.miss

uncredited(key, what) == Cardinality({c \in Callers : counted(calls[c], key, what)})

ServerState == [req : Nat, err : Nat, miss : Nat, healthy : BOOLEAN]
Tally == [req : Nat, err : Nat, miss : Nat]

AdminCall(k, states) ==
  /\ k.pc \in {"idle", "parse", "record", "req", "err", "miss", "health", "publish"}
  /\ k.pc # "idle" => k.key \in Administered
  /\ k.pc = "record" => k.healthy \in BOOLEAN
  /\ isRecording(k) => /\ DOMAIN k = {"pc", "key", "err", "healthy", "miss", "state"} /\ k.healthy \in BOOLEAN
                       /\ k.key \in DOMAIN states /\ k.state = states[k.key]
  /\ k.pc = "err" => k.err
  /\ k.pc = "miss" => k.miss

AdminFields ==
  /\ DOMAIN st = {"ctrls", "pool", "states", "subs"}
  /\ DOMAIN seen = {"done", "removed", "panics", "begun", "told", "missed", "mixed"}

(* Each server has a record of its own. *)
AdminPool ==
  /\ st.pool \in Seq(ServerState)
  /\ DOMAIN st.states \subseteq Administered
  /\ \A k \in DOMAIN st.states : st.states[k] \in 1..Len(st.pool)
  /\ \A k, l \in DOMAIN st.states : st.states[k] = st.states[l] => k = l

AdminDone == seen.done \in [Administered -> Tally]

AdminCalls ==
  /\ calls = [c \in Callers |-> calls[c]]
  /\ \A c \in Callers : AdminCall(calls[c], st.states)

AdminShape == AdminFields /\ AdminPool /\ AdminDone /\ AdminCalls

(* A record is ahead of the history by what is being recorded. *)
AdminCounts ==
  \A k \in Administered :
    /\ k \in DOMAIN st.states => /\ st.pool[st.states[k]].req = seen.done[k].req + uncredited(k, "req")
                                 /\ st.pool[st.states[k]].err = seen.done[k].err + uncredited(k, "err")
                                 /\ st.pool[st.states[k]].miss = seen.done[k].miss + uncredited(k, "miss")
    /\ k \notin DOMAIN st.states => seen.done[k].req = 0 /\ seen.done[k].err = 0 /\ seen.done[k].miss = 0

(* Whoever finds no Controller has been told so. *)
AdminNil ==
  /\ seen.panics = {}
  /\ \A c \in Callers : calls[c].pc = "parse" => calls[c].key \in st.ctrls \/ c \in seen.removed

(* Unless two requests of a server mix, the one that has set the health is *)
(* about to publish it.                                                    *)
AdminTells ==
  /\ \A c, d \in Callers : isRecording(calls[c]) /\ isRecording(calls[d]) /\ calls[c].key = calls[d].key
                             /\ calls[c].key \notin seen.mixed => c = d
  /\ \A c \in Callers : calls[c].pc = "publish" /\ calls[c].key \notin seen.mixed =>
       st.pool[st.states[calls[c].key]].healthy = good(calls[c])
  /\ DOMAIN seen.told \subseteq DOMAIN st.states
  /\ st.subs = {} => DOMAIN seen.told = {}
  /\ \A k \in DOMAIN seen.told : k \notin seen.missed /\ k \notin seen.mixed =>
       \/ seen.told[k] = st.pool[st.states[k]].healthy
       \/ \E c \in Callers : calls[c].pc = "publish" /\ calls[c].key = k

AdminInv == AdminShape /\ AdminCounts /\ AdminNil /\ AdminTells

LEMMA AdminInitial == AdminInit => AdminInv
<1> SUFFICES ASSUME AdminInit PROVE AdminInv
  OBVIOUS
<1>1. calls = [c \in Callers |-> Idle] /\ Idle.pc = "idle"
  BY DEF AdminInit, CallsInit, Idle
<1>2. \A c \in Callers : calls[c].pc = "idle"
  BY <1>1
<1>3. /\ DOMAIN st = {"ctrls", "pool", "states", "subs"}
      /\ st.ctrls = {} /\ st.pool = <<>> /\ st.states = <<>> /\ st.subs = {}
  BY DEF AdminInit
<1>4. /\ DOMAIN seen = {"done", "removed", "panics", "begun", "told", "missed", "mixed"}
      /\ seen.done = [k \in Administered |-> [req |-> 0, err |-> 0, miss |-> 0]] /\ seen.panics = {} /\ seen.told = <<>>
  BY DEF AdminInit
<1>5. DOMAIN st.states = {} /\ DOMAIN seen.told = {}
  BY <1>3, <1>4
<1>6. AdminShape
  <2>1. \A c \in Callers : AdminCall(calls[c], st.states)
    BY <1>2 DEF AdminCall, isRecording
  <2>2. seen.done \in [Administered -> Tally]
    BY <1>4 DEF Tally
  <2> QED
    BY <1>1, <1>3, <1>4, <1>5, <2>1, <2>2 DEF AdminShape, AdminFields, AdminPool, AdminDone, AdminCalls
<1>7. AdminCounts
  BY <1>4, <1>5 DEF AdminCounts
<1>8. AdminNil
  BY <1>2, <1>4 DEF AdminNil
<1>9. AdminTells
  BY <1>2, <1>5 DEF AdminTells, isRecording
<1> QED
  BY <1>6, <1>7, <1>8, <1>9 DEF AdminInv

LEMMA AdminSound == AdminInv => NilOnlyIfRemoved /\ LastEventTells /\ CountsAgree
<1> SUFFICES ASSUME AdminInv PROVE LastEventTells /\ CountsAgree
  BY DEF AdminInv, AdminNil, NilOnlyIfRemoved
<1>1. LastEventTells
  <2> SUFFICES ASSUME NEW k \in DOMAIN seen.told, k \notin seen.missed, k \notin seen.mixed,
                      \A c \in Callers : recording(c) => calls[c].key # k
               PROVE  seen.told[k] = st.pool[st.states[k]].healthy
    BY DEF LastEventTells
  <2>1. ~\E c \in Callers : calls[c].pc = "publish" /\ calls[c].key = k
    BY DEF recording
  <2> QED
    BY Zenon, <2>1 DEF AdminInv, AdminTells
<1>2. CountsAgree
  <2> SUFFICES ASSUME NEW k \in Administered, \A c \in Callers : at(c, "idle") \/ calls[c].key # k
               PROVE  IF k \in DOMAIN st.states
                        THEN /\ st.pool[st.states[k]].req = seen.done[k].req
                             /\ st.pool[st.states[k]].err = seen.done[k].err
                             /\ st.pool[st.states[k]].miss = seen.done[k].miss
                        ELSE seen.done[k].req = 0
    BY DEF CountsAgree
  <2>1. \A c \in Callers, what \in {"req", "err", "miss"} : ~counted(calls[c], k, what)
    BY DEF counted, at
  <2>2. \A what \in {"req", "err", "miss"} : {c \in Callers : counted(calls[c], k, what)} = {}
    BY Zenon, <2>1
  <2>3. \A what \in {"req", "err", "miss"} : uncredited(k, what) = 0
    BY <2>2, FS_EmptySet DEF uncredited
  <2>4. seen.done[k].req \in Nat /\ seen.done[k].err \in Nat /\ seen.done[k].miss \in Nat
    BY DEF AdminInv, AdminShape, AdminDone, Tally
  <2> QED
    BY <2>3, <2>4 DEF AdminInv, AdminCounts
<1> QED
  BY <1>1, <1>2

LEMMA UncreditedIs ==
  ASSUME NEW key, NEW what
  PROVE  /\ uncredited(key, what) = Cardinality({c \in Callers : counted(calls[c], key, what)})
         /\ uncredited(key, what)' = Cardinality({c \in Callers : counted(calls'[c], key, what)})
BY Zenon DEF uncredited, counted

(* What a step of one call does to the number of those counted and not in the history. *)
LEMMA UncreditedChange ==
  ASSUME calls = [d \in Callers |-> calls[d]], NEW c \in Callers, NEW k, goes(c, k), NEW key, NEW what
  PROVE  /\ uncredited(key, what) \in Nat
         /\ (counted(k, key, what) <=> counted(calls[c], key, what)) => uncredited(key, what)' = uncredited(key, what)
         /\ counted(k, key, what) /\ ~counted(calls[c], key, what) => uncredited(key, what)' = uncredited(key, what) + 1
         /\ ~counted(k, key, what) /\ counted(calls[c], key, what) => uncredited(key, what)' = uncredited(key, what) - 1
<1> DEFINE U == {d \in Callers : counted(calls[d], key, what)}
           V == {d \in Callers : counted(calls'[d], key, what)}
<1>1. calls'[c] = k /\ \A d \in Callers : d # c => calls'[d] = calls[d]
  BY GoesOne
<1>2. U \subseteq Callers /\ IsFiniteSet(U) /\ Cardinality(U) \in Nat
  BY CallersAssumption, FS_Subset, FS_CardinalityType
<1>3. V \ {c} = U \ {c} /\ (c \in V <=> counted(k, key, what)) /\ (c \in U <=> counted(calls[c], key, what))
  BY <1>1
<1> HIDE DEF U, V
<1>4. uncredited(key, what) = Cardinality(U) /\ uncredited(key, what)' = Cardinality(V)
  BY UncreditedIs, Zenon DEF U, V
<1>5. CASE counted(k, key, what) <=> counted(calls[c], key, what)
  <2>1. U = V
    BY <1>3, <1>5
  <2> QED
    BY <1>2, <1>4, <1>5, <2>1
<1>6. CASE counted(k, key, what) /\ ~counted(calls[c], key, what)
  <2>1. V = U \cup {c} /\ c \notin U
    BY <1>3, <1>6
  <2> QED
    BY Zenon, <1>2, <1>4, <1>6, <2>1, FS_AddElement
<1>7. CASE ~counted(k, key, what) /\ counted(calls[c], key, what)
  <2>1. V = U \ {c} /\ c \in U
    BY <1>3, <1>7
  <2>2. Cardinality(V) = Cardinality(U) - 1
    BY <1>2, <2>1, FS_RemoveElement
  <2> QED
    BY <1>2, <1>4, <1>7, <2>2
<1> QED
  BY <1>5, <1>6, <1>7

LEMMA CountsKeep ==
  ASSUME AdminShape, AdminCounts, st'.pool = st.pool, st'.states = st.states, seen'.done = seen.done,
         \A k \in Administered : /\ uncredited(k, "req")' = uncredited(k, "req")
                                 /\ uncredited(k, "err")' = uncredited(k, "err")
                                 /\ uncredited(k, "miss")' = uncredited(k, "miss")
  PROVE  AdminCounts'
BY DEF AdminCounts

LEMMA AdminCallGoes ==
  ASSUME AdminShape, NEW c \in Callers, NEW k, goes(c, k), AdminCall(k, st.states), st'.states = st.states
  PROVE  /\ calls' = [d \in Callers |-> calls'[d]] /\ \A d \in Callers : AdminCall(calls'[d], st'.states)
         /\ calls'[c] = k /\ \A d \in Callers : d # c => calls'[d] = calls[d]
<1>1. /\ calls' = [d \in Callers |-> calls'[d]]
      /\ calls'[c] = k /\ \A d \in Callers : d # c => calls'[d] = calls[d]
  BY GoesOne DEF AdminShape, AdminCalls
<1> QED
  BY <1>1 DEF AdminShape, AdminCalls

(* A step of a call that is not recording, *)
LEMMA OutsideGoes ==
  ASSUME AdminInv, NEW c \in Callers, NEW k, goes(c, k), AdminCall(k, st.states),
         ~isRecording(k), ~isRecording(calls[c]), st' = st, DOMAIN seen' = DOMAIN seen, seen'.done = seen.done,
         seen'.told = seen.told, seen'.missed = seen.missed, seen'.mixed = seen.mixed
  PROVE  AdminShape' /\ AdminCounts' /\ AdminTells'
<1>1. /\ calls' = [d \in Callers |-> calls'[d]] /\ \A d \in Callers : AdminCall(calls'[d], st'.states)
      /\ calls'[c] = k /\ \A d \in Callers : d # c => calls'[d] = calls[d]
  BY AdminCallGoes DEF AdminInv
<1>2. AdminShape'
  BY <1>1 DEF AdminInv, AdminShape, AdminFields, AdminPool, AdminDone, AdminCalls
<1>3. \A key, what : ~counted(k, key, what) /\ ~counted(calls[c], key, what)
  BY DEF counted, isRecording
<1>4. \A key, what : uncredited(key, what)' = uncredited(key, what)
  BY <1>3, UncreditedChange DEF AdminInv, AdminShape, AdminCalls
<1>5. AdminCounts'
  BY <1>4, CountsKeep DEF AdminInv
<1>6. \A d \in Callers : isRecording(calls'[d]) \/ isRecording(calls[d]) => calls'[d] = calls[d]
  BY <1>1
<1>7. \A d \in Callers : calls'[d].pc = "publish" \/ calls[d].pc = "publish" => calls'[d] = calls[d]
  BY <1>6 DEF isRecording
<1>8. \A d \in Callers : isRecording(calls'[d]) => isRecording(calls[d])
  BY <1>6
<1>9. AdminTells'
  <2>1. \A d, e \in Callers : isRecording(calls'[d]) /\ isRecording(calls'[e]) /\ calls'[d].key = calls'[e].key
                                /\ calls'[d].key \notin seen.mixed => d = e
    BY Zenon, <1>6, <1>8 DEF AdminInv, AdminTells
  <2>2. \A d \in Callers : calls'[d].pc = "publish" /\ calls'[d].key \notin seen.mixed =>
          st.pool[st.states[calls'[d].key]].healthy = good(calls'[d])
    BY Zenon, <1>7 DEF AdminInv, AdminTells
  <2>3. \A l \in DOMAIN seen.told : l \notin seen.missed /\ l \notin seen.mixed =>
          \/ seen.told[l] = st.pool[st.states[l]].healthy
          \/ \E d \in Callers : calls'[d].pc = "publish" /\ calls'[d].key = l
    BY <1>7 DEF AdminInv, AdminTells
  <2> QED
    BY Zenon, <2>1, <2>2, <2>3 DEF AdminInv, AdminTells
<1> QED
  BY <1>2, <1>5, <1>9

(* and one of no call, which leaves the records alone. *)
LEMMA NoCallGoes ==
  ASSUME AdminInv, calls' = calls, st'.pool = st.pool, st'.states = st.states,
         DOMAIN st' = DOMAIN st, DOMAIN seen' = DOMAIN seen, seen'.done = seen.done
  PROVE  AdminShape' /\ AdminCounts'
<1>1. AdminShape'
  BY DEF AdminInv, AdminShape, AdminFields, AdminPool, AdminDone, AdminCalls
<1>2. \A key, what : uncredited(key, what)' = uncredited(key, what)
  BY Zenon DEF uncredited
<1>3. AdminCounts'
  BY <1>2, CountsKeep DEF AdminInv
<1> QED
  BY <1>1, <1>3

LEMMA AdminRegisters ==
  ASSUME AdminInv, NEW k \in Administered, AdminRegister(k) \/ AdminDeregister(k)
  PROVE  AdminInv'
<1>1. /\ DOMAIN st' = DOMAIN st /\ st'.pool = st.pool /\ st'.states = st.states /\ st'.subs = st.subs
      /\ DOMAIN seen' = DOMAIN seen /\ seen'.done = seen.done /\ seen'.told = seen.told /\ seen'.missed = seen.missed
      /\ seen'.mixed = seen.mixed /\ seen'.panics = seen.panics /\ calls' = calls
  BY DEF AdminRegister, AdminDeregister, AdminInv, AdminShape, AdminFields
<1>2. AdminShape' /\ AdminCounts'
  BY <1>1, NoCallGoes
<1>3. AdminTells'
  BY Zenon, <1>1 DEF AdminInv, AdminTells
<1>4. CASE AdminRegister(k)
  <2>1. st'.ctrls = st.ctrls \cup {k} /\ seen' = seen
    BY <1>4 DEF AdminRegister, AdminInv, AdminShape, AdminFields
  <2> QED
    BY <1>1, <1>2, <1>3, <2>1 DEF AdminInv, AdminNil
<1>5. CASE AdminDeregister(k)
  <2>1. /\ st'.ctrls = st.ctrls \ {k}
        /\ seen'.removed = seen.removed \cup {c \in Callers : calls[c].pc = "parse" /\ calls[c].key = k}
    BY <1>5 DEF AdminDeregister, AdminInv, AdminShape, AdminFields, at
  <2>2. AdminNil'
    BY <1>1, <2>1 DEF AdminInv, AdminNil
  <2> QED
    BY <1>2, <1>3, <2>2 DEF AdminInv
<1> QED
  BY <1>4, <1>5

LEMMA AdminServes ==
  ASSUME AdminInv, NEW c \in Callers, NEW k \in Administered, HandleServer(c, k)
  PROVE  AdminInv'
<1> DEFINE new == [pc |-> "parse", key |-> k]
<1>1. goes(c, new) /\ calls[c].pc = "idle" /\ k \in st.ctrls /\ st' = st
  BY DEF HandleServer, known, at
<1>2. /\ DOMAIN seen' = DOMAIN seen /\ seen'.done = seen.done /\ seen'.told = seen.told /\ seen'.missed = seen.missed
      /\ seen'.mixed = seen.mixed /\ seen'.panics = seen.panics /\ seen'.removed = seen.removed \ {c}
  BY DEF HandleServer, AdminInv, AdminShape, AdminFields
<1>3. AdminCall(new, st.states) /\ ~isRecording(new) /\ ~isRecording(calls[c]) /\ new.key = k
  BY <1>1 DEF AdminCall, isRecording
<1> HIDE DEF new
<1>4. AdminShape' /\ AdminCounts' /\ AdminTells'
  BY <1>1, <1>2, <1>3, OutsideGoes
<1>5. calls'[c] = new /\ \A d \in Callers : d # c => calls'[d] = calls[d]
  BY <1>1, GoesOne DEF AdminInv, AdminShape, AdminCalls
<1>6. AdminNil'
  BY <1>1, <1>2, <1>3, <1>5 DEF AdminInv, AdminNil
<1> QED
  BY <1>4, <1>6 DEF AdminInv

LEMMA AdminRefuses ==
  ASSUME AdminInv, NEW c \in Callers, RequestRefused(c)
  PROVE  AdminInv'
<1>1. goes(c, Idle) /\ calls[c].pc = "parse" /\ st' = st /\ seen' = seen
  BY DEF RequestRefused, at, returns
<1>2. AdminCall(Idle, st.states) /\ ~isRecording(Idle) /\ Idle.pc = "idle" /\ ~isRecording(calls[c])
  BY <1>1 DEF AdminCall, isRecording, Idle
<1>3. AdminShape' /\ AdminCounts' /\ AdminTells'
  BY <1>1, <1>2, OutsideGoes
<1>4. calls'[c] = Idle /\ \A d \in Callers : d # c => calls'[d] = calls[d]
  BY <1>1, GoesOne DEF AdminInv, AdminShape, AdminCalls
<1>5. AdminNil'
  BY <1>1, <1>2, <1>4 DEF AdminInv, AdminNil
<1> QED
  BY <1>3, <1>5 DEF AdminInv

LEMMA AdminIsTold ==
  ASSUME AdminInv, NEW c \in Callers, NEW k \in Administered, NEW healthy \in BOOLEAN, NEW err \in BOOLEAN,
         NEW miss \in BOOLEAN, RecordRequest(c, k, healthy, err, miss)
  PROVE  AdminInv'
<1> DEFINE new == [pc |-> "record", key |-> k, err |-> err, healthy |-> healthy, miss |-> miss]
<1>1. goes(c, new) /\ calls[c].pc = "idle" /\ st' = st /\ seen' = [seen EXCEPT !.begun = @ + 1]
  BY DEF RecordRequest, at
<1>2. /\ DOMAIN seen' = DOMAIN seen /\ seen'.done = seen.done /\ seen'.told = seen.told /\ seen'.missed = seen.missed
      /\ seen'.mixed = seen.mixed /\ seen'.panics = seen.panics /\ seen'.removed = seen.removed
  BY <1>1 DEF AdminInv, AdminShape, AdminFields
<1>3. AdminCall(new, st.states) /\ ~isRecording(new) /\ ~isRecording(calls[c]) /\ new.pc = "record"
  BY <1>1 DEF AdminCall, isRecording
<1> HIDE DEF new
<1>4. AdminShape' /\ AdminCounts' /\ AdminTells'
  BY <1>1, <1>2, <1>3, OutsideGoes
<1>5. calls'[c] = new /\ \A d \in Callers : d # c => calls'[d] = calls[d]
  BY <1>1, GoesOne DEF AdminInv, AdminShape, AdminCalls
<1>6. AdminNil'
  BY <1>1, <1>2, <1>3, <1>5 DEF AdminInv, AdminNil
<1> QED
  BY <1>4, <1>6 DEF AdminInv

LEMMA AdminRequests ==
  ASSUME AdminInv, NEW c \in Callers, HandleRequest(c)
  PROVE  AdminInv'
<1>1. calls[c].pc = "parse" /\ st' = st
  BY DEF HandleRequest, at
<1>2. ~isRecording(calls[c]) /\ calls[c].key \in Administered
  BY <1>1 DEF isRecording, AdminInv, AdminShape, AdminCalls, AdminCall
<1>3. calls[c].key \in st.ctrls \/ c \in seen.removed
  BY <1>1 DEF AdminInv, AdminNil
<1>4. CASE calls[c].key \in st.ctrls
  <2>1. PICK err \in BOOLEAN : goes(c, [pc |-> "record", key |-> calls[c].key, err |-> err, healthy |-> ~err, miss |-> FALSE])
    BY <1>4 DEF HandleRequest
  <2> DEFINE new == [pc |-> "record", key |-> calls[c].key, err |-> err, healthy |-> ~err, miss |-> FALSE]
  <2>2. goes(c, new) /\ seen' = seen
    BY <1>4, <2>1 DEF HandleRequest
  <2>3. AdminCall(new, st.states) /\ ~isRecording(new) /\ new.pc = "record"
    BY <1>2 DEF AdminCall, isRecording
  <2> HIDE DEF new
  <2>4. AdminShape' /\ AdminCounts' /\ AdminTells'
    BY <1>1, <1>2, <2>2, <2>3, OutsideGoes
  <2>5. calls'[c] = new /\ \A d \in Callers : d # c => calls'[d] = calls[d]
    BY <2>2, GoesOne DEF AdminInv, AdminShape, AdminCalls
  <2>6. AdminNil'
    BY <1>1, <2>2, <2>3, <2>5 DEF AdminInv, AdminNil
  <2> QED
    BY <2>4, <2>6 DEF AdminInv
<1>5. CASE calls[c].key \notin st.ctrls
  <2>1. goes(c, Idle) /\ seen' = [seen EXCEPT !.panics = seen.panics]
    BY <1>3, <1>5 DEF HandleRequest, returns
  <2>2. /\ DOMAIN seen' = DOMAIN seen /\ seen'.done = seen.done /\ seen'.told = seen.told /\ seen'.missed = seen.missed
        /\ seen'.mixed = seen.mixed /\ seen'.panics = seen.panics /\ seen'.removed = seen.removed
    BY <2>1 DEF AdminInv, AdminShape, AdminFields
  <2>3. AdminCall(Idle, st.states) /\ ~isRecording(Idle) /\ Idle.pc = "idle"
    BY DEF AdminCall, isRecording, Idle
  <2>4. AdminShape' /\ AdminCounts' /\ AdminTells'
    BY <1>1, <1>2, <2>1, <2>2, <2>3, OutsideGoes
  <2>5. calls'[c] = Idle /\ \A d \in Callers : d # c => calls'[d] = calls[d]
    BY <2>1, GoesOne DEF AdminInv, AdminShape, AdminCalls
  <2>6. AdminNil'
    BY <1>1, <2>2, <2>3, <2>5 DEF AdminInv, AdminNil
  <2> QED
    BY <2>4, <2>6 DEF AdminInv
<1> QED
  BY <1>4, <1>5

LEMMA AdminEvents ==
  ASSUME AdminInv, EventsBegin \/ EventsSend \/ EventsEnd
  PROVE  AdminInv'
<1>1. /\ DOMAIN st' = DOMAIN st /\ st'.pool = st.pool /\ st'.states = st.states /\ st'.ctrls = st.ctrls
      /\ DOMAIN seen' = DOMAIN seen /\ seen'.done = seen.done /\ seen'.removed = seen.removed
      /\ seen'.mixed = seen.mixed /\ seen'.panics = seen.panics /\ calls' = calls
  BY ZenonT(40) DEF EventsBegin, EventsSend, EventsEnd, AdminInv, AdminShape, AdminFields
<1>2. AdminShape' /\ AdminCounts'
  BY <1>1, NoCallGoes
<1>3. AdminNil'
  BY <1>1 DEF AdminInv, AdminNil
<1>4. CASE EventsSend
  <2>1. st.subs # {} /\ st'.subs # {} /\ seen' = seen
    BY Zenon, <1>4 DEF EventsSend, AdminInv, AdminShape, AdminFields
  <2> QED
    BY ZenonT(40), <1>1, <1>2, <1>3, <2>1 DEF AdminInv, AdminTells
<1>5. CASE EventsBegin \/ EventsEnd
  <2>1. seen'.told = <<>>
    BY Zenon, <1>5 DEF EventsBegin, EventsEnd, AdminInv, AdminShape, AdminFields
  <2>2. DOMAIN seen'.told = {}
    BY <2>1
  <2> QED
    BY Zenon, <1>1, <1>2, <1>3, <2>2 DEF AdminInv, AdminTells
<1> QED
  BY <1>4, <1>5

(* What a write to the record of a call's server does. *)
LEMMA RecordWrites ==
  ASSUME AdminInv, NEW c \in Callers, isRecording(calls[c]), NEW r \in ServerState,
         st'.pool = [st.pool EXCEPT ![calls[c].state] = r], st'.states = st.states
  PROVE  /\ st'.pool \in Seq(ServerState) /\ Len(st'.pool) = Len(st.pool)
         /\ st'.pool[st.states[calls[c].key]] = r
         /\ \A k \in DOMAIN st.states : k # calls[c].key => st'.pool[st.states[k]] = st.pool[st.states[k]]
<1> DEFINE key == calls[c].key i == calls[c].state P == st.pool Q == st'.pool S == st.states
<1>1. key \in DOMAIN S /\ i = S[key]
  BY Zenon DEF AdminInv, AdminShape, AdminCalls, AdminCall
<1>2. P \in Seq(ServerState) /\ \A k \in DOMAIN S : S[k] \in 1..Len(P)
  BY Zenon DEF AdminInv, AdminShape, AdminPool
<1>3. \A k, l \in DOMAIN S : S[k] = S[l] => k = l
  BY Zenon DEF AdminInv, AdminShape, AdminPool
<1>4. Q = [P EXCEPT ![i] = r]
  OBVIOUS
<1> HIDE DEF key, i, P, Q, S
<1>5. i \in 1..Len(P)
  BY <1>1, <1>2
<1>6. Q \in Seq(ServerState) /\ Len(Q) = Len(P) /\ Q[i] = r /\ \A j \in 1..Len(P) : j # i => Q[j] = P[j]
  BY <1>2, <1>4, <1>5
<1>7. \A k \in DOMAIN S : k # key => Q[S[k]] = P[S[k]]
  BY <1>1, <1>2, <1>3, <1>6
<1> QED
  BY Zenon, <1>1, <1>6, <1>7 DEF key, i, P, Q, S

LEMMA RecordCall ==
  ASSUME NEW k, NEW states, NEW p, AdminCall(k, states), isRecording(k), 
         p \in {"health", "publish"} \/ (p = "err" /\ k.err) \/ (p = "miss" /\ k.miss)
  PROVE  LET n == [k EXCEPT !.pc = p] IN
         /\ AdminCall(n, states) /\ isRecording(n) /\ n.pc = p /\ n.key = k.key
         /\ n.err = k.err /\ n.miss = k.miss /\ n.healthy = k.healthy
BY DEF AdminCall, isRecording

(* A step of a call that is recording. *)
LEMMA InsideGoes ==
  ASSUME AdminInv, NEW c \in Callers, NEW k, goes(c, k), AdminCall(k, st.states),
         isRecording(k), isRecording(calls[c]), NEW r \in ServerState,
         st'.pool = [st.pool EXCEPT ![calls[c].state] = r], st'.states = st.states, st'.ctrls = st.ctrls,
         DOMAIN st' = DOMAIN st, DOMAIN seen' = DOMAIN seen,
         seen'.done \in [Administered -> Tally], seen'.panics = seen.panics, seen'.removed = seen.removed
  PROVE  AdminShape' /\ AdminNil'
<1>1. /\ calls' = [d \in Callers |-> calls'[d]] /\ \A d \in Callers : AdminCall(calls'[d], st'.states)
      /\ calls'[c] = k /\ \A d \in Callers : d # c => calls'[d] = calls[d]
  BY AdminCallGoes DEF AdminInv
<1>2. st'.pool \in Seq(ServerState) /\ Len(st'.pool) = Len(st.pool)
  BY Zenon, RecordWrites
<1>3. \A l \in DOMAIN st'.states : st'.states[l] \in 1..Len(st'.pool)
  BY <1>2 DEF AdminInv, AdminShape, AdminPool
<1>4. AdminShape'
  BY <1>1, <1>2, <1>3 DEF AdminInv, AdminShape, AdminFields, AdminPool, AdminDone, AdminCalls
<1>5. k.pc # "parse"
  BY DEF isRecording
<1>6. AdminNil'
  BY <1>1, <1>5 DEF AdminInv, AdminNil
<1> QED
  BY Zenon, <1>4, <1>6

LEMMA TellsKeep ==
  ASSUME AdminInv, NEW c \in Callers, NEW k, goes(c, k), isRecording(k), isRecording(calls[c]), k.key = calls[c].key,
         k.pc # "publish", calls[c].pc # "publish", st'.states = st.states, st'.subs = st.subs,
         \A l \in DOMAIN st.states : st'.pool[st.states[l]].healthy = st.pool[st.states[l]].healthy,
         seen'.told = seen.told, seen'.missed = seen.missed, seen'.mixed = seen.mixed
  PROVE  AdminTells'
<1>1. calls'[c] = k /\ \A d \in Callers : d # c => calls'[d] = calls[d]
  BY GoesOne DEF AdminInv, AdminShape, AdminCalls
<1>2. \A d \in Callers : /\ isRecording(calls'[d]) <=> isRecording(calls[d])
                         /\ isRecording(calls[d]) => calls'[d].key = calls[d].key
  BY <1>1
<1>3. \A d \in Callers : /\ calls'[d].pc = "publish" \/ calls[d].pc = "publish" => calls'[d] = calls[d]
  BY <1>1
<1>4. \A d \in Callers : calls[d].pc = "publish" => calls[d].key \in DOMAIN st.states
  BY DEF AdminInv, AdminShape, AdminCalls, AdminCall, isRecording
<1>5. \A d, e \in Callers : isRecording(calls'[d]) /\ isRecording(calls'[e]) /\ calls'[d].key = calls'[e].key
                                /\ calls'[d].key \notin seen.mixed => d = e
  BY Zenon, <1>2 DEF AdminInv, AdminTells
<1>6. \A d \in Callers : calls'[d].pc = "publish" /\ calls'[d].key \notin seen.mixed =>
          st'.pool[st.states[calls'[d].key]].healthy = good(calls'[d])
  BY SMTT(30), <1>3, <1>4 DEF AdminInv, AdminTells
<1>7. \A l \in DOMAIN seen.told : l \notin seen.missed /\ l \notin seen.mixed =>
          \/ seen.told[l] = st'.pool[st.states[l]].healthy
          \/ \E d \in Callers : calls'[d].pc = "publish" /\ calls'[d].key = l
  BY SMTT(30), <1>3 DEF AdminInv, AdminTells
<1> QED
  BY ZenonT(40), <1>5, <1>6, <1>7 DEF AdminInv, AdminTells

(* The record and the history of the call's server move together. *)
LEMMA CountsMove ==
  ASSUME AdminInv, NEW c \in Callers, NEW k, goes(c, k), isRecording(calls[c]), NEW key, k.key = key, calls[c].key = key,
         NEW r \in ServerState, st'.pool = [st.pool EXCEPT ![calls[c].state] = r], st'.states = st.states,
         r.req = seen'.done[key].req + uncredited(key, "req")', r.err = seen'.done[key].err + uncredited(key, "err")',
         r.miss = seen'.done[key].miss + uncredited(key, "miss")',
         \A l \in Administered \ {key} : seen'.done[l] = seen.done[l]
  PROVE  AdminCounts'
<1>1. /\ st'.pool[st.states[key]] = r
      /\ \A l \in DOMAIN st.states : l # key => st'.pool[st.states[l]] = st.pool[st.states[l]]
  BY SMTT(30), RecordWrites
<1>2. \A l, what : l # key => ~counted(k, l, what) /\ ~counted(calls[c], l, what)
  BY DEF counted
<1>3. \A l, what : l # key => uncredited(l, what)' = uncredited(l, what)
  BY <1>2, UncreditedChange DEF AdminInv, AdminShape, AdminCalls
<1>4. key \in DOMAIN st.states
  BY DEF AdminInv, AdminShape, AdminCalls, AdminCall
<1> SUFFICES ASSUME NEW l \in Administered
             PROVE  /\ l \in DOMAIN st.states =>
                         /\ st'.pool[st.states[l]].req = seen'.done[l].req + uncredited(l, "req")'
                         /\ st'.pool[st.states[l]].err = seen'.done[l].err + uncredited(l, "err")'
                         /\ st'.pool[st.states[l]].miss = seen'.done[l].miss + uncredited(l, "miss")'
                    /\ l \notin DOMAIN st.states => /\ seen'.done[l].req = 0 /\ seen'.done[l].err = 0
                                                    /\ seen'.done[l].miss = 0
  BY Zenon DEF AdminCounts
<1>5. CASE l = key
  BY Zenon, <1>1, <1>4, <1>5
<1>6. CASE l # key
  <2>1. /\ uncredited(l, "req")' = uncredited(l, "req") /\ uncredited(l, "err")' = uncredited(l, "err")
        /\ uncredited(l, "miss")' = uncredited(l, "miss")
    BY <1>3, <1>6
  <2> QED
    BY ZenonT(40), <1>1, <1>6, <2>1 DEF AdminInv, AdminCounts
<1> QED
  BY Zenon, <1>5, <1>6

LEMMA RecordFields ==
  ASSUME NEW s \in ServerState
  PROVE  /\ \A n \in Nat : LET r == [s EXCEPT !.req = n] IN
              r \in ServerState /\ r.req = n /\ r.err = s.err /\ r.miss = s.miss /\ r.healthy = s.healthy
         /\ \A n \in Nat : LET r == [s EXCEPT !.err = n] IN
              r \in ServerState /\ r.req = s.req /\ r.err = n /\ r.miss = s.miss /\ r.healthy = s.healthy
         /\ \A n \in Nat : LET r == [s EXCEPT !.miss = n] IN
              r \in ServerState /\ r.req = s.req /\ r.err = s.err /\ r.miss = n /\ r.healthy = s.healthy
         /\ \A h \in BOOLEAN : LET r == [s EXCEPT !.healthy = h] IN
              r \in ServerState /\ r.req = s.req /\ r.err = s.err /\ r.miss = s.miss /\ r.healthy = h
BY Zenon DEF ServerState

(* A step that counts n requests, m failures and o missed deadlines in the *)
(* record.                                                                 *)
LEMMA RecordCounts ==
  ASSUME AdminInv, NEW c \in Callers, NEW k, goes(c, k), AdminCall(k, st.states), isRecording(k), isRecording(calls[c]),
         NEW key, calls[c].key = key, k.key = key, k.pc # "publish", calls[c].pc # "publish",
         NEW old, old = st.pool[calls[c].state], NEW r \in ServerState, r.healthy = old.healthy,
         NEW n \in Nat, NEW m \in Nat, NEW o \in Nat, r.req = old.req + n, r.err = old.err + m, r.miss = old.miss + o,
         uncredited(key, "req") \in Nat, uncredited(key, "req")' = uncredited(key, "req") + n,
         uncredited(key, "err") \in Nat, uncredited(key, "err")' = uncredited(key, "err") + m,
         uncredited(key, "miss") \in Nat, uncredited(key, "miss")' = uncredited(key, "miss") + o,
         DOMAIN st' = DOMAIN st, st'.states = st.states, st'.ctrls = st.ctrls, st'.subs = st.subs,
         st'.pool = [st.pool EXCEPT ![calls[c].state] = r], seen' = seen
  PROVE  AdminInv'
<1>1. key \in DOMAIN st.states /\ calls[c].state = st.states[key]
  BY ZenonT(40) DEF AdminInv, AdminShape, AdminCalls, AdminCall
<1>2. key \in Administered
  BY Zenon, <1>1 DEF AdminInv, AdminShape, AdminPool
<1>3. /\ seen.done[key].req \in Nat /\ seen.done[key].err \in Nat /\ seen.done[key].miss \in Nat
      /\ seen'.done \in [Administered -> Tally]
  BY Zenon, <1>2 DEF AdminInv, AdminShape, AdminDone, Tally
<1>4. AdminShape' /\ AdminNil'
  BY Zenon, <1>3, InsideGoes
<1>5. AdminTells'
  <2>1. /\ st'.pool[st.states[calls[c].key]] = r
        /\ \A l \in DOMAIN st.states : l # calls[c].key => st'.pool[st.states[l]] = st.pool[st.states[l]]
    BY Zenon, RecordWrites
  <2>2. \A l \in DOMAIN st.states : st'.pool[st.states[l]].healthy = st.pool[st.states[l]].healthy
    <3> SUFFICES ASSUME NEW l \in DOMAIN st.states PROVE st'.pool[st.states[l]].healthy = st.pool[st.states[l]].healthy
      BY SMTT(30)
    <3>1. CASE l = key
      BY Zenon, <1>1, <2>1, <3>1
    <3>2. CASE l # key
      BY Zenon, <2>1, <3>2
    <3> QED
      BY SMTT(30), <3>1, <3>2
  <2> QED
    BY Zenon, <2>2, TellsKeep
<1>6. AdminCounts'
  <2>1. /\ old.req = seen.done[key].req + uncredited(key, "req") /\ old.err = seen.done[key].err + uncredited(key, "err")
        /\ old.miss = seen.done[key].miss + uncredited(key, "miss")
    BY Zenon, <1>1, <1>2 DEF AdminInv, AdminCounts
  <2>2. /\ r.req = seen.done[key].req + uncredited(key, "req")' /\ r.err = seen.done[key].err + uncredited(key, "err")'
        /\ r.miss = seen.done[key].miss + uncredited(key, "miss")'
    BY SMTT(30), <1>3, <2>1
  <2> QED
    BY SMTT(30), <2>2, CountsMove
<1> QED
  BY Zenon, <1>4, <1>5, <1>6 DEF AdminInv

LEMMA AdminCountsRequest ==
  ASSUME AdminInv, NEW c \in Callers, RecordReq(c)
  PROVE  AdminInv'
<1> DEFINE k == calls[c] p == IF k.err THEN "err" ELSE IF k.miss THEN "miss" ELSE "health" new == [k EXCEPT !.pc = p]
           old == st.pool[k.state] r == [old EXCEPT !.req = old.req + 1]
<1> PICK key : key = k.key
  OBVIOUS
<1>1. k.pc = "req" /\ isRecording(k) /\ AdminCall(k, st.states)
  BY DEF RecordReq, at, isRecording, AdminInv, AdminShape, AdminCalls
<1>2. st' = [st EXCEPT !.pool[k.state].req = @ + 1]
  BY DEF RecordReq
<1>3. /\ DOMAIN st' = DOMAIN st /\ st'.states = st.states /\ st'.ctrls = st.ctrls /\ st'.subs = st.subs
      /\ st'.pool = [st.pool EXCEPT ![k.state] = r]
  BY <1>2 DEF AdminInv, AdminShape, AdminFields
<1>4. goes(c, new) /\ seen' = seen
  BY DEF RecordReq, afterErr
<1>5. /\ AdminCall(new, st.states) /\ isRecording(new) /\ new.pc = p /\ new.key = key
      /\ new.err = k.err /\ new.miss = k.miss
  <2>1. p \in {"health", "publish"} \/ (p = "err" /\ k.err) \/ (p = "miss" /\ k.miss)
    BY Zenon
  <2> HIDE DEF p, k
  <2> QED
    BY <1>1, <2>1, RecordCall
<1>6. /\ new.pc # "publish"
      /\ counted(new, key, "req") /\ ~counted(new, key, "err") /\ ~counted(new, key, "miss")
  BY <1>1, <1>5 DEF counted, AdminCall
<1>7. ~counted(k, key, "req") /\ ~counted(k, key, "err") /\ ~counted(k, key, "miss")
  BY Zenon, <1>1 DEF counted, AdminCall
<1>8. old \in ServerState
  <2>1. k.key \in DOMAIN st.states /\ k.state = st.states[k.key]
    BY Zenon, <1>1 DEF AdminCall
  <2> QED
    BY <2>1 DEF AdminInv, AdminShape, AdminPool
<1>9. r \in ServerState /\ r.req = old.req + 1 /\ r.err = old.err + 0 /\ r.miss = old.miss + 0 /\ r.healthy = old.healthy
  <2>1. old.req \in Nat /\ old.err \in Nat /\ old.miss \in Nat
    BY Zenon, <1>8 DEF ServerState
  <2> HIDE DEF old
  <2>2. old.req + 1 \in Nat
    BY <2>1
  <2>3. r \in ServerState /\ r.req = old.req + 1 /\ r.err = old.err /\ r.miss = old.miss /\ r.healthy = old.healthy
    BY Zenon, <1>8, <2>2, RecordFields
  <2> HIDE DEF r
  <2> QED
    BY <2>1, <2>3
<1> HIDE DEF new, r, old
<1>10. calls = [d \in Callers |-> calls[d]]
  BY DEF AdminInv, AdminShape, AdminCalls
<1>11. uncredited(key, "req") \in Nat /\ uncredited(key, "req")' = uncredited(key, "req") + 1
  BY <1>4, <1>6, <1>7, <1>10, UncreditedChange
<1>12. uncredited(key, "err") \in Nat /\ uncredited(key, "err")' = uncredited(key, "err") + 0
  BY <1>4, <1>6, <1>7, <1>10, UncreditedChange
<1>13. uncredited(key, "miss") \in Nat /\ uncredited(key, "miss")' = uncredited(key, "miss") + 0
  BY <1>4, <1>6, <1>7, <1>10, UncreditedChange
<1>14. old = st.pool[calls[c].state]
  BY DEF old
<1> QED
  BY SMTT(30), <1>1, <1>3, <1>4, <1>5, <1>6, <1>9, <1>11, <1>12, <1>13, <1>14, RecordCounts

LEMMA AdminCountsFailure ==
  ASSUME AdminInv, NEW c \in Callers, RecordErr(c)
  PROVE  AdminInv'
<1> DEFINE k == calls[c] p == IF k.miss THEN "miss" ELSE "health" new == [k EXCEPT !.pc = p]
           old == st.pool[k.state] r == [old EXCEPT !.err = old.err + 1]
<1> PICK key : key = k.key
  OBVIOUS
<1>1. k.pc = "err" /\ isRecording(k) /\ AdminCall(k, st.states)
  BY DEF RecordErr, at, isRecording, AdminInv, AdminShape, AdminCalls
<1>2. st' = [st EXCEPT !.pool[k.state].err = @ + 1]
  BY DEF RecordErr
<1>3. /\ DOMAIN st' = DOMAIN st /\ st'.states = st.states /\ st'.ctrls = st.ctrls /\ st'.subs = st.subs
      /\ st'.pool = [st.pool EXCEPT ![k.state] = r]
  BY <1>2 DEF AdminInv, AdminShape, AdminFields
<1>4. goes(c, new) /\ seen' = seen
  BY DEF RecordErr, afterErr
<1>5. /\ AdminCall(new, st.states) /\ isRecording(new) /\ new.pc = p /\ new.key = key
      /\ new.err = k.err /\ new.miss = k.miss
  <2>1. p \in {"health", "publish"} \/ (p = "err" /\ k.err) \/ (p = "miss" /\ k.miss)
    BY Zenon
  <2> HIDE DEF p, k
  <2> QED
    BY <1>1, <2>1, RecordCall
<1>6. /\ new.pc # "publish"
      /\ counted(new, key, "req") /\ counted(new, key, "err") /\ ~counted(new, key, "miss")
  BY <1>1, <1>5 DEF counted, AdminCall
<1>7. counted(k, key, "req") /\ ~counted(k, key, "err") /\ ~counted(k, key, "miss")
  BY Zenon, <1>1 DEF counted, AdminCall
<1>8. old \in ServerState
  <2>1. k.key \in DOMAIN st.states /\ k.state = st.states[k.key]
    BY Zenon, <1>1 DEF AdminCall
  <2> QED
    BY <2>1 DEF AdminInv, AdminShape, AdminPool
<1>9. r \in ServerState /\ r.req = old.req + 0 /\ r.err = old.err + 1 /\ r.miss = old.miss + 0 /\ r.healthy = old.healthy
  <2>1. old.req \in Nat /\ old.err \in Nat /\ old.miss \in Nat
    BY Zenon, <1>8 DEF ServerState
  <2> HIDE DEF old
  <2>2. old.err + 1 \in Nat
    BY <2>1
  <2>3. r \in ServerState /\ r.req = old.req /\ r.err = old.err + 1 /\ r.miss = old.miss /\ r.healthy = old.healthy
    BY Zenon, <1>8, <2>2, RecordFields
  <2> HIDE DEF r
  <2> QED
    BY <2>1, <2>3
<1> HIDE DEF new, r, old
<1>10. calls = [d \in Callers |-> calls[d]]
  BY DEF AdminInv, AdminShape, AdminCalls
<1>11. uncredited(key, "req") \in Nat /\ uncredited(key, "req")' = uncredited(key, "req") + 0
  BY <1>4, <1>6, <1>7, <1>10, UncreditedChange
<1>12. uncredited(key, "err") \in Nat /\ uncredited(key, "err")' = uncredited(key, "err") + 1
  BY <1>4, <1>6, <1>7, <1>10, UncreditedChange
<1>13. uncredited(key, "miss") \in Nat /\ uncredited(key, "miss")' = uncredited(key, "miss") + 0
  BY <1>4, <1>6, <1>7, <1>10, UncreditedChange
<1>14. old = st.pool[calls[c].state]
  BY DEF old
<1> QED
  BY SMTT(30), <1>1, <1>3, <1>4, <1>5, <1>6, <1>9, <1>11, <1>12, <1>13, <1>14, RecordCounts

LEMMA AdminCountsMiss ==
  ASSUME AdminInv, NEW c \in Callers, RecordMiss(c)
  PROVE  AdminInv'
<1> DEFINE k == calls[c] p == "health" new == [k EXCEPT !.pc = p]
           old == st.pool[k.state] r == [old EXCEPT !.miss = old.miss + 1]
<1> PICK key : key = k.key
  OBVIOUS
<1>1. k.pc = "miss" /\ isRecording(k) /\ AdminCall(k, st.states)
  BY DEF RecordMiss, at, isRecording, AdminInv, AdminShape, AdminCalls
<1>2. st' = [st EXCEPT !.pool[k.state].miss = @ + 1]
  BY DEF RecordMiss
<1>3. /\ DOMAIN st' = DOMAIN st /\ st'.states = st.states /\ st'.ctrls = st.ctrls /\ st'.subs = st.subs
      /\ st'.pool = [st.pool EXCEPT ![k.state] = r]
  BY <1>2 DEF AdminInv, AdminShape, AdminFields
<1>4. goes(c, new) /\ seen' = seen
  BY DEF RecordMiss
<1>5. /\ AdminCall(new, st.states) /\ isRecording(new) /\ new.pc = p /\ new.key = key
      /\ new.err = k.err /\ new.miss = k.miss
  <2>1. p \in {"health", "publish"} \/ (p = "err" /\ k.err) \/ (p = "miss" /\ k.miss)
    BY Zenon
  <2> HIDE DEF p, k
  <2> QED
    BY <1>1, <2>1, RecordCall
<1>6. /\ new.pc # "publish"
      /\ counted(new, key, "req") /\ (counted(new, key, "err") <=> k.err) /\ counted(new, key, "miss")
  BY <1>1, <1>5 DEF counted, AdminCall
<1>7. counted(k, key, "req") /\ (counted(k, key, "err") <=> k.err) /\ ~counted(k, key, "miss")
  BY Zenon, <1>1 DEF counted, AdminCall
<1>8. old \in ServerState
  <2>1. k.key \in DOMAIN st.states /\ k.state = st.states[k.key]
    BY Zenon, <1>1 DEF AdminCall
  <2> QED
    BY <2>1 DEF AdminInv, AdminShape, AdminPool
<1>9. r \in ServerState /\ r.req = old.req + 0 /\ r.err = old.err + 0 /\ r.miss = old.miss + 1 /\ r.healthy = old.healthy
  <2>1. old.req \in Nat /\ old.err \in Nat /\ old.miss \in Nat
    BY Zenon, <1>8 DEF ServerState
  <2> HIDE DEF old
  <2>2. old.miss + 1 \in Nat
    BY <2>1
  <2>3. r \in ServerState /\ r.req = old.req /\ r.err = old.err /\ r.miss = old.miss + 1 /\ r.healthy = old.healthy
    BY Zenon, <1>8, <2>2, RecordFields
  <2> HIDE DEF r
  <2> QED
    BY <2>1, <2>3
<1> HIDE DEF new, r, old
<1>10. calls = [d \in Callers |-> calls[d]]
  BY DEF AdminInv, AdminShape, AdminCalls
<1>11. uncredited(key, "req") \in Nat /\ uncredited(key, "req")' = uncredited(key, "req") + 0
  BY <1>4, <1>6, <1>7, <1>10, UncreditedChange
<1>12. uncredited(key, "err") \in Nat /\ uncredited(key, "err")' = uncredited(key, "err") + 0
  BY <1>4, <1>6, <1>7, <1>10, UncreditedChange
<1>13. uncredited(key, "miss") \in Nat /\ uncredited(key, "miss")' = uncredited(key, "miss") + 1
  BY <1>4, <1>6, <1>7, <1>10, UncreditedChange
<1>14. old = st.pool[calls[c].state]
  BY DEF old
<1> QED
  BY SMTT(30), <1>1, <1>3, <1>4, <1>5, <1>6, <1>9, <1>11, <1>12, <1>13, <1>14, RecordCounts

LEMMA AdminSetsHealth ==
  ASSUME AdminInv, NEW c \in Callers, RecordHealth(c)
  PROVE  AdminInv'
<1> DEFINE k == calls[c] new == [k EXCEPT !.pc = "publish"]
           more == IF k.err THEN 1 ELSE 0 late == IF k.miss THEN 1 ELSE 0
           old == st.pool[k.state] r == [old EXCEPT !.healthy = good(k)]
           d0 == seen.done[k.key] d1 == [req |-> d0.req + 1, err |-> d0.err + more, miss |-> d0.miss + late]
<1> PICK key : key = k.key
  OBVIOUS
<1>1. k.pc = "health" /\ isRecording(k) /\ AdminCall(k, st.states)
  BY DEF RecordHealth, at, isRecording, AdminInv, AdminShape, AdminCalls
<1>2. /\ goes(c, new) /\ seen' = [seen EXCEPT !.done[k.key] = d1]
      /\ st' = [st EXCEPT !.pool[k.state].healthy = good(k)]
  BY Zenon DEF RecordHealth, good
<1>3. /\ DOMAIN st' = DOMAIN st /\ st'.states = st.states /\ st'.ctrls = st.ctrls /\ st'.subs = st.subs
      /\ st'.pool = [st.pool EXCEPT ![k.state] = r]
  <2> DEFINE g == good(k)
  <2> HIDE DEF g
  <2>1. st' = [st EXCEPT !.pool[k.state].healthy = g] /\ r = [old EXCEPT !.healthy = g]
    BY Zenon, <1>2 DEF g
  <2> HIDE DEF r
  <2> QED
    BY <2>1 DEF AdminInv, AdminShape, AdminFields
<1>4. k.key \in DOMAIN st.states /\ k.key \in Administered /\ k.state = st.states[k.key] /\ old \in ServerState
  <2>1. k.key \in DOMAIN st.states /\ k.state = st.states[k.key]
    BY <1>1 DEF AdminCall
  <2> QED
    BY <2>1 DEF AdminInv, AdminShape, AdminPool
<1>5. AdminCall(new, st.states) /\ isRecording(new) /\ new.pc = "publish" /\ new.key = k.key /\ good(new) = good(k)
  <2> HIDE DEF k
  <2> QED
    BY <1>1, RecordCall DEF good
<1>6. \A what : ~counted(new, key, what)
  BY <1>5 DEF counted
<1>7. counted(k, key, "req") /\ (counted(k, key, "err") <=> k.err) /\ (counted(k, key, "miss") <=> k.miss)
  BY <1>1 DEF counted
<1>8. r \in ServerState /\ r.req = old.req /\ r.err = old.err /\ r.miss = old.miss /\ r.healthy = good(k)
  <2> DEFINE g == good(k)
  <2>1. g \in BOOLEAN
    BY Zenon, <1>1 DEF good, AdminCall
  <2> HIDE DEF g, old
  <2>2. [old EXCEPT !.healthy = g] \in ServerState
    BY Zenon, <1>4, <2>1, RecordFields
  <2>3. /\ [old EXCEPT !.healthy = g].req = old.req /\ [old EXCEPT !.healthy = g].err = old.err
        /\ [old EXCEPT !.healthy = g].miss = old.miss /\ [old EXCEPT !.healthy = g].healthy = g
    BY <1>4 DEF ServerState
  <2> QED
    BY <2>2, <2>3 DEF g
<1>9. /\ d0.req \in Nat /\ d0.err \in Nat /\ d0.miss \in Nat /\ more \in {0, 1} /\ late \in {0, 1}
  BY Zenon, <1>4 DEF AdminInv, AdminShape, AdminDone, Tally
<1> HIDE DEF new, r, more, late
<1>10. /\ DOMAIN seen' = DOMAIN seen /\ seen'.told = seen.told /\ seen'.missed = seen.missed /\ seen'.removed = seen.removed
       /\ seen'.mixed = seen.mixed /\ seen'.panics = seen.panics /\ seen'.done = [seen.done EXCEPT ![k.key] = d1]
  BY <1>2 DEF AdminInv, AdminShape, AdminFields
<1>11. AdminShape' /\ AdminNil'
  <2>1. d1 \in Tally
    BY SMTT(30), <1>9 DEF Tally
  <2>2. seen'.done \in [Administered -> Tally]
    BY ZenonT(40), <1>10, <2>1 DEF AdminInv, AdminShape, AdminDone
  <2> QED
    BY ZenonT(40), <1>1, <1>2, <1>3, <1>5, <1>8, <1>10, <2>2, InsideGoes
<1>12. calls = [d \in Callers |-> calls[d]]
  BY DEF AdminInv, AdminShape, AdminCalls
<1>13. AdminCounts'
  <2>1. uncredited(key, "req")' = uncredited(key, "req") - 1 /\ uncredited(key, "req") \in Nat
    BY <1>2, <1>6, <1>7, <1>12, UncreditedChange
  <2>2. uncredited(key, "err") \in Nat /\ uncredited(key, "miss") \in Nat
    BY <1>2, <1>12, UncreditedChange
  <2>3. uncredited(key, "err")' = uncredited(key, "err") - more
    <3>1. CASE k.err
      BY <1>2, <1>6, <1>7, <1>12, <3>1, UncreditedChange DEF more
    <3>2. CASE ~k.err
      <4>1. uncredited(key, "err")' = uncredited(key, "err")
        BY <1>2, <1>6, <1>7, <1>12, <3>2, UncreditedChange
      <4> QED
        BY <2>2, <3>2, <4>1 DEF more
    <3> QED
      BY <3>1, <3>2
  <2>4. uncredited(key, "miss")' = uncredited(key, "miss") - late
    <3>1. CASE k.miss
      BY <1>2, <1>6, <1>7, <1>12, <3>1, UncreditedChange DEF late
    <3>2. CASE ~k.miss
      <4>1. uncredited(key, "miss")' = uncredited(key, "miss")
        BY <1>2, <1>6, <1>7, <1>12, <3>2, UncreditedChange
      <4> QED
        BY <2>2, <3>2, <4>1 DEF late
    <3> QED
      BY <3>1, <3>2
  <2>5. /\ old.req = d0.req + uncredited(key, "req") /\ old.err = d0.err + uncredited(key, "err")
        /\ old.miss = d0.miss + uncredited(key, "miss")
    BY Zenon, <1>4 DEF AdminInv, AdminCounts
  <2>6. seen'.done[key].req = d0.req + 1 /\ seen'.done[key].err = d0.err + more /\ seen'.done[key].miss = d0.miss + late
    BY SMTT(30), <1>4, <1>10 DEF AdminInv, AdminShape, AdminDone
  <2>7. \A l \in Administered \ {key} : seen'.done[l] = seen.done[l]
    BY Zenon, <1>10 DEF AdminInv, AdminShape, AdminDone
  <2> HIDE DEF old, d0
  <2>8. /\ r.req = seen'.done[key].req + uncredited(key, "req")' /\ r.err = seen'.done[key].err + uncredited(key, "err")'
        /\ r.miss = seen'.done[key].miss + uncredited(key, "miss")'
    BY <1>8, <1>9, <2>1, <2>2, <2>3, <2>4, <2>5, <2>6
  <2> QED
    BY SMTT(30), <1>1, <1>2, <1>3, <1>5, <1>8, <2>7, <2>8, CountsMove
<1>14. AdminTells'
  <2>1. calls'[c] = new /\ \A d \in Callers : d # c => calls'[d] = calls[d]
    BY <1>2, <1>12, GoesOne
  <2>2. /\ st'.pool[st.states[k.key]] = r
        /\ \A l \in DOMAIN st.states : l # k.key => st'.pool[st.states[l]] = st.pool[st.states[l]]
    BY Zenon, <1>1, <1>3, <1>8, RecordWrites
  <2>3. \A d \in Callers : /\ isRecording(calls'[d]) <=> isRecording(calls[d])
                           /\ isRecording(calls[d]) => calls'[d].key = calls[d].key
    BY Zenon, <1>1, <1>5, <2>1
  <2>4. \A d \in Callers : calls[d].pc = "publish" => d # c /\ calls'[d] = calls[d] /\ isRecording(calls[d])
    BY <1>1, <2>1 DEF isRecording
  <2>5. \A d \in Callers : calls[d].pc = "publish" => calls[d].key \in DOMAIN st.states
    BY DEF AdminInv, AdminShape, AdminCalls, AdminCall, isRecording
  <2>6. \A d, e \in Callers : isRecording(calls'[d]) /\ isRecording(calls'[e]) /\ calls'[d].key = calls'[e].key
                                /\ calls'[d].key \notin seen.mixed => d = e
    BY Zenon, <2>3 DEF AdminInv, AdminTells
  <2>7. ASSUME NEW d \in Callers, calls'[d].pc = "publish", calls'[d].key \notin seen.mixed
        PROVE  st'.pool[st.states[calls'[d].key]].healthy = good(calls'[d])
    <3>1. CASE d = c
      BY Zenon, <1>5, <1>8, <2>1, <2>2, <3>1
    <3>2. CASE d # c
      <4>1. calls'[d] = calls[d] /\ calls[d].pc = "publish" /\ isRecording(calls[d]) /\ calls[d].key \in DOMAIN st.states
        BY Zenon, <2>1, <2>4, <2>5, <2>7, <3>2
      <4>2. calls[d].key # k.key
        BY Zenon, <1>1, <2>7, <3>2, <4>1 DEF AdminInv, AdminTells
      <4>3. st.pool[st.states[calls[d].key]].healthy = good(calls[d])
        BY Zenon, <2>7, <4>1 DEF AdminInv, AdminTells
      <4> QED
        BY Zenon, <2>2, <4>1, <4>2, <4>3
    <3> QED
      BY Zenon, <3>1, <3>2
  <2>8. ASSUME NEW l \in DOMAIN seen.told, l \notin seen.missed, l \notin seen.mixed
        PROVE  \/ seen.told[l] = st'.pool[st.states[l]].healthy
               \/ \E d \in Callers : calls'[d].pc = "publish" /\ calls'[d].key = l
    <3>1. CASE l = k.key
      BY Zenon, <1>5, <2>1, <3>1
    <3>2. CASE l # k.key
      <4>1. l \in DOMAIN st.states
        BY Zenon DEF AdminInv, AdminTells
      <4>2. \/ seen.told[l] = st.pool[st.states[l]].healthy
            \/ \E d \in Callers : calls[d].pc = "publish" /\ calls[d].key = l
        BY Zenon, <2>8 DEF AdminInv, AdminTells
      <4> QED
        BY Zenon, <2>2, <2>4, <3>2, <4>1, <4>2
    <3> QED
      BY Zenon, <3>1, <3>2
  <2> QED
    BY ZenonT(40), <1>3, <1>10, <2>6, <2>7, <2>8 DEF AdminInv, AdminTells
<1> QED
  BY <1>11, <1>13, <1>14 DEF AdminInv

LEMMA AdminPublishes ==
  ASSUME AdminInv, NEW c \in Callers, Publish(c)
  PROVE  AdminInv'
<1> DEFINE k == calls[c] v == good(k)
           takes(q) == published(v) /\ Len(q) < AdminCapacity
           taken(q) == IF takes(q) THEN Append(q, [key |-> k.key, healthy |-> v]) ELSE q
<1>1. k.pc = "publish" /\ isRecording(k) /\ AdminCall(k, st.states)
  BY DEF Publish, at, isRecording, AdminInv, AdminShape, AdminCalls
<1>2. goes(c, Idle) /\ st' = [st EXCEPT !.subs = {taken(q) : q \in st.subs}]
  BY DEF Publish, returns, good
<1>3. seen' = IF \E q \in st.subs : takes(q) THEN [seen EXCEPT !.told = put(seen.told, k.key, v)]
              ELSE IF \E q \in st.subs : TRUE THEN [seen EXCEPT !.missed = seen.missed \cup {k.key}]
              ELSE seen
  BY Zenon DEF Publish, published, good
<1> HIDE DEF takes, taken, v
<1>4. /\ DOMAIN st' = DOMAIN st /\ st'.states = st.states /\ st'.ctrls = st.ctrls /\ st'.pool = st.pool
      /\ st'.subs = {} => st.subs = {}
  BY <1>2 DEF AdminInv, AdminShape, AdminFields
<1>5. /\ DOMAIN seen' = DOMAIN seen /\ seen'.done = seen.done /\ seen'.removed = seen.removed
      /\ seen'.mixed = seen.mixed /\ seen'.panics = seen.panics
  BY <1>3 DEF AdminInv, AdminShape, AdminFields
<1>6. AdminCall(Idle, st.states) /\ ~isRecording(Idle) /\ Idle.pc = "idle"
  BY DEF AdminCall, isRecording, Idle
<1>7. /\ calls' = [d \in Callers |-> calls'[d]] /\ \A d \in Callers : AdminCall(calls'[d], st'.states)
      /\ calls'[c] = Idle /\ \A d \in Callers : d # c => calls'[d] = calls[d]
  BY <1>2, <1>4, <1>6, AdminCallGoes DEF AdminInv
<1>8. AdminShape'
  BY Zenon, <1>4, <1>5, <1>7 DEF AdminInv, AdminShape, AdminFields, AdminPool, AdminDone, AdminCalls
<1>9. AdminNil'
  BY <1>4, <1>5, <1>6, <1>7 DEF AdminInv, AdminNil
<1>10. AdminCounts'
  <2>1. \A key, what : ~counted(Idle, key, what) /\ ~counted(k, key, what)
    BY Zenon, <1>1, <1>6 DEF counted
  <2>2. calls = [d \in Callers |-> calls[d]]
    BY DEF AdminInv, AdminShape, AdminCalls
  <2>3. \A key, what : uncredited(key, what)' = uncredited(key, what)
    BY <1>2, <2>1, <2>2, UncreditedChange
  <2> QED
    BY Zenon, <1>4, <1>5, <2>3, CountsKeep DEF AdminInv
<1>11. AdminTells'
  <2>1. \A d \in Callers : isRecording(calls'[d]) => d # c /\ calls'[d] = calls[d]
    BY <1>6, <1>7
  <2>2. \A d \in Callers : calls'[d].pc = "publish" => d # c /\ calls'[d] = calls[d]
    BY <1>6, <1>7
  <2>3. \A d, e \in Callers : isRecording(calls'[d]) /\ isRecording(calls'[e]) /\ calls'[d].key = calls'[e].key
                                /\ calls'[d].key \notin seen.mixed => d = e
    BY Zenon, <2>1 DEF AdminInv, AdminTells
  <2>4. \A d \in Callers : calls'[d].pc = "publish" /\ calls'[d].key \notin seen.mixed =>
          st.pool[st.states[calls'[d].key]].healthy = good(calls'[d])
    BY Zenon, <2>2 DEF AdminInv, AdminTells
  <2>5. k.key \in DOMAIN st.states /\ (k.key \notin seen.mixed => st.pool[st.states[k.key]].healthy = v)
    <3>1. k.key \in DOMAIN st.states
      BY Zenon, <1>1 DEF AdminCall
    <3>2. k.key \notin seen.mixed => st.pool[st.states[k.key]].healthy = v
      BY Zenon, <1>1 DEF AdminInv, AdminTells, v
    <3> QED
      BY Zenon, <3>1, <3>2
  <2>6. ASSUME NEW l \in DOMAIN seen.told, l \notin seen.missed, l \notin seen.mixed, l # k.key
        PROVE  \/ seen.told[l] = st.pool[st.states[l]].healthy
               \/ \E d \in Callers : calls'[d].pc = "publish" /\ calls'[d].key = l
    <3>1. \/ seen.told[l] = st.pool[st.states[l]].healthy
          \/ \E d \in Callers : calls[d].pc = "publish" /\ calls[d].key = l
      BY Zenon, <2>6 DEF AdminInv, AdminTells
    <3> QED
      BY Zenon, <1>7, <2>6, <3>1
  <2>7. DOMAIN seen.told \subseteq DOMAIN st.states /\ (st.subs = {} => DOMAIN seen.told = {})
    BY Zenon DEF AdminInv, AdminTells
  <2>8. CASE \E q \in st.subs : takes(q)
    <3>1. seen'.told = put(seen.told, k.key, v) /\ seen'.missed = seen.missed
      BY <1>3, <2>8 DEF AdminInv, AdminShape, AdminFields
    <3>2. /\ DOMAIN seen'.told = DOMAIN seen.told \cup {k.key} /\ seen'.told[k.key] = v
          /\ \A l \in DOMAIN seen.told : l # k.key => seen'.told[l] = seen.told[l]
      BY Zenon, <3>1 DEF put
    <3>3. \A l \in DOMAIN seen'.told : l \notin seen.missed /\ l \notin seen.mixed =>
            \/ seen'.told[l] = st.pool[st.states[l]].healthy
            \/ \E d \in Callers : calls'[d].pc = "publish" /\ calls'[d].key = l
      BY Zenon, <2>5, <2>6, <3>2
    <3>4. DOMAIN seen'.told \subseteq DOMAIN st.states /\ st'.subs # {}
      BY Zenon, <1>4, <2>5, <2>7, <2>8, <3>2
    <3> QED
      BY Zenon, <1>4, <1>5, <2>3, <2>4, <3>1, <3>3, <3>4 DEF AdminTells
  <2>9. CASE st.subs # {} /\ ~\E q \in st.subs : takes(q)
    <3>1. seen'.told = seen.told /\ seen'.missed = seen.missed \cup {k.key} /\ st'.subs # {}
      BY <1>3, <1>4, <2>9 DEF AdminInv, AdminShape, AdminFields
    <3>2. \A l \in DOMAIN seen.told : l \notin seen'.missed /\ l \notin seen.mixed =>
            \/ seen.told[l] = st.pool[st.states[l]].healthy
            \/ \E d \in Callers : calls'[d].pc = "publish" /\ calls'[d].key = l
      BY Zenon, <2>6, <3>1
    <3> QED
      BY ZenonT(40), <1>4, <1>5, <2>3, <2>4, <2>7, <3>1, <3>2 DEF AdminTells
  <2>10. CASE st.subs = {}
    <3>1. seen' = seen /\ DOMAIN seen.told = {}
      BY <1>3, <2>7, <2>10
    <3> QED
      BY Zenon, <1>4, <1>5, <2>3, <2>4, <3>1 DEF AdminTells
  <2> QED
    BY <2>8, <2>9, <2>10
<1> QED
  BY <1>8, <1>9, <1>10, <1>11 DEF AdminInv

(* What getOrCreate does to the records. *)
LEMMA GetOrCreateKeeps ==
  ASSUME AdminShape, NEW key \in Administered, st' = getOrCreate(key)
  PROVE  /\ DOMAIN st' = DOMAIN st /\ st'.ctrls = st.ctrls /\ st'.subs = st.subs
         /\ st'.pool \in Seq(ServerState) /\ DOMAIN st'.states = DOMAIN st.states \cup {key}
         /\ \A l \in DOMAIN st'.states : st'.states[l] \in 1..Len(st'.pool)
         /\ \A l, m \in DOMAIN st'.states : st'.states[l] = st'.states[m] => l = m
         /\ \A l \in DOMAIN st.states : st'.states[l] = st.states[l] /\ st'.pool[st'.states[l]] = st.pool[st.states[l]]
         /\ key \notin DOMAIN st.states => st'.pool[st'.states[key]] = FreshState
<1> DEFINE P == st.pool S == st.states Q == Append(P, FreshState) T == put(S, key, Len(P) + 1)
<1>1. CASE key \in DOMAIN st.states
  <2>1. st' = st
    BY <1>1 DEF getOrCreate
  <2> QED
    BY Zenon, <1>1, <2>1 DEF AdminShape, AdminPool
<1>2. CASE key \notin DOMAIN st.states
  <2>1. DOMAIN st' = DOMAIN st /\ st'.ctrls = st.ctrls /\ st'.subs = st.subs /\ st'.pool = Q /\ st'.states = T
    BY <1>2 DEF getOrCreate, AdminShape, AdminFields
  <2>2. FreshState \in ServerState
    BY Zenon DEF FreshState, ServerState
  <2>3. P \in Seq(ServerState) /\ \A l \in DOMAIN S : S[l] \in 1..Len(P)
    BY DEF AdminShape, AdminPool
  <2>4. \A l, m \in DOMAIN S : S[l] = S[m] => l = m
    BY DEF AdminShape, AdminPool
  <2>5. Q \in Seq(ServerState) /\ Len(Q) = Len(P) + 1 /\ Q[Len(P) + 1] = FreshState /\ \A i \in 1..Len(P) : Q[i] = P[i]
    <3> HIDE DEF P
    <3> QED
      BY <2>2, <2>3
  <2>6. DOMAIN T = DOMAIN S \cup {key} /\ T[key] = Len(P) + 1 /\ \A l \in DOMAIN S : T[l] = S[l]
    BY <1>2 DEF put
  <2>7. Len(P) \in Nat /\ key \notin DOMAIN S
    BY <1>2, <2>3
  <2> HIDE DEF P, S, Q, T
  <2>8. \A l \in DOMAIN T : T[l] \in 1..Len(Q)
    BY <2>3, <2>5, <2>6, <2>7
  <2>9. \A l, m \in DOMAIN T : T[l] = T[m] => l = m
    BY <2>3, <2>4, <2>6, <2>7
  <2>10. \A l \in DOMAIN S : T[l] = S[l] /\ Q[T[l]] = P[S[l]]
    BY <2>3, <2>5, <2>6
  <2>11. Q[T[key]] = FreshState
    BY <2>5, <2>6
  <2> QED
    BY Zenon, <2>1, <2>5, <2>6, <2>8, <2>9, <2>10, <2>11 DEF P, S
<1> QED
  BY Zenon, <1>1, <1>2

LEMMA AdminBegins ==
  ASSUME AdminInv, NEW c \in Callers, RecordBegin(c)
  PROVE  AdminInv'
<1> DEFINE k == calls[c]
           new == [pc |-> "req", key |-> k.key, err |-> k.err, healthy |-> k.healthy, miss |-> k.miss,
                   state |-> st'.states[k.key]]
           other == \E d \in Callers \ {c} : isRecording(calls[d]) /\ calls[d].key = k.key
<1>1. k.pc = "record" /\ ~isRecording(k) /\ k.key \in Administered /\ k.healthy \in BOOLEAN
  BY DEF RecordBegin, at, isRecording, AdminInv, AdminShape, AdminCalls, AdminCall
<1>2. st' = getOrCreate(k.key) /\ goes(c, new)
  BY DEF RecordBegin
<1>3. seen' = [seen EXCEPT !.mixed = IF other THEN seen.mixed \cup {k.key} ELSE seen.mixed]
  BY Zenon DEF RecordBegin, recording, isRecording
<1> HIDE DEF other
<1>4. /\ DOMAIN seen' = DOMAIN seen /\ seen'.done = seen.done /\ seen'.removed = seen.removed
      /\ seen'.told = seen.told /\ seen'.missed = seen.missed /\ seen'.panics = seen.panics
      /\ seen'.mixed = IF other THEN seen.mixed \cup {k.key} ELSE seen.mixed
  BY <1>3 DEF AdminInv, AdminShape, AdminFields
<1>5. /\ DOMAIN st' = DOMAIN st /\ st'.ctrls = st.ctrls /\ st'.subs = st.subs
      /\ st'.pool \in Seq(ServerState) /\ DOMAIN st'.states = DOMAIN st.states \cup {k.key}
      /\ \A l \in DOMAIN st'.states : st'.states[l] \in 1..Len(st'.pool)
      /\ \A l, m \in DOMAIN st'.states : st'.states[l] = st'.states[m] => l = m
      /\ \A l \in DOMAIN st.states : st'.states[l] = st.states[l] /\ st'.pool[st'.states[l]] = st.pool[st.states[l]]
      /\ k.key \notin DOMAIN st.states => st'.pool[st'.states[k.key]] = FreshState
  BY Zenon, <1>1, <1>2, GetOrCreateKeeps DEF AdminInv
<1>6. new.pc = "req" /\ isRecording(new) /\ new.key = k.key /\ AdminCall(new, st'.states)
  BY Zenon, <1>1, <1>5 DEF isRecording, AdminCall
<1> HIDE DEF new
<1>7. calls = [d \in Callers |-> calls[d]]
  BY DEF AdminInv, AdminShape, AdminCalls
<1>8. calls' = [d \in Callers |-> calls'[d]] /\ calls'[c] = new /\ \A d \in Callers : d # c => calls'[d] = calls[d]
  BY <1>2, <1>7, GoesOne
<1>9. AdminShape'
  <2>1. ASSUME NEW d \in Callers PROVE AdminCall(calls'[d], st'.states)
    <3>1. CASE d = c
      BY <1>6, <1>8, <3>1
    <3>2. CASE d # c
      <4> DEFINE j == calls[d]
      <4>1. AdminCall(j, st.states) /\ calls'[d] = j
        BY <1>8, <3>2 DEF AdminInv, AdminShape, AdminCalls
      <4> HIDE DEF j
      <4>2. AdminCall(j, st'.states)
        BY Zenon, <1>5, <4>1 DEF AdminCall
      <4> QED
        BY Zenon, <4>1, <4>2
    <3> QED
      BY <3>1, <3>2
  <2>2. DOMAIN st'.states \subseteq Administered
    BY Zenon, <1>1, <1>5 DEF AdminInv, AdminShape, AdminPool
  <2> QED
    BY Zenon, <1>4, <1>5, <1>8, <2>1, <2>2 DEF AdminInv, AdminShape, AdminFields, AdminPool, AdminDone, AdminCalls
<1>10. AdminNil'
  BY Zenon, <1>4, <1>5, <1>6, <1>8 DEF AdminInv, AdminNil
<1>11. AdminCounts'
  <2>1. \A key, what : ~counted(new, key, what) /\ ~counted(k, key, what)
    BY Zenon, <1>1, <1>6 DEF counted
  <2>2. \A key, what : uncredited(key, what)' = uncredited(key, what)
    BY <1>2, <1>7, <2>1, UncreditedChange
  <2>3. ASSUME NEW l \in Administered, l \notin DOMAIN st.states, NEW what
        PROVE  uncredited(l, what) = 0
    <3>1. \A d \in Callers : isRecording(calls[d]) => calls[d].key # l
      BY <2>3 DEF AdminInv, AdminShape, AdminCalls, AdminCall
    <3>2. \A d \in Callers : counted(calls[d], l, what) => isRecording(calls[d]) /\ calls[d].key = l
      BY DEF counted, isRecording
    <3>3. {d \in Callers : counted(calls[d], l, what)} = {}
      BY Zenon, <3>1, <3>2
    <3> QED
      BY <3>3, FS_EmptySet DEF uncredited
  <2> SUFFICES ASSUME NEW l \in Administered
               PROVE  /\ l \in DOMAIN st'.states =>
                           /\ st'.pool[st'.states[l]].req = seen.done[l].req + uncredited(l, "req")'
                           /\ st'.pool[st'.states[l]].err = seen.done[l].err + uncredited(l, "err")'
                           /\ st'.pool[st'.states[l]].miss = seen.done[l].miss + uncredited(l, "miss")'
                      /\ l \notin DOMAIN st'.states => seen.done[l].req = 0 /\ seen.done[l].err = 0 /\ seen.done[l].miss = 0
    BY Zenon, <1>4 DEF AdminCounts
  <2>4. /\ uncredited(l, "req")' = uncredited(l, "req") /\ uncredited(l, "err")' = uncredited(l, "err")
        /\ uncredited(l, "miss")' = uncredited(l, "miss")
    BY Zenon, <2>2
  <2>5. CASE l \in DOMAIN st.states
    BY SMTT(30), <1>5, <2>4, <2>5 DEF AdminInv, AdminCounts
  <2>6. CASE l \notin DOMAIN st.states
    <3>1. /\ uncredited(l, "req") = 0 /\ uncredited(l, "err") = 0 /\ uncredited(l, "miss") = 0
          /\ seen.done[l].req = 0 /\ seen.done[l].err = 0 /\ seen.done[l].miss = 0
      BY Zenon, <2>3, <2>6 DEF AdminInv, AdminCounts
    <3>2. FreshState.req = 0 /\ FreshState.err = 0 /\ FreshState.miss = 0
      BY DEF FreshState
    <3> QED
      BY SMTT(30), <1>5, <2>4, <2>6, <3>1, <3>2
  <2> QED
    BY Zenon, <2>5, <2>6
<1>12. AdminTells'
  <2>1. \A d \in Callers : isRecording(calls'[d]) /\ d # c => calls'[d] = calls[d] /\ isRecording(calls[d])
    BY <1>8
  <2>2. \A d \in Callers : calls'[d].pc = "publish" \/ calls[d].pc = "publish" =>
          d # c /\ calls'[d] = calls[d] /\ calls[d].key \in DOMAIN st.states
    BY Zenon, <1>1, <1>6, <1>8 DEF AdminInv, AdminShape, AdminCalls, AdminCall, isRecording
  <2>3. seen.mixed \subseteq seen'.mixed /\ (k.key \notin seen'.mixed => ~other)
    BY Zenon, <1>4
  <2>4. ASSUME NEW d \in Callers, NEW e \in Callers, isRecording(calls'[d]), isRecording(calls'[e]),
               calls'[d].key = calls'[e].key, calls'[d].key \notin seen'.mixed
        PROVE  d = e
    <3>1. CASE d # c /\ e # c
      BY Zenon, <2>1, <2>3, <2>4, <3>1 DEF AdminInv, AdminTells
    <3>2. CASE d = c /\ e # c
      BY <1>6, <1>8, <2>1, <2>3, <2>4, <3>2 DEF other
    <3>3. CASE d # c /\ e = c
      BY Zenon, <1>6, <1>8, <2>1, <2>3, <2>4, <3>3 DEF other
    <3> QED
      BY <3>1, <3>2, <3>3
  <2>5. \A d \in Callers : calls'[d].pc = "publish" /\ calls'[d].key \notin seen'.mixed =>
          st'.pool[st'.states[calls'[d].key]].healthy = good(calls'[d])
    BY SMTT(30), <1>5, <2>2, <2>3 DEF AdminInv, AdminTells
  <2>6. DOMAIN seen.told \subseteq DOMAIN st.states /\ (st.subs = {} => DOMAIN seen.told = {})
    BY SMTT(30) DEF AdminInv, AdminTells
  <2>7. ASSUME NEW l \in DOMAIN seen.told, l \notin seen.missed, l \notin seen'.mixed
        PROVE  \/ seen.told[l] = st'.pool[st'.states[l]].healthy
               \/ \E d \in Callers : calls'[d].pc = "publish" /\ calls'[d].key = l
    <3>1. \/ seen.told[l] = st.pool[st.states[l]].healthy
          \/ \E d \in Callers : calls[d].pc = "publish" /\ calls[d].key = l
      BY Zenon, <2>3, <2>7 DEF AdminInv, AdminTells
    <3> QED
      BY Zenon, <1>5, <2>2, <2>6, <3>1
  <2>8. DOMAIN seen.told \subseteq DOMAIN st'.states
    BY Zenon, <1>5, <2>6
  <2> QED
    BY ZenonT(40), <1>4, <1>5, <2>4, <2>5, <2>6, <2>7, <2>8 DEF AdminTells
<1> QED
  BY <1>9, <1>10, <1>11, <1>12 DEF AdminInv

LEMMA AdminStep == AdminInv /\ AdminNext => AdminInv'
<1> SUFFICES ASSUME AdminInv, AdminNext PROVE AdminInv'
  OBVIOUS
<1>1. CASE \E k \in Administered : AdminRegister(k) \/ AdminDeregister(k) \/ \E c \in Callers : HandleServer(c, k)
  BY <1>1, AdminRegisters, AdminServes
<1>2. CASE \E c \in Callers : \/ RequestRefused(c) \/ HandleRequest(c) \/ RecordBegin(c) \/ RecordReq(c) \/ RecordErr(c)
                              \/ RecordMiss(c) \/ RecordHealth(c) \/ Publish(c)
  BY <1>2, AdminRefuses, AdminRequests, AdminBegins, AdminCountsRequest, AdminCountsFailure, AdminCountsMiss,
     AdminSetsHealth, AdminPublishes
<1>3. CASE EventsBegin \/ EventsSend \/ EventsEnd
  BY <1>3, AdminEvents
<1>4. CASE \E k \in Administered, c \in Callers, healthy, err, miss \in BOOLEAN : RecordRequest(c, k, healthy, err, miss)
  BY <1>4, AdminIsTold
<1> QED
  BY <1>1, <1>2, <1>3, <1>4 DEF AdminNext

-----------------------------------------------------------------------------
(* rcp.Adapt. *)
(* rcp.Adapt.  busy: the calls that inFlight counts; begun: the requests   *)
(* that were passed to the Controller.                                     *)
Chan == {"open", "closed"}
isBusy(k) == k.pc \in {"request", "leave"}
isEnding(k) == k.pc \in {"closing", "down"}
busy == {c \in Callers : isBusy(calls[c])}
begun == seen.ended \cup {calls[c].id : c \in {d \in Callers : calls[d].pc = "request"}}

RelayCall(k) ==
  /\ k.pc \in {"idle", "request", "leave", "subscribe", "closing", "down", "drain", "drained"}
  /\ k.pc = "request" => DOMAIN k = {"pc", "call", "id"}

RelayShape ==
  /\ DOMAIN st = {"closed", "subs", "down", "inFlight", "write", "deliver", "bytes", "errors"}
  /\ DOMAIN seen = {"requests", "chans", "ended", "failed", "answered", "cut"}
  /\ st.closed \in BOOLEAN /\ seen.requests \in Nat /\ seen.failed \in Nat
  /\ calls = [c \in Callers |-> calls[c]] /\ \A c \in Callers : RelayCall(calls[c])

RelayCount ==
  /\ st.inFlight = Cardinality(busy)
  /\ begun \subseteq 1..seen.requests /\ IsFiniteSet(begun) /\ st.write = Cardinality(begun)
  /\ st.errors = seen.failed /\ st.deliver = seen.answered

(* Whoever sets closed closes the channels and then the Controller, and    *)
(* a channel that is open until then is in the list.                       *)
RelayEnd ==
  /\ seen.chans \in Seq(Chan)
  /\ \A i \in DOMAIN seen.chans : seen.chans[i] = "closed" \/ i \in st.subs
  /\ st.closed => st.subs = {} \/ \E c \in Callers : calls[c].pc = "closing"
  /\ st.down \in {0, 1}
  /\ ~st.closed => st.down = 0 /\ \A c \in Callers : ~isEnding(calls[c])
  /\ \A c, d \in Callers : isEnding(calls[c]) /\ isEnding(calls[d]) => st.down = 0 /\ c = d

RelayDrain ==
  /\ \A c \in Callers : calls[c].pc = "drain" => calls[c].old \subseteq begun
  /\ \A c \in Callers : calls[c].pc = "drained" => calls[c].old \subseteq seen.ended
  /\ seen.cut = {}

RelayInv == RelayShape /\ RelayCount /\ RelayEnd /\ RelayDrain

LEMMA BusyFinite == IsFiniteSet(busy) /\ Cardinality(busy) \in Nat /\ (Cardinality(busy) = 0 <=> busy = {})
<1>1. busy \subseteq Callers
  BY DEF busy
<1>2. IsFiniteSet(busy)
  BY Zenon, <1>1, CallersAssumption, FS_Subset
<1> QED
  BY <1>2, FS_CardinalityType, FS_EmptySet

LEMMA RelayInitial == RelayInit => RelayInv
<1> SUFFICES ASSUME RelayInit PROVE RelayInv
  OBVIOUS
<1>1. calls = [c \in Callers |-> Idle] /\ Idle.pc = "idle"
  BY Zenon DEF RelayInit, CallsInit, Idle
<1>2. /\ DOMAIN st = {"closed", "subs", "down", "inFlight", "write", "deliver", "bytes", "errors"}
      /\ st.closed = FALSE /\ st.subs = {} /\ st.down = 0 /\ st.inFlight = 0 /\ st.write = 0 /\ st.deliver = 0 /\ st.errors = 0
  BY Zenon DEF RelayInit
<1>3. /\ DOMAIN seen = {"requests", "chans", "ended", "failed", "answered", "cut"}
      /\ seen.requests = 0 /\ seen.chans = <<>> /\ seen.ended = {} /\ seen.failed = 0 /\ seen.answered = 0 /\ seen.cut = {}
  BY Zenon DEF RelayInit
<1>4. busy = {} /\ begun = {}
  BY Zenon, <1>1, <1>3 DEF busy, begun, isBusy
<1>5. Cardinality({}) = 0 /\ IsFiniteSet({})
  BY FS_EmptySet
<1>6. RelayShape
  <2>1. RelayCall(Idle) /\ \A c \in Callers : calls[c] = Idle
    BY <1>1 DEF RelayCall
  <2>2. calls = [c \in Callers |-> calls[c]]
    BY <1>1
  <2>3. st.closed \in BOOLEAN
    BY Zenon, <1>2
  <2>4. seen.requests \in Nat /\ seen.failed \in Nat
    BY <1>3
  <2> QED
    BY Zenon, <1>2, <1>3, <2>1, <2>2, <2>3, <2>4 DEF RelayShape
<1>7. RelayCount
  BY Zenon, <1>2, <1>3, <1>4, <1>5 DEF RelayCount
<1>8. RelayEnd
  BY <1>1, <1>2, <1>3 DEF RelayEnd, isEnding
<1>9. RelayDrain
  BY Zenon, <1>1, <1>3 DEF RelayDrain
<1> QED
  BY <1>6, <1>7, <1>8, <1>9 DEF RelayInv

LEMMA RelaySound == RelayInv => CountersTell /\ SubscriptionsEnd /\ DrainedIsDone
<1> SUFFICES ASSUME RelayInv PROVE CountersTell /\ SubscriptionsEnd
  BY DEF RelayInv, RelayDrain, DrainedIsDone
<1>1. ASSUME \A c \in Callers : at(c, "idle")
      PROVE  /\ st.inFlight = 0 /\ st.write = Cardinality(seen.ended) /\ st.errors = seen.failed /\ st.deliver = seen.answered
             /\ ~st.closed => (Health = "OK" <=> seen.failed = 0)
  <2>1. busy = {} /\ begun = seen.ended
    BY <1>1 DEF at, busy, begun, isBusy
  <2>2. st.inFlight = 0
    BY <2>1, BusyFinite DEF RelayInv, RelayCount
  <2>3. ~st.closed => (Health = "OK" <=> seen.failed = 0)
    BY DEF Health, RelayInv, RelayCount, RelayShape
  <2> QED
    BY <2>1, <2>2, <2>3 DEF RelayInv, RelayCount
<1>2. SubscriptionsEnd
  BY DEF SubscriptionsEnd, RelayInv, RelayEnd, closing, at
<1> QED
  BY <1>1, <1>2 DEF CountersTell

(* What a step of one call does to the sets that the counters count. *)
LEMMA BusyChanges ==
  ASSUME RelayShape, NEW c \in Callers, NEW k, goes(c, k)
  PROVE  /\ (isBusy(k) <=> isBusy(calls[c])) => Cardinality(busy') = Cardinality(busy)
         /\ isBusy(k) /\ ~isBusy(calls[c]) => Cardinality(busy') = Cardinality(busy) + 1
         /\ ~isBusy(k) /\ isBusy(calls[c]) => Cardinality(busy') = Cardinality(busy) - 1
<1>1. calls'[c] = k /\ \A d \in Callers : d # c => calls'[d] = calls[d]
  BY GoesOne DEF RelayShape
<1>2. busy' = {d \in Callers : isBusy(calls'[d])}
  BY DEF busy, isBusy
<1>3. busy' \ {c} = busy \ {c} /\ (c \in busy' <=> isBusy(k)) /\ (c \in busy <=> isBusy(calls[c]))
  BY Zenon, <1>1, <1>2 DEF busy
<1>4. CASE isBusy(k) <=> isBusy(calls[c])
  <2>1. busy' = busy
    BY <1>3, <1>4
  <2> QED
    BY <1>4, <2>1
<1>5. CASE isBusy(k) /\ ~isBusy(calls[c])
  <2>1. busy' = busy \cup {c} /\ c \notin busy
    BY <1>3, <1>5
  <2>2. Cardinality(busy') = Cardinality(busy) + 1
    BY <2>1, BusyFinite, FS_AddElement
  <2> QED
    BY <1>5, <2>2
<1>6. CASE ~isBusy(k) /\ isBusy(calls[c])
  <2>1. busy' = busy \ {c} /\ c \in busy
    BY <1>3, <1>6
  <2>2. Cardinality(busy') = Cardinality(busy) - 1
    BY Zenon, <2>1, BusyFinite, FS_RemoveElement
  <2> QED
    BY <1>6, <2>2
<1> QED
  BY Zenon, <1>4, <1>5, <1>6

LEMMA BegunChanges ==
  ASSUME RelayShape, NEW c \in Callers, NEW k, goes(c, k)
  PROVE  /\ k.pc # "request" /\ calls[c].pc # "request" /\ seen'.ended = seen.ended => begun' = begun
         /\ k.pc # "request" /\ calls[c].pc = "request" /\ seen'.ended = seen.ended \cup {calls[c].id} => begun' = begun
         /\ k.pc = "request" /\ calls[c].pc # "request" /\ seen'.ended = seen.ended => begun' = begun \cup {k.id}
<1>1. calls'[c] = k /\ \A d \in Callers : d # c => calls'[d] = calls[d]
  BY GoesOne DEF RelayShape
<1>2. begun' = seen'.ended \cup {calls'[d].id : d \in {e \in Callers : calls'[e].pc = "request"}}
  BY Zenon DEF begun
<1>3. \A x : x \in begun <=> x \in seen.ended \/ \E d \in Callers : calls[d].pc = "request" /\ x = calls[d].id
  BY Zenon DEF begun
<1>4. \A x : x \in begun' <=> x \in seen'.ended \/ \E d \in Callers : calls'[d].pc = "request" /\ x = calls'[d].id
  BY Zenon, <1>2
<1>5. \A x : x \in begun' <=> \/ x \in seen'.ended \/ (k.pc = "request" /\ x = k.id)
                              \/ \E d \in Callers : d # c /\ calls[d].pc = "request" /\ x = calls[d].id
  <2> DEFINE now(x) == \E d \in Callers : calls'[d].pc = "request" /\ x = calls'[d].id
             rest(x) == \E d \in Callers : d # c /\ calls[d].pc = "request" /\ x = calls[d].id
  <2>1. \A x : now(x) <=> (k.pc = "request" /\ x = k.id) \/ rest(x)
    BY Zenon, <1>1
  <2>2. \A x : x \in begun' <=> x \in seen'.ended \/ now(x)
    BY <1>4
  <2> HIDE DEF now
  <2>3. \A x : x \in begun' <=> x \in seen'.ended \/ (k.pc = "request" /\ x = k.id) \/ rest(x)
    BY Zenon, <2>1, <2>2
  <2> QED
    BY Zenon, <2>3
<1>6. \A x : x \in begun <=> \/ x \in seen.ended \/ (calls[c].pc = "request" /\ x = calls[c].id)
                             \/ \E d \in Callers : d # c /\ calls[d].pc = "request" /\ x = calls[d].id
  BY Zenon, <1>3
<1> QED
  BY Zenon, <1>5, <1>6

LEMMA RelayCallGoes ==
  ASSUME RelayShape, NEW c \in Callers, NEW k, goes(c, k), RelayCall(k)
  PROVE  /\ calls' = [d \in Callers |-> calls'[d]] /\ \A d \in Callers : RelayCall(calls'[d])
         /\ calls'[c] = k /\ \A d \in Callers : d # c => calls'[d] = calls[d]
<1>1. /\ calls' = [d \in Callers |-> calls'[d]]
      /\ calls'[c] = k /\ \A d \in Callers : d # c => calls'[d] = calls[d]
  BY GoesOne DEF RelayShape
<1> QED
  BY <1>1 DEF RelayShape

(* A step that has nothing to do with the end of the adapter, *)
LEMMA RelayEndKeeps ==
  ASSUME RelayShape, RelayEnd, NEW c \in Callers, NEW k, goes(c, k), ~isEnding(k), ~isEnding(calls[c]),
         st'.closed = st.closed, st'.subs = st.subs, st'.down = st.down, seen'.chans = seen.chans
  PROVE  RelayEnd'
<1>1. calls'[c] = k /\ \A d \in Callers : d # c => calls'[d] = calls[d]
  BY Zenon, GoesOne DEF RelayShape
<1>2. \A d \in Callers : isEnding(calls'[d]) <=> isEnding(calls[d])
  BY Zenon, <1>1
<1>3. \A d \in Callers : calls[d].pc = "closing" => calls'[d].pc = "closing"
  BY Zenon, <1>1 DEF isEnding
<1> QED
  BY Zenon, <1>2, <1>3 DEF RelayEnd

(* or with a drain. *)
LEMMA RelayDrainKeeps ==
  ASSUME RelayShape, RelayDrain, NEW c \in Callers, NEW k, goes(c, k), k.pc = "drain" => k.old \subseteq begun,
         k.pc = "drained" => k.old \subseteq seen.ended,
         begun \subseteq begun', seen.ended \subseteq seen'.ended, seen'.cut = seen.cut
  PROVE  RelayDrain'
<1>1. calls'[c] = k /\ \A d \in Callers : d # c => calls'[d] = calls[d]
  BY GoesOne DEF RelayShape
<1>2. \A d \in Callers : calls'[d].pc = "drain" => calls'[d].old \subseteq begun
  BY Zenon, <1>1 DEF RelayDrain
<1>3. \A d \in Callers : calls'[d].pc = "drained" => calls'[d].old \subseteq seen.ended
  BY Zenon, <1>1 DEF RelayDrain
<1> HIDE DEF begun
<1> QED
  BY <1>2, <1>3 DEF RelayDrain

(* A step that changes neither counter. *)
LEMMA RelayCountKeeps ==
  ASSUME RelayShape, RelayCount, NEW c \in Callers, NEW k, goes(c, k), ~isBusy(k), ~isBusy(calls[c]),
         st'.inFlight = st.inFlight, st'.write = st.write, st'.errors = st.errors, st'.deliver = st.deliver,
         seen'.ended = seen.ended, seen'.requests = seen.requests, seen'.failed = seen.failed, seen'.answered = seen.answered
  PROVE  RelayCount' /\ begun' = begun
<1>1. Cardinality(busy') = Cardinality(busy)
  BY Zenon, BusyChanges
<1>2. begun' = begun
  BY Zenon, BegunChanges DEF isBusy
<1> QED
  BY Zenon, <1>1, <1>2 DEF RelayCount

LEMMA RelayBegins ==
  ASSUME RelayInv, NEW c \in Callers, NEW m \in Messages, NEW call \in BOOLEAN, Begin(c, m, call)
  PROVE  RelayInv'
<1>1. CASE RequestFromMessage(m).ok
  <2> DEFINE k == [pc |-> "request", call |-> call, id |-> seen.requests + 1]
  <2>1. /\ st' = [st EXCEPT !.inFlight = @ + 1, !.write = @ + 1, !.bytes = @ + m.size]
        /\ goes(c, k) /\ seen' = [seen EXCEPT !.requests = @ + 1] /\ calls[c].pc = "idle"
    BY <1>1 DEF Begin, at
  <2>2. RelayCall(k) /\ isBusy(k) /\ ~isEnding(k) /\ k.pc = "request" /\ k.id = seen.requests + 1
    BY Zenon DEF RelayCall, isBusy, isEnding
  <2>3. ~isBusy(calls[c]) /\ ~isEnding(calls[c])
    BY <2>1 DEF isBusy, isEnding
  <2> HIDE DEF k
  <2>4. /\ DOMAIN st' = DOMAIN st /\ st'.closed = st.closed /\ st'.subs = st.subs /\ st'.down = st.down
        /\ st'.inFlight = st.inFlight + 1 /\ st'.write = st.write + 1 /\ st'.errors = st.errors /\ st'.deliver = st.deliver
    BY <2>1 DEF RelayInv, RelayShape
  <2>5. /\ DOMAIN seen' = DOMAIN seen /\ seen'.requests = seen.requests + 1 /\ seen'.chans = seen.chans /\ seen'.ended = seen.ended
        /\ seen'.failed = seen.failed /\ seen'.answered = seen.answered /\ seen'.cut = seen.cut
    BY <2>1 DEF RelayInv, RelayShape
  <2>6. RelayShape'
    BY <2>1, <2>2, <2>4, <2>5, RelayCallGoes DEF RelayInv, RelayShape
  <2>7. begun' = begun \cup {seen.requests + 1}
    BY <2>1, <2>2, <2>5, BegunChanges DEF RelayInv
  <2>8. RelayCount'
    <3>1. Cardinality(busy') = Cardinality(busy) + 1
      BY <2>1, <2>2, <2>3, BusyChanges DEF RelayInv
    <3>2. seen.requests + 1 \notin begun /\ begun' \subseteq 1..(seen.requests + 1)
      BY <2>7 DEF RelayInv, RelayCount, RelayShape
    <3>3. IsFiniteSet(begun') /\ Cardinality(begun') = Cardinality(begun) + 1
      BY Zenon, <2>7, <3>2, FS_AddElement DEF RelayInv, RelayCount
    <3> QED
      BY Zenon, <2>4, <2>5, <3>1, <3>2, <3>3 DEF RelayInv, RelayCount
  <2>9. RelayEnd'
    BY <2>1, <2>2, <2>3, <2>4, <2>5, RelayEndKeeps DEF RelayInv
  <2>10. RelayDrain'
    BY <2>1, <2>2, <2>5, <2>7, RelayDrainKeeps DEF RelayInv
  <2> QED
    BY <2>6, <2>8, <2>9, <2>10 DEF RelayInv
<1>2. CASE ~RequestFromMessage(m).ok
  <2>1. /\ st' = [st EXCEPT !.errors = @ + 1]
        /\ calls' = calls /\ seen' = [seen EXCEPT !.requests = @ + 1, !.failed = @ + 1]
    BY <1>2 DEF Begin, rejected
  <2>4. /\ DOMAIN st' = DOMAIN st /\ st'.closed = st.closed /\ st'.subs = st.subs /\ st'.down = st.down
        /\ st'.inFlight = st.inFlight /\ st'.write = st.write /\ st'.errors = st.errors + 1 /\ st'.deliver = st.deliver
    BY <2>1 DEF RelayInv, RelayShape
  <2>5. /\ DOMAIN seen' = DOMAIN seen /\ seen'.requests = seen.requests + 1 /\ seen'.chans = seen.chans /\ seen'.ended = seen.ended
        /\ seen'.failed = seen.failed + 1 /\ seen'.answered = seen.answered /\ seen'.cut = seen.cut
    BY <2>1 DEF RelayInv, RelayShape
  <2>6. RelayShape'
    BY <2>1, <2>4, <2>5 DEF RelayInv, RelayShape
  <2>7. begun' = begun /\ busy' = busy
    BY <2>1, <2>5 DEF begun, busy
  <2>8. RelayCount'
    <3>1. begun \subseteq 1..(seen.requests + 1)
      BY DEF RelayInv, RelayCount, RelayShape
    <3> QED
      BY Zenon, <2>4, <2>5, <2>7, <3>1 DEF RelayInv, RelayCount
  <2>9. RelayEnd'
    BY <2>1, <2>4, <2>5 DEF RelayInv, RelayEnd
  <2>10. RelayDrain'
    BY <2>1, <2>5, <2>7 DEF RelayInv, RelayDrain
  <2> QED
    BY <2>6, <2>8, <2>9, <2>10 DEF RelayInv
<1> QED
  BY <1>1, <1>2

LEMMA RelayEnds ==
  ASSUME RelayInv, NEW c \in Callers, NEW ok \in BOOLEAN, RelayRequestEnds(c, ok)
  PROVE  RelayInv'
<1> DEFINE k == [calls[c] EXCEPT !.pc = "leave"]
           more == ok /\ calls[c].call
<1>1. /\ goes(c, k) /\ calls[c].pc = "request" /\ RelayCall(calls[c])
      /\ st' = [st EXCEPT !.errors = IF ok THEN @ ELSE @ + 1, !.deliver = IF more THEN @ + 1 ELSE @]
      /\ seen' = [seen EXCEPT !.ended = @ \cup {calls[c].id}, !.failed = IF ok THEN @ ELSE @ + 1,
                              !.answered = IF more THEN @ + 1 ELSE @]
  BY DEF RelayRequestEnds, at, RelayInv, RelayShape
<1>2. RelayCall(k) /\ isBusy(k) /\ ~isEnding(k) /\ k.pc = "leave"
  <2> DEFINE l == calls[c]
  <2>1. RelayCall(l) /\ l.pc = "request"
    BY <1>1
  <2> HIDE DEF l
  <2>2. RelayCall([l EXCEPT !.pc = "leave"]) /\ [l EXCEPT !.pc = "leave"].pc = "leave"
    BY <2>1 DEF RelayCall
  <2> QED
    BY <2>2 DEF l, isBusy, isEnding
<1>3. isBusy(calls[c]) /\ ~isEnding(calls[c])
  BY <1>1 DEF isBusy, isEnding
<1> HIDE DEF k, more
<1>4. /\ DOMAIN st' = DOMAIN st /\ st'.closed = st.closed /\ st'.subs = st.subs /\ st'.down = st.down
      /\ st'.inFlight = st.inFlight /\ st'.write = st.write /\ st'.errors = (IF ok THEN st.errors ELSE st.errors + 1)
      /\ st'.deliver = (IF more THEN st.deliver + 1 ELSE st.deliver)
  BY <1>1 DEF RelayInv, RelayShape
<1>5. /\ DOMAIN seen' = DOMAIN seen /\ seen'.requests = seen.requests /\ seen'.chans = seen.chans
      /\ seen'.ended = seen.ended \cup {calls[c].id} /\ seen'.failed = (IF ok THEN seen.failed ELSE seen.failed + 1)
      /\ seen'.answered = (IF more THEN seen.answered + 1 ELSE seen.answered) /\ seen'.cut = seen.cut
  BY <1>1 DEF RelayInv, RelayShape
<1>6. RelayShape'
  <2>1. seen'.failed \in Nat
    BY <1>5 DEF RelayInv, RelayShape
  <2> QED
    BY <1>1, <1>2, <1>4, <1>5, <2>1, RelayCallGoes DEF RelayInv, RelayShape
<1>7. begun' = begun /\ Cardinality(busy') = Cardinality(busy)
  BY <1>1, <1>2, <1>3, <1>5, BegunChanges, BusyChanges DEF RelayInv
<1>8. RelayCount'
  BY Zenon, <1>4, <1>5, <1>7 DEF RelayInv, RelayCount
<1>9. RelayEnd'
  BY <1>1, <1>2, <1>3, <1>4, <1>5, RelayEndKeeps DEF RelayInv
<1>10. RelayDrain'
  BY <1>1, <1>2, <1>5, <1>7, RelayDrainKeeps DEF RelayInv
<1> QED
  BY <1>6, <1>8, <1>9, <1>10 DEF RelayInv

LEMMA RelayLeaves ==
  ASSUME RelayInv, NEW c \in Callers, RelayLeave(c)
  PROVE  RelayInv'
<1>1. /\ goes(c, Idle) /\ calls[c].pc = "leave" /\ st' = [st EXCEPT !.inFlight = @ - 1] /\ seen' = seen
  BY DEF RelayLeave, at, returns
<1>2. RelayCall(Idle) /\ ~isBusy(Idle) /\ ~isEnding(Idle) /\ Idle.pc = "idle"
  BY Zenon DEF RelayCall, isBusy, isEnding, Idle
<1>3. isBusy(calls[c]) /\ ~isEnding(calls[c])
  BY <1>1 DEF isBusy, isEnding
<1>4. /\ DOMAIN st' = DOMAIN st /\ st'.closed = st.closed /\ st'.subs = st.subs /\ st'.down = st.down
      /\ st'.inFlight = st.inFlight - 1 /\ st'.write = st.write /\ st'.errors = st.errors /\ st'.deliver = st.deliver
  BY <1>1 DEF RelayInv, RelayShape
<1>6. RelayShape'
  BY <1>1, <1>2, <1>4, RelayCallGoes DEF RelayInv, RelayShape
<1>7. begun' = begun /\ Cardinality(busy') = Cardinality(busy) - 1
  BY <1>1, <1>2, <1>3, BegunChanges, BusyChanges DEF RelayInv
<1>8. RelayCount'
  BY <1>1, <1>4, <1>7 DEF RelayInv, RelayCount
<1>9. RelayEnd'
  BY <1>1, <1>2, <1>3, <1>4, RelayEndKeeps DEF RelayInv
<1>10. RelayDrain'
  BY <1>1, <1>2, <1>7, RelayDrainKeeps DEF RelayInv
<1> QED
  BY <1>6, <1>8, <1>9, <1>10 DEF RelayInv

LEMMA RelayWaits ==
  ASSUME RelayInv, NEW c \in Callers, SubscribeBegin(c) \/ DrainBegin(c)
  PROVE  RelayInv'
<1>1. PICK k : /\ goes(c, k) /\ k.pc \in {"subscribe", "drain"} /\ st' = st /\ seen' = seen
               /\ k.pc = "drain" => k.old = {calls[d].id : d \in {e \in Callers : calls[e].pc = "request"}}
  <2>1. CASE SubscribeBegin(c)
    BY SMTT(30), <2>1 DEF SubscribeBegin
  <2>2. CASE DrainBegin(c)
    BY SMTT(30), <2>2 DEF DrainBegin, at
  <2> QED
    BY Zenon, <2>1, <2>2
<1>2. calls[c].pc = "idle"
  BY Zenon DEF SubscribeBegin, DrainBegin, at
<1>3. RelayCall(k) /\ ~isBusy(k) /\ ~isEnding(k) /\ ~isBusy(calls[c]) /\ ~isEnding(calls[c])
  BY Zenon, <1>1, <1>2 DEF RelayCall, isBusy, isEnding
<1>6. RelayShape'
  BY Zenon, <1>1, <1>3, RelayCallGoes DEF RelayInv, RelayShape
<1>8. RelayCount' /\ begun' = begun
  BY Zenon, <1>1, <1>3, RelayCountKeeps DEF RelayInv
<1>9. RelayEnd'
  BY Zenon, <1>1, <1>3, RelayEndKeeps DEF RelayInv
<1>10. RelayDrain'
  <2>1. k.pc = "drain" => k.old \subseteq begun
    BY Zenon, <1>1 DEF begun
  <2> QED
    BY Zenon, <1>1, <1>8, <2>1, RelayDrainKeeps DEF RelayInv
<1> QED
  BY <1>6, <1>8, <1>9, <1>10 DEF RelayInv

LEMMA RelaySubscribes ==
  ASSUME RelayInv, NEW c \in Callers, SubscribeEnd(c)
  PROVE  RelayInv'
<1> DEFINE ch == Len(seen.chans) + 1
           x == IF st.closed THEN "closed" ELSE "open"
<1>1. /\ goes(c, Idle) /\ calls[c].pc = "subscribe" /\ seen' = [seen EXCEPT !.chans = Append(seen.chans, x)]
      /\ st' = IF st.closed THEN st ELSE [st EXCEPT !.subs = st.subs \cup {ch}]
  BY Zenon DEF SubscribeEnd, at, returns, subscribable
<1>2. RelayCall(Idle) /\ ~isBusy(Idle) /\ ~isEnding(Idle) /\ Idle.pc = "idle"
  BY DEF RelayCall, isBusy, isEnding, Idle
<1>3. ~isBusy(calls[c]) /\ ~isEnding(calls[c])
  BY <1>1 DEF isBusy, isEnding
<1> HIDE DEF x
<1>4. /\ DOMAIN st' = DOMAIN st /\ st'.closed = st.closed /\ st'.subs = (IF st.closed THEN st.subs ELSE st.subs \cup {ch})
      /\ st'.down = st.down
      /\ st'.inFlight = st.inFlight /\ st'.write = st.write /\ st'.errors = st.errors /\ st'.deliver = st.deliver
  <2>1. CASE st.closed
    BY Zenon, <1>1, <2>1 DEF RelayInv, RelayShape
  <2>2. CASE ~st.closed
    BY <1>1, <2>2 DEF RelayInv, RelayShape
  <2> QED
    BY Zenon, <2>1, <2>2
<1>5. /\ DOMAIN seen' = DOMAIN seen /\ seen'.requests = seen.requests /\ seen'.chans = Append(seen.chans, x) /\ seen'.ended = seen.ended
      /\ seen'.failed = seen.failed /\ seen'.answered = seen.answered /\ seen'.cut = seen.cut
  BY <1>1 DEF RelayInv, RelayShape
<1>6. RelayShape'
  BY <1>1, <1>2, <1>4, <1>5, RelayCallGoes DEF RelayInv, RelayShape
<1>8. RelayCount' /\ begun' = begun
  BY <1>1, <1>2, <1>3, <1>4, <1>5, RelayCountKeeps DEF RelayInv
<1>9. RelayEnd'
  <2>1. calls'[c] = Idle /\ \A d \in Callers : d # c => calls'[d] = calls[d]
    BY <1>1, <1>2, RelayCallGoes DEF RelayInv
  <2>2. \A d \in Callers : isEnding(calls'[d]) <=> isEnding(calls[d])
    BY Zenon, <1>2, <1>3, <2>1
  <2>3. \A d \in Callers : calls[d].pc = "closing" => calls'[d].pc = "closing"
    BY <1>1, <2>1
  <2>4. x \in Chan /\ (x = "closed" \/ ch \in st'.subs) /\ st.subs \subseteq st'.subs
    BY Zenon, <1>4 DEF x, Chan
  <2>5. /\ seen'.chans \in Seq(Chan) /\ DOMAIN seen'.chans = DOMAIN seen.chans \cup {ch}
        /\ seen'.chans[ch] = x /\ \A i \in DOMAIN seen.chans : seen'.chans[i] = seen.chans[i]
    <3> DEFINE s == seen.chans
    <3>1. s \in Seq(Chan) /\ x \in Chan
      BY Zenon, <2>4 DEF RelayInv, RelayEnd
    <3> HIDE DEF s
    <3>2. /\ Append(s, x) \in Seq(Chan) /\ DOMAIN Append(s, x) = DOMAIN s \cup {Len(s) + 1}
          /\ Append(s, x)[Len(s) + 1] = x /\ \A i \in DOMAIN s : Append(s, x)[i] = s[i]
      BY <3>1
    <3> QED
      BY Zenon, <1>5, <3>2 DEF s
  <2> HIDE DEF ch
  <2>6. \A i \in DOMAIN seen'.chans : seen'.chans[i] = "closed" \/ i \in st'.subs
    BY Zenon, <2>4, <2>5 DEF RelayInv, RelayEnd
  <2>7. st'.closed => st'.subs = {} \/ \E d \in Callers : calls'[d].pc = "closing"
    BY Zenon, <1>4, <2>3 DEF RelayInv, RelayEnd
  <2>8. /\ st'.down \in {0, 1}
        /\ ~st'.closed => st'.down = 0 /\ \A d \in Callers : ~isEnding(calls'[d])
        /\ \A d, e \in Callers : isEnding(calls'[d]) /\ isEnding(calls'[e]) => st'.down = 0 /\ d = e
    BY Zenon, <1>4, <2>2 DEF RelayInv, RelayEnd
  <2> QED
    BY Zenon, <2>5, <2>6, <2>7, <2>8 DEF RelayEnd
<1>10. RelayDrain'
  BY <1>1, <1>2, <1>5, <1>8, RelayDrainKeeps DEF RelayInv
<1> QED
  BY <1>6, <1>8, <1>9, <1>10 DEF RelayInv

LEMMA RelaySwapped ==
  ASSUME RelayShape, RelayEnd, NEW c \in Callers, ~st.closed, goes(c, [pc |-> "closing"]), st'.closed = TRUE,
         st'.subs = st.subs, st'.down = st.down, seen'.chans = seen.chans
  PROVE  RelayEnd'
<1> DEFINE k == [pc |-> "closing"]
<1>1. k.pc = "closing" /\ isEnding(k) /\ goes(c, k)
  BY Zenon DEF isEnding
<1> HIDE DEF k
<1>2. calls'[c] = k /\ \A d \in Callers : d # c => calls'[d] = calls[d]
  BY Zenon, <1>1, GoesOne DEF RelayShape
<1>3. \A d \in Callers : isEnding(calls'[d]) => d = c
  BY Zenon, <1>2 DEF RelayEnd
<1>4. calls'[c].pc = "closing" /\ st'.down = 0
  BY Zenon, <1>1, <1>2 DEF RelayEnd
<1> QED
  BY <1>3, <1>4 DEF RelayEnd

LEMMA RelayCloses ==
  ASSUME RelayInv, NEW c \in Callers, RelayClose(c)
  PROVE  RelayInv'
<1> DEFINE k == [pc |-> "closing"]
<1>1. /\ goes(c, k) /\ calls[c].pc = "idle" /\ st' = [st EXCEPT !.closed = TRUE] /\ seen' = seen /\ ~st.closed
  BY DEF RelayClose, at
<1>2. RelayCall(k) /\ ~isBusy(k) /\ k.pc = "closing"
  BY Zenon DEF RelayCall, isBusy
<1>3. ~isBusy(calls[c])
  BY <1>1 DEF isBusy
<1>4. /\ DOMAIN st' = DOMAIN st /\ st'.closed = TRUE /\ st'.subs = st.subs /\ st'.down = st.down
      /\ st'.inFlight = st.inFlight /\ st'.write = st.write /\ st'.errors = st.errors /\ st'.deliver = st.deliver
  BY <1>1 DEF RelayInv, RelayShape
<1>9. RelayEnd'
  BY <1>1, <1>4, RelaySwapped DEF RelayInv
<1> HIDE DEF k
<1>6. RelayShape'
  BY <1>1, <1>2, <1>4, RelayCallGoes DEF RelayInv, RelayShape
<1>8. RelayCount' /\ begun' = begun
  BY <1>1, <1>2, <1>3, <1>4, RelayCountKeeps DEF RelayInv
<1>10. RelayDrain'
  BY <1>1, <1>2, <1>8, RelayDrainKeeps DEF RelayInv
<1> QED
  BY <1>6, <1>8, <1>9, <1>10 DEF RelayInv

LEMMA RelayClosesSubs ==
  ASSUME RelayInv, NEW c \in Callers, CloseSubs(c)
  PROVE  RelayInv'
<1> DEFINE k == [pc |-> "down"]
           chans == [i \in DOMAIN seen.chans |-> IF i \in st.subs THEN "closed" ELSE seen.chans[i]]
<1>1. /\ goes(c, k) /\ calls[c].pc = "closing" /\ st' = [st EXCEPT !.subs = {}]
      /\ seen' = [seen EXCEPT !.chans = chans]
  BY DEF CloseSubs, at
<1>2. RelayCall(k) /\ ~isBusy(k) /\ isEnding(k) /\ k.pc = "down"
  BY Zenon DEF RelayCall, isBusy, isEnding
<1>3. ~isBusy(calls[c]) /\ isEnding(calls[c])
  BY <1>1 DEF isBusy, isEnding
<1>c. chans \in Seq(Chan) /\ \A i \in DOMAIN chans : chans[i] = "closed"
  <2> DEFINE s == seen.chans
  <2>1. s \in Seq(Chan) /\ \A i \in DOMAIN s : s[i] = "closed" \/ i \in st.subs
    BY Zenon DEF RelayInv, RelayEnd
  <2>2. \A i \in DOMAIN chans : chans[i] = "closed"
    BY <2>1
  <2>3. Len(s) \in Nat /\ DOMAIN s = 1..Len(s) /\ \A i \in 1..Len(s) : chans[i] \in Chan
    BY <2>1 DEF Chan
  <2>4. chans \in [1..Len(s) -> Chan]
    BY Zenon, <2>3
  <2> QED
    BY <2>2, <2>3, <2>4
<1> HIDE DEF k, chans
<1>4. /\ DOMAIN st' = DOMAIN st /\ st'.closed = st.closed /\ st'.subs = {} /\ st'.down = st.down
      /\ st'.inFlight = st.inFlight /\ st'.write = st.write /\ st'.errors = st.errors /\ st'.deliver = st.deliver
  BY <1>1 DEF RelayInv, RelayShape
<1>5. /\ DOMAIN seen' = DOMAIN seen /\ seen'.requests = seen.requests /\ seen'.chans = chans /\ seen'.ended = seen.ended
      /\ seen'.failed = seen.failed /\ seen'.answered = seen.answered /\ seen'.cut = seen.cut
  BY <1>1 DEF RelayInv, RelayShape
<1>6. RelayShape'
  BY <1>1, <1>2, <1>4, <1>5, RelayCallGoes DEF RelayInv, RelayShape
<1>8. RelayCount' /\ begun' = begun
  BY <1>1, <1>2, <1>3, <1>4, <1>5, RelayCountKeeps DEF RelayInv
<1>9. RelayEnd'
  <2>1. calls'[c] = k /\ \A d \in Callers : d # c => calls'[d] = calls[d]
    BY <1>1, <1>2, RelayCallGoes DEF RelayInv
  <2>2. \A d \in Callers : isEnding(calls'[d]) <=> isEnding(calls[d])
    BY Zenon, <1>2, <1>3, <2>1
  <2>3. st'.closed => st'.subs = {}
    BY Zenon, <1>4
  <2>4. /\ st'.down \in {0, 1}
        /\ ~st'.closed => st'.down = 0 /\ \A d \in Callers : ~isEnding(calls'[d])
        /\ \A d, e \in Callers : isEnding(calls'[d]) /\ isEnding(calls'[e]) => st'.down = 0 /\ d = e
    BY Zenon, <1>4, <2>2 DEF RelayInv, RelayEnd
  <2>5. seen'.chans \in Seq(Chan) /\ \A i \in DOMAIN seen'.chans : seen'.chans[i] = "closed"
    BY Zenon, <1>5, <1>c
  <2> QED
    BY Zenon, <2>3, <2>4, <2>5 DEF RelayEnd
<1>10. RelayDrain'
  BY <1>1, <1>2, <1>5, <1>8, RelayDrainKeeps DEF RelayInv
<1> QED
  BY <1>6, <1>8, <1>9, <1>10 DEF RelayInv

LEMMA RelayClosesDown ==
  ASSUME RelayInv, NEW c \in Callers, CloseDown(c)
  PROVE  RelayInv'
<1>1. /\ goes(c, Idle) /\ calls[c].pc = "down" /\ st' = [st EXCEPT !.down = @ + 1] /\ seen' = seen
  BY DEF CloseDown, at, returns
<1>2. RelayCall(Idle) /\ ~isBusy(Idle) /\ ~isEnding(Idle) /\ Idle.pc = "idle"
  BY DEF RelayCall, isBusy, isEnding, Idle
<1>3. ~isBusy(calls[c]) /\ isEnding(calls[c])
  BY <1>1 DEF isBusy, isEnding
<1>4. /\ DOMAIN st' = DOMAIN st /\ st'.closed = st.closed /\ st'.subs = st.subs /\ st'.down = st.down + 1
      /\ st'.inFlight = st.inFlight /\ st'.write = st.write /\ st'.errors = st.errors /\ st'.deliver = st.deliver
  BY <1>1 DEF RelayInv, RelayShape
<1>6. RelayShape'
  BY <1>1, <1>2, <1>4, RelayCallGoes DEF RelayInv, RelayShape
<1>8. RelayCount' /\ begun' = begun
  BY <1>1, <1>2, <1>3, <1>4, RelayCountKeeps DEF RelayInv
<1>9. RelayEnd'
  <2>1. calls'[c] = Idle /\ \A d \in Callers : d # c => calls'[d] = calls[d]
    BY <1>1, <1>2, RelayCallGoes DEF RelayInv
  <2>2. st.down = 0 /\ \A d \in Callers : isEnding(calls[d]) => d = c
    BY Zenon, <1>3 DEF RelayInv, RelayEnd
  <2>3. \A d \in Callers : ~isEnding(calls'[d])
    BY Zenon, <1>2, <2>1, <2>2
  <2>4. st.closed /\ \A d \in Callers : calls[d].pc # "closing"
    BY <1>1, <1>3, <2>2 DEF RelayInv, RelayEnd, isEnding
  <2>5. st'.closed /\ st'.subs = {} /\ st'.down = 1
    BY <1>4, <2>2, <2>4 DEF RelayInv, RelayEnd
  <2>6. seen.chans \in Seq(Chan) /\ \A i \in DOMAIN seen.chans : seen.chans[i] = "closed" \/ i \in st'.subs
    BY Zenon, <1>4 DEF RelayInv, RelayEnd
  <2> QED
    BY <1>1, <2>3, <2>5, <2>6 DEF RelayEnd
<1>10. RelayDrain'
  BY <1>1, <1>2, <1>8, RelayDrainKeeps DEF RelayInv
<1> QED
  BY <1>6, <1>8, <1>9, <1>10 DEF RelayInv

LEMMA RelayDrained ==
  ASSUME RelayInv, NEW c \in Callers, NEW timeout, DrainEnds(c, timeout)
  PROVE  RelayInv'
<1> DEFINE k == [pc |-> "drained", old |-> IF drained THEN calls[c].old ELSE {}]
<1>1. goes(c, k) /\ calls[c].pc = "drain" /\ st' = st /\ seen' = seen
  BY DEF DrainEnds, at
<1>2. RelayCall(k) /\ ~isBusy(k) /\ ~isEnding(k) /\ k.pc = "drained"
  BY Zenon DEF RelayCall, isBusy, isEnding
<1>3. ~isBusy(calls[c]) /\ ~isEnding(calls[c])
  BY <1>1 DEF isBusy, isEnding
<1>4. k.old \subseteq seen.ended
  <2>1. CASE drained
    <3>1. busy = {}
      BY Zenon, <2>1, BusyFinite DEF drained, RelayInv, RelayCount
    <3>2. begun = seen.ended
      BY <3>1 DEF busy, begun, isBusy
    <3> QED
      BY <1>1, <2>1, <3>2 DEF RelayInv, RelayDrain
  <2> QED
    BY <2>1
<1> HIDE DEF k
<1>6. RelayShape'
  BY Zenon, <1>1, <1>2, RelayCallGoes DEF RelayInv, RelayShape
<1>8. RelayCount' /\ begun' = begun
  BY Zenon, <1>1, <1>2, <1>3, RelayCountKeeps DEF RelayInv
<1>9. RelayEnd'
  BY Zenon, <1>1, <1>2, <1>3, RelayEndKeeps DEF RelayInv
<1>10. RelayDrain'
  BY <1>1, <1>2, <1>4, <1>8, RelayDrainKeeps DEF RelayInv
<1> QED
  BY <1>6, <1>8, <1>9, <1>10 DEF RelayInv

LEMMA RelayDrainCloses ==
  ASSUME RelayInv, NEW c \in Callers, DrainClose(c)
  PROVE  RelayInv'
<1> DEFINE k == IF st.closed THEN Idle ELSE [pc |-> "closing"]
           left == seen.cut \cup (calls[c].old \ seen.ended)
<1>1. /\ goes(c, k) /\ calls[c].pc = "drained" /\ seen' = [seen EXCEPT !.cut = left]
      /\ st.closed => st' = st /\ k = Idle
      /\ ~st.closed => st' = [st EXCEPT !.closed = TRUE] /\ k = [pc |-> "closing"]
  BY DEF DrainClose, at, returns
<1>2. RelayCall(k) /\ ~isBusy(k) /\ k.pc \in {"idle", "closing"} /\ (st.closed => ~isEnding(k))
  BY Zenon DEF RelayCall, isBusy, isEnding, Idle
<1>3. ~isBusy(calls[c]) /\ ~isEnding(calls[c])
  BY <1>1 DEF isBusy, isEnding
<1>l. left = {}
  BY <1>1 DEF RelayInv, RelayDrain
<1> HIDE DEF k, left
<1>4. /\ DOMAIN st' = DOMAIN st /\ st'.closed = TRUE /\ st'.subs = st.subs /\ st'.down = st.down
      /\ st'.inFlight = st.inFlight /\ st'.write = st.write /\ st'.errors = st.errors /\ st'.deliver = st.deliver
  <2>1. CASE st.closed
    BY <1>1, <2>1 DEF RelayInv, RelayShape
  <2>2. CASE ~st.closed
    BY <1>1, <2>2 DEF RelayInv, RelayShape
  <2> QED
    BY Zenon, <2>1, <2>2
<1>5. /\ DOMAIN seen' = DOMAIN seen /\ seen'.requests = seen.requests /\ seen'.chans = seen.chans /\ seen'.ended = seen.ended
      /\ seen'.failed = seen.failed /\ seen'.answered = seen.answered /\ seen'.cut = seen.cut
  BY <1>1, <1>l DEF RelayInv, RelayShape, RelayDrain
<1>6. RelayShape'
  BY Zenon, <1>1, <1>2, <1>4, <1>5, RelayCallGoes DEF RelayInv, RelayShape
<1>8. RelayCount' /\ begun' = begun
  BY <1>1, <1>2, <1>3, <1>4, <1>5, RelayCountKeeps DEF RelayInv
<1>9. RelayEnd'
  <2>1. CASE st.closed
    BY Zenon, <1>1, <1>2, <1>3, <1>4, <1>5, <2>1, RelayEndKeeps DEF RelayInv
  <2>2. CASE ~st.closed
    BY Zenon, <1>1, <1>4, <1>5, <2>2, RelaySwapped DEF RelayInv
  <2> QED
    BY <2>1, <2>2
<1>10. RelayDrain'
  BY <1>1, <1>2, <1>5, <1>8, RelayDrainKeeps DEF RelayInv
<1> QED
  BY <1>6, <1>8, <1>9, <1>10 DEF RelayInv

LEMMA RelayStep ==
  ASSUME RelayInv, RelayNext
  PROVE  RelayInv'
<1>1. PICK c \in Callers :
        \/ \E m \in Messages, call \in BOOLEAN : Begin(c, m, call)
        \/ \E ok \in BOOLEAN : RelayRequestEnds(c, ok) \/ DrainEnds(c, ok)
        \/ RelayLeave(c) \/ SubscribeBegin(c) \/ SubscribeEnd(c)
        \/ RelayClose(c) \/ CloseSubs(c) \/ CloseDown(c) \/ DrainBegin(c) \/ DrainClose(c)
  BY Zenon DEF RelayNext
<1> QED
  BY Zenon, <1>1, RelayBegins, RelayEnds, RelayDrained, RelayDrainCloses, RelayLeaves, RelayWaits, RelaySubscribes, RelayCloses,
     RelayClosesSubs, RelayClosesDown

-----------------------------------------------------------------------------
(* observe. *)
(* Metric m is still to be told by call k. *)
tells(k, m) == k.pc = "tell" /\ \E i \in DOMAIN k.left : k.left[i] = m

ObserveCall(k) ==
  /\ k.pc \in {"idle", "inner", "tell"}
  /\ k.pc = "tell" =>
       /\ DOMAIN k = {"pc", "addr", "result", "left"}
       /\ k.left \in {<<"latency", "health">>, <<"health">>, <<"error", "miss">>, <<"miss">>, <<"error">>}

ObserveInv ==
  /\ DOMAIN st = {"closed", "latency", "errors", "misses", "healthy"}
  /\ st.latency \in Nat /\ st.errors \in Nat /\ st.misses \in Nat
  /\ seen \in [{"ok", "flagged", "timeout", "failed"} -> Nat]
  /\ calls = [c \in Callers |-> calls[c]]
  /\ \A c \in Callers : ObserveCall(calls[c])
  /\ EveryRequestCounted

LEMMA UntoldIs ==
  ASSUME NEW m
  PROVE  /\ untold(m) = Cardinality({c \in Callers : tells(calls[c], m)})
         /\ untold(m)' = Cardinality({c \in Callers : tells(calls'[c], m)})
BY Zenon DEF untold, at, tells

(* What a step of one call does to the number of calls that have a metric to tell. *)
LEMMA UntoldChange ==
  ASSUME calls = [d \in Callers |-> calls[d]], NEW c \in Callers, NEW k, goes(c, k), NEW m
  PROVE  /\ untold(m) \in Nat
         /\ (tells(k, m) <=> tells(calls[c], m)) => untold(m)' = untold(m)
         /\ tells(k, m) /\ ~tells(calls[c], m) => untold(m)' = untold(m) + 1
         /\ ~tells(k, m) /\ tells(calls[c], m) => untold(m)' = untold(m) - 1
<1> DEFINE U == {d \in Callers : tells(calls[d], m)}
           V == {d \in Callers : tells(calls'[d], m)}
<1>1. calls'[c] = k /\ \A d \in Callers : d # c => calls'[d] = calls[d]
  BY GoesOne
<1>2. U \subseteq Callers /\ IsFiniteSet(U) /\ Cardinality(U) \in Nat
  BY CallersAssumption, FS_Subset, FS_CardinalityType
<1>3. V \ {c} = U \ {c} /\ (c \in V <=> tells(k, m)) /\ (c \in U <=> tells(calls[c], m))
  BY Zenon, <1>1
<1> HIDE DEF U, V
<1>4. untold(m) = Cardinality(U) /\ untold(m)' = Cardinality(V)
  BY UntoldIs, Zenon DEF U, V
<1>5. CASE tells(k, m) <=> tells(calls[c], m)
  <2>1. U = V
    BY <1>3, <1>5
  <2> QED
    BY Zenon, <1>2, <1>4, <1>5, <2>1
<1>6. CASE tells(k, m) /\ ~tells(calls[c], m)
  <2>1. V = U \cup {c} /\ c \notin U
    BY <1>3, <1>6
  <2> QED
    BY Zenon, <1>2, <1>4, <1>6, <2>1, FS_AddElement
<1>7. CASE ~tells(k, m) /\ tells(calls[c], m)
  <2>1. V = U \ {c} /\ c \in U
    BY <1>3, <1>7
  <2>2. Cardinality(V) = Cardinality(U) - 1
    BY <1>2, <2>1, FS_RemoveElement
  <2> QED
    BY Zenon, <1>2, <1>4, <1>7, <2>2
<1> QED
  BY Zenon, <1>5, <1>6, <1>7

LEMMA ObserveInitial == ObserveInit => ObserveInv
<1> SUFFICES ASSUME ObserveInit PROVE ObserveInv
  OBVIOUS
<1>1. calls = [c \in Callers |-> Idle]
  BY Zenon DEF ObserveInit, CallsInit
<1>2. \A m : untold(m) = 0
  <2> TAKE m
  <2>1. {c \in Callers : tells(calls[c], m)} = {}
    BY <1>1 DEF tells, Idle
  <2> QED
    BY Zenon, <2>1, UntoldIs, FS_EmptySet
<1>3. EveryRequestCounted
  BY <1>2 DEF ObserveInit, EveryRequestCounted
<1> QED
  BY SMTT(30), <1>1, <1>3 DEF ObserveInit, ObserveInv, ObserveCall, Idle

(* Which metrics each rest of a list has. *)
LEMMA TellsWhat ==
  ASSUME NEW k
  PROVE  /\ k.pc # "tell" => \A m : ~tells(k, m)
         /\ k.pc = "tell" => /\ k.left = <<"latency", "health">> => tells(k, "latency") /\ ~tells(k, "error") /\ ~tells(k, "miss")
                             /\ k.left = <<"health">> => ~tells(k, "latency") /\ ~tells(k, "error") /\ ~tells(k, "miss")
                             /\ k.left = <<"error", "miss">> => ~tells(k, "latency") /\ tells(k, "error") /\ tells(k, "miss")
                             /\ k.left = <<"miss">> => ~tells(k, "latency") /\ ~tells(k, "error") /\ tells(k, "miss")
                             /\ k.left = <<"error">> => ~tells(k, "latency") /\ tells(k, "error") /\ ~tells(k, "miss")
BY DEF tells

LEMMA ObserveStep == ObserveInv /\ ObserveNext => ObserveInv'
<1> SUFFICES ASSUME ObserveInv, ObserveNext PROVE ObserveInv'
  OBVIOUS
<1>0. /\ DOMAIN st = {"closed", "latency", "errors", "misses", "healthy"}
      /\ st.latency \in Nat /\ st.errors \in Nat /\ st.misses \in Nat
      /\ seen \in [{"ok", "flagged", "timeout", "failed"} -> Nat]
      /\ calls = [c \in Callers |-> calls[c]]
      /\ \A c \in Callers : ObserveCall(calls[c])
      /\ EveryRequestCounted
  BY DEF ObserveInv
<1>1. ASSUME NEW c \in Callers, NEW k, goes(c, k), ObserveCall(k) PROVE
         calls' = [d \in Callers |-> calls'[d]] /\ \A d \in Callers : ObserveCall(calls'[d])
  BY ZenonT(40), <1>0, <1>1, GoesOne
<1>2. ASSUME NEW c \in Callers, NEW a \in Observed, ObserveRequestBegin(c, a) PROVE ObserveInv'
  <2> DEFINE k == [pc |-> "inner", addr |-> a]
  <2>1. goes(c, k) /\ calls[c].pc = "idle" /\ st' = st /\ seen' = seen
    BY Zenon, <1>2 DEF ObserveRequestBegin, at
  <2>2. ObserveCall(k) /\ k.pc = "inner"
    BY Zenon DEF ObserveCall
  <2> HIDE DEF k
  <2>3. \A m : ~tells(k, m) /\ ~tells(calls[c], m)
    BY Zenon, <2>1, <2>2 DEF tells
  <2>4. \A m : untold(m)' = untold(m)
    BY Zenon, <1>0, <2>1, <2>3, UntoldChange
  <2>5. EveryRequestCounted'
    BY Zenon, <1>0, <2>1, <2>4 DEF EveryRequestCounted
  <2> QED
    BY Zenon, <1>0, <1>1, <2>1, <2>2, <2>5 DEF ObserveInv
<1>3. ASSUME NEW c \in Callers, ObserveRequestReturn(c) PROVE ObserveInv'
  <2>1. PICK r \in DOMAIN seen :
          /\ seen' = [seen EXCEPT ![r] = @ + 1]
          /\ goes(c, [pc |-> "tell", addr |-> calls[c].addr, result |-> r, left |-> toldFor(r)])
    BY Zenon, <1>3 DEF ObserveRequestReturn
  <2>2. calls[c].pc = "inner" /\ st' = st
    BY Zenon, <1>3 DEF ObserveRequestReturn, at
  <2> DEFINE k == [pc |-> "tell", addr |-> calls[c].addr, result |-> r, left |-> toldFor(r)]
  <2>3. k.pc = "tell" /\ k.left = toldFor(r) /\ DOMAIN k = {"pc", "addr", "result", "left"} /\ goes(c, k)
    BY Zenon, <2>1
  <2> HIDE DEF k
  <2>4. r \in {"ok", "flagged", "timeout", "failed"}
    BY <1>0
  <2>5. ObserveCall(k)
    BY <2>3, <2>4 DEF toldFor, ObserveCall
  <2>6. \A m : ~tells(calls[c], m)
    BY Zenon, <2>2 DEF tells
  <2>7. \A m : untold(m) \in Nat /\ untold(m)' = untold(m) + (IF tells(k, m) THEN 1 ELSE 0)
    BY <1>0, <2>3, <2>6, UntoldChange
  <2>8. EveryRequestCounted'
    <3>1. CASE r \in {"ok", "flagged"}
      <4>1. tells(k, "latency") /\ ~tells(k, "error") /\ ~tells(k, "miss")
        BY <2>3, <3>1, TellsWhat DEF toldFor
      <4> QED
        BY <1>0, <2>1, <2>2, <2>7, <3>1, <4>1 DEF EveryRequestCounted
    <3>2. CASE r = "timeout"
      <4>1. ~tells(k, "latency") /\ tells(k, "error") /\ tells(k, "miss")
        BY <2>3, <3>2, TellsWhat DEF toldFor
      <4> QED
        BY <1>0, <2>1, <2>2, <2>7, <3>2, <4>1 DEF EveryRequestCounted
    <3>3. CASE r = "failed"
      <4>1. ~tells(k, "latency") /\ tells(k, "error") /\ ~tells(k, "miss")
        BY <2>3, <3>3, TellsWhat DEF toldFor
      <4> QED
        BY <1>0, <2>1, <2>2, <2>7, <3>3, <4>1 DEF EveryRequestCounted
    <3> QED
      BY <2>4, <3>1, <3>2, <3>3
  <2>9. seen' \in [{"ok", "flagged", "timeout", "failed"} -> Nat]
    BY <1>0, <2>1
  <2> QED
    BY Zenon, <1>0, <1>1, <2>2, <2>3, <2>5, <2>8, <2>9 DEF ObserveInv
<1>4. ASSUME NEW c \in Callers, Tell(c) PROVE ObserveInv'
  <2> DEFINE k == calls[c]
             l == IF Len(k.left) = 1 THEN Idle ELSE [k EXCEPT !.left = Tail(@)]
  <2>1. k.pc = "tell" /\ goes(c, l) /\ seen' = seen
    BY <1>4 DEF Tell, at
  <2>2. st' = CASE Head(k.left) = "latency" -> [st EXCEPT !.latency = @ + 1]
             [] Head(k.left) = "error" -> [st EXCEPT !.errors = @ + 1]
             [] Head(k.left) = "miss" -> [st EXCEPT !.misses = @ + 1]
             [] Head(k.left) = "health" -> [st EXCEPT !.healthy[k.addr] = (k.result = "ok")]
    BY <1>4 DEF Tell
  <2>3. ObserveCall(k)
    BY <1>0
  <2> HIDE DEF k
  <2>4. /\ DOMAIN k = {"pc", "addr", "result", "left"}
        /\ k.left \in {<<"latency", "health">>, <<"health">>, <<"error", "miss">>, <<"miss">>, <<"error">>}
    BY <2>1, <2>3 DEF ObserveCall
  <2>5. /\ k.left = <<"latency", "health">> => l.pc = "tell" /\ l.left = <<"health">> /\ DOMAIN l = DOMAIN k
        /\ k.left = <<"error", "miss">> => l.pc = "tell" /\ l.left = <<"miss">> /\ DOMAIN l = DOMAIN k
        /\ k.left \in {<<"health">>, <<"miss">>, <<"error">>} => l.pc = "idle"
    <3>1. /\ Len(<<"latency", "health">>) = 2 /\ Tail(<<"latency", "health">>) = <<"health">>
          /\ Len(<<"error", "miss">>) = 2 /\ Tail(<<"error", "miss">>) = <<"miss">>
      OBVIOUS
    <3>2. Len(<<"health">>) = 1 /\ Len(<<"miss">>) = 1 /\ Len(<<"error">>) = 1
      OBVIOUS
    <3>3. CASE Len(k.left) = 2
      <4>1. l = [k EXCEPT !.left = Tail(@)]
        BY <3>3
      <4>2. l.pc = "tell" /\ l.left = Tail(k.left) /\ DOMAIN l = DOMAIN k
        BY <2>1, <2>4, <4>1
      <4>3. k.left \notin {<<"health">>, <<"miss">>, <<"error">>}
        BY <3>2, <3>3
      <4> QED
        BY Zenon, <2>1, <3>1, <4>2, <4>3
    <3>4. CASE Len(k.left) = 1
      <4>1. l.pc = "idle"
        BY <3>4 DEF Idle
      <4> QED
        BY <3>1, <3>4, <4>1
    <3> QED
      BY <2>4, <3>1, <3>2, <3>3, <3>4
  <2> HIDE DEF l
  <2>6. ObserveCall(l)
    BY Zenon, <2>4, <2>5 DEF ObserveCall
  <2>7. \A m : /\ untold(m) \in Nat
               /\ (tells(l, m) <=> tells(k, m)) => untold(m)' = untold(m)
               /\ ~tells(l, m) /\ tells(k, m) => untold(m)' = untold(m) - 1
    BY Zenon, <1>0, <2>1, UntoldChange DEF k
  <2>8. /\ DOMAIN st' = {"closed", "latency", "errors", "misses", "healthy"}
        /\ st'.latency = st.latency + (IF Head(k.left) = "latency" THEN 1 ELSE 0)
        /\ st'.errors = st.errors + (IF Head(k.left) = "error" THEN 1 ELSE 0)
        /\ st'.misses = st.misses + (IF Head(k.left) = "miss" THEN 1 ELSE 0)
    <3>1. CASE Head(k.left) = "latency"
      BY <1>0, <2>2, <3>1
    <3>2. CASE Head(k.left) = "error"
      BY <1>0, <2>2, <3>2
    <3>3. CASE Head(k.left) = "miss"
      BY <1>0, <2>2, <3>3
    <3>4. CASE Head(k.left) = "health"
      BY <1>0, <2>2, <3>4
    <3> QED
      BY <2>4, <3>1, <3>2, <3>3, <3>4
  <2>9. EveryRequestCounted'
    <3>1. CASE k.left = <<"latency", "health">>
      <4>1. tells(k, "latency") /\ ~tells(k, "error") /\ ~tells(k, "miss")
            /\ ~tells(l, "latency") /\ ~tells(l, "error") /\ ~tells(l, "miss")
        BY Zenon, <2>1, <2>5, <3>1, TellsWhat
      <4>2. Head(k.left) = "latency"
        BY <3>1
      <4> QED
        BY <1>0, <2>1, <2>7, <2>8, <4>1, <4>2 DEF EveryRequestCounted
    <3>2. CASE k.left = <<"health">>
      <4>1. ~tells(k, "latency") /\ ~tells(k, "error") /\ ~tells(k, "miss")
            /\ ~tells(l, "latency") /\ ~tells(l, "error") /\ ~tells(l, "miss")
        BY Zenon, <2>1, <2>5, <3>2, TellsWhat
      <4>2. Head(k.left) = "health"
        BY <3>2
      <4> QED
        BY <1>0, <2>1, <2>7, <2>8, <4>1, <4>2 DEF EveryRequestCounted
    <3>3. CASE k.left = <<"error", "miss">>
      <4>1. ~tells(k, "latency") /\ tells(k, "error") /\ tells(k, "miss")
            /\ ~tells(l, "latency") /\ ~tells(l, "error") /\ tells(l, "miss")
        BY Zenon, <2>1, <2>5, <3>3, TellsWhat
      <4>2. Head(k.left) = "error"
        BY <3>3
      <4> QED
        BY <1>0, <2>1, <2>7, <2>8, <4>1, <4>2 DEF EveryRequestCounted
    <3>4. CASE k.left = <<"miss">>
      <4>1. ~tells(k, "latency") /\ ~tells(k, "error") /\ tells(k, "miss")
            /\ ~tells(l, "latency") /\ ~tells(l, "error") /\ ~tells(l, "miss")
        BY Zenon, <2>1, <2>5, <3>4, TellsWhat
      <4>2. Head(k.left) = "miss"
        BY <3>4
      <4> QED
        BY <1>0, <2>1, <2>7, <2>8, <4>1, <4>2 DEF EveryRequestCounted
    <3>5. CASE k.left = <<"error">>
      <4>1. ~tells(k, "latency") /\ tells(k, "error") /\ ~tells(k, "miss")
            /\ ~tells(l, "latency") /\ ~tells(l, "error") /\ ~tells(l, "miss")
        BY Zenon, <2>1, <2>5, <3>5, TellsWhat
      <4>2. Head(k.left) = "error"
        BY <3>5
      <4> QED
        BY <1>0, <2>1, <2>7, <2>8, <4>1, <4>2 DEF EveryRequestCounted
    <3> QED
      BY Zenon, <2>4, <3>1, <3>2, <3>3, <3>4, <3>5
  <2> QED
    BY <1>0, <1>1, <2>1, <2>6, <2>8, <2>9 DEF ObserveInv
<1>5. CASE ObserveClose
  <2>1. st' = [st EXCEPT !.closed = TRUE] /\ calls' = calls /\ seen' = seen
    BY <1>5 DEF ObserveClose
  <2>2. \A m : untold(m)' = untold(m)
    BY Zenon, <2>1, UntoldIs
  <2>3. DOMAIN st' = DOMAIN st /\ st'.latency = st.latency /\ st'.errors = st.errors /\ st'.misses = st.misses
    BY <1>0, <2>1
  <2>4. EveryRequestCounted'
    BY <1>0, <2>1, <2>2, <2>3 DEF EveryRequestCounted
  <2> QED
    BY <1>0, <2>1, <2>3, <2>4 DEF ObserveInv
<1> QED
  BY <1>2, <1>3, <1>4, <1>5 DEF ObserveNext

LEMMA ObserveSound == ObserveInv => EveryRequestCounted
BY DEF ObserveInv

-----------------------------------------------------------------------------
(* The packages together. *)
GatewaysInv ==
  /\ kind \in {"relay", "admin", "observe"}
  /\ kind = "relay" => RelayInv
  /\ kind = "admin" => AdminInv
  /\ kind = "observe" => ObserveInv

(* At every moment of every behaviour the gateways' promises hold: the     *)
(* RELAY adapter counts its messages, ends its subscriptions and drains,   *)
(* the administration server reports every request and the last health it  *)
(* published and meets a missing Controller only if it was removed, and    *)
(* the metrics count every request.                                        *)
THEOREM GatewaysAreSafe == GatewaysSpec => []GatewaysSafe
<1>1. GatewaysInit => GatewaysInv
  BY RelayInitial, AdminInitial, ObserveInitial DEF GatewaysInit, GatewaysInv
<1>2. GatewaysInv /\ [GatewaysNext]_vars => GatewaysInv'
  <2> SUFFICES ASSUME GatewaysInv, [GatewaysNext]_vars PROVE GatewaysInv'
    OBVIOUS
  <2>1. CASE kind = "relay" /\ RelayNext /\ UNCHANGED kind
    BY <2>1, RelayStep DEF GatewaysInv
  <2>2. CASE kind = "admin" /\ AdminNext /\ UNCHANGED kind
    BY <2>2, AdminStep DEF GatewaysInv
  <2>3. CASE kind = "observe" /\ ObserveNext /\ UNCHANGED kind
    BY <2>3, ObserveStep DEF GatewaysInv
  <2>4. CASE UNCHANGED vars
    <3>1. kind' = kind /\ st' = st /\ calls' = calls /\ seen' = seen
      BY <2>4 DEF vars
    <3>2. RelayInv => RelayInv'
      <4>1. busy' = busy /\ begun' = begun
        BY Zenon, <3>1 DEF busy, begun
      <4>2. RelayShape => RelayShape'
        BY Zenon, <3>1, <4>1 DEF RelayShape
      <4>3. RelayCount => RelayCount'
        BY Zenon, <3>1, <4>1 DEF RelayCount
      <4>4. RelayEnd => RelayEnd'
        BY Zenon, <3>1, <4>1 DEF RelayEnd
      <4>5. RelayDrain => RelayDrain'
        BY Zenon, <3>1, <4>1 DEF RelayDrain
      <4> QED
        BY <4>2, <4>3, <4>4, <4>5 DEF RelayInv
    <3>3. AdminInv => AdminInv'
      <4>1. AdminShape => AdminShape'
        BY Zenon, <3>1 DEF AdminShape, AdminFields, AdminPool, AdminDone, AdminCalls
      <4>2. AdminCounts => AdminCounts'
        BY Zenon, <3>1 DEF AdminCounts, uncredited
      <4>3. AdminNil => AdminNil'
        BY Zenon, <3>1 DEF AdminNil
      <4>4. AdminTells => AdminTells'
        BY Zenon, <3>1 DEF AdminTells
      <4> QED
        BY <4>1, <4>2, <4>3, <4>4 DEF AdminInv
    <3>4. ObserveInv => ObserveInv'
      BY Zenon, <3>1 DEF ObserveInv, EveryRequestCounted, untold, at
    <3> QED
      BY <3>1, <3>2, <3>3, <3>4 DEF GatewaysInv
  <2> QED
    BY <2>1, <2>2, <2>3, <2>4 DEF GatewaysNext
<1>3. GatewaysInv => GatewaysSafe
  BY RelaySound, AdminSound, ObserveSound DEF GatewaysInv, GatewaysSafe
<1> QED
  BY <1>1, <1>2, <1>3, PTL DEF GatewaysSpec
=============================================================================
