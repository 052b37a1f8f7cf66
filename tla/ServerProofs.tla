---------------------------- MODULE ServerProofs ----------------------------
(***************************************************************************)
(* Proofs about the server: the RC Server of RCServer, for every set of    *)
(* streams, pins, addresses, endpoint types and register values, and the   *)
(* safety loop of Watchdog, whatever Supervisor and Keeper do beside the   *)
(* Dispatcher.                                                             *)
(***************************************************************************)
EXTENDS RCServer, Watchdog, TLAPS

-----------------------------------------------------------------------------
(* RCServer. *)

(* The register map alone; claim and clock are typed separately. *)
MapTypeOK ==
  /\ IsPinMap(pinMap)
  /\ limits \in Limits
  /\ queues \in Queues
  /\ DOMAIN eps \subseteq Nat
  /\ eps \in [DOMAIN eps -> Endpoints]

(* Writing over part of a block gives a block of the same length. *)
LEMMA PatchedType ==
  ASSUME NEW block \in Seq(Nat), NEW data \in Seq(Nat), NEW start \in Nat,
         start + Len(data) <= Len(block)
  PROVE  patched(block, start, data) \in Seq(Nat)
<1>1. Len(block) \in Nat /\ Len(data) \in Nat
  OBVIOUS
<1>2. ASSUME NEW i \in 1..Len(block), i > start, i <= start + Len(data)
      PROVE  data[i - start] \in Nat
  <2>1. i - start \in 1..Len(data)
    BY <1>1, <1>2
  <2> QED
    BY SMTT(30), <2>1
<1>3. patched(block, start, data) \in [1..Len(block) -> Nat]
  BY SMTT(30), <1>2 DEF patched
<1> QED
  BY SMTT(30), <1>1, <1>3 DEF patched

(* A functional write leaves every endpoint at its address with its type. *)
LEMMA FunctionalWrite ==
  ASSUME MapTypeOK, NEW a \in DOMAIN eps, NEW data \in Seq(Nat),
         eps' = [eps EXCEPT ![a].func = data]
  PROVE  /\ DOMAIN eps' = DOMAIN eps
         /\ eps' \in [DOMAIN eps' -> Endpoints]
         /\ \A b \in DOMAIN eps : eps'[b].type = eps[b].type
BY DEF MapTypeOK, Endpoints

LEMMA InitMapType == Init => MapTypeOK
<1> SUFFICES ASSUME Init PROVE MapTypeOK
  OBVIOUS
<1>1. DOMAIN pinMap = {} /\ DOMAIN eps = {}
  BY DEF Init
<1>2. IsPinMap(pinMap)
  BY <1>1 DEF Init, IsPinMap
<1>3. eps \in [DOMAIN eps -> Endpoints]
  BY <1>1 DEF Init
<1> QED
  BY <1>1, <1>2, <1>3, RCServerAssumption DEF Init, MapTypeOK

(* What a register write keeps: the types, the state, and what the state *)
(* locks.                                                                *)
LEMMA WriteStepType ==
  ASSUME MapTypeOK, NEW x \in StreamID, WriteStep(x)
  PROVE  /\ MapTypeOK'
         /\ state' = state
         /\ state # "Unconfigured" =>
              /\ pinMap' = pinMap
              /\ DOMAIN eps' = DOMAIN eps
              /\ \A a \in DOMAIN eps : eps'[a].type = eps[a].type
         /\ state = "FullyConfigured" => limits' = limits /\ queues' = queues
<1>1. ASSUME NEW a \in Addr, NEW t \in Types, AddEndpoint(x, a, t)
      PROVE  MapTypeOK' /\ state' = state /\ state = "Unconfigured"
  <2> DEFINE new == [type |-> t, func |-> <<>>]
  <2>1. new \in Endpoints
    BY DEF Endpoints
  <2> HIDE DEF new
  <2>2. eps' = [b \in DOMAIN eps \cup {a} |-> IF b = a THEN new ELSE eps[b]]
    BY <1>1 DEF AddEndpoint, new
  <2>3. DOMAIN eps' \subseteq Nat /\ eps' \in [DOMAIN eps' -> Endpoints]
    BY <2>1, <2>2, RCServerAssumption DEF MapTypeOK
  <2> QED
    BY <1>1, <2>3 DEF AddEndpoint, MapTypeOK
<1>2. ASSUME NEW p \in Pin, NEW a \in Addr, NEW i \in SignalIndex,
             SetPinAssignment(x, p, [ep |-> a, signal |-> i])
      PROVE  MapTypeOK' /\ state' = state /\ state = "Unconfigured"
  <2> DEFINE new == [ep |-> a, signal |-> i]
  <2>1. new \in Assignment
    BY RCServerAssumption DEF Assignment
  <2> HIDE DEF new
  <2>2. pinMap' = [r \in DOMAIN pinMap \cup {p} |-> IF r = p THEN new ELSE pinMap[r]]
    BY <1>2 DEF SetPinAssignment, new
  <2>3. IsPinMap(pinMap)'
    BY <2>1, <2>2 DEF MapTypeOK, IsPinMap
  <2> QED
    BY <1>2, <2>3 DEF SetPinAssignment, MapTypeOK
<1>3. ASSUME NEW l \in Limits, SetStreamLimits(x, l)
      PROVE  /\ MapTypeOK' /\ state' = state /\ state # "FullyConfigured"
             /\ pinMap' = pinMap /\ eps' = eps
  BY <1>3 DEF SetStreamLimits, MapTypeOK
<1>4. ASSUME NEW q \in Queues, SetQueueConfig(x, q)
      PROVE  /\ MapTypeOK' /\ state' = state /\ state # "FullyConfigured"
             /\ pinMap' = pinMap /\ eps' = eps
  BY <1>4 DEF SetQueueConfig, MapTypeOK
<1>5. ASSUME NEW a \in Addr, NEW data \in Blocks, WriteFunctional(x, a, data)
      PROVE  /\ MapTypeOK' /\ state' = state
             /\ UNCHANGED <<pinMap, limits, queues>>
             /\ DOMAIN eps' = DOMAIN eps
             /\ \A b \in DOMAIN eps : eps'[b].type = eps[b].type
  <2>1. data \in Seq(Nat) /\ a \in DOMAIN eps /\ eps' = [eps EXCEPT ![a].func = data]
    BY <1>5, RCServerAssumption DEF WriteFunctional
  <2>2. /\ DOMAIN eps' = DOMAIN eps
        /\ eps' \in [DOMAIN eps' -> Endpoints]
        /\ \A b \in DOMAIN eps : eps'[b].type = eps[b].type
    BY Zenon, <2>1, FunctionalWrite
  <2> QED
    BY <1>5, <2>2 DEF WriteFunctional, MapTypeOK
<1>6. ASSUME NEW a \in Addr, NEW start \in Offsets, NEW data \in Patches,
             WriteFunctionalAt(x, a, start, data)
      PROVE  /\ MapTypeOK' /\ state' = state
             /\ UNCHANGED <<pinMap, limits, queues>>
             /\ DOMAIN eps' = DOMAIN eps
             /\ \A b \in DOMAIN eps : eps'[b].type = eps[b].type
  <2> DEFINE block == patched(eps[a].func, start, data)
  <2>1. /\ a \in DOMAIN eps
        /\ eps' = [eps EXCEPT ![a].func = block]
        /\ start + Len(data) <= Len(eps[a].func)
    BY <1>6 DEF WriteFunctionalAt
  <2>2. eps[a].func \in Seq(Nat) /\ data \in Seq(Nat) /\ start \in Nat
    BY <2>1, RCServerAssumption DEF MapTypeOK, Endpoints
  <2>3. block \in Seq(Nat)
    BY <2>1, <2>2, PatchedType
  <2> HIDE DEF block
  <2>4. /\ DOMAIN eps' = DOMAIN eps
        /\ eps' \in [DOMAIN eps' -> Endpoints]
        /\ \A b \in DOMAIN eps : eps'[b].type = eps[b].type
    BY Zenon, <2>1, <2>3, FunctionalWrite
  <2> QED
    BY <1>6, <2>4 DEF WriteFunctionalAt, MapTypeOK
<1>7. ASSUME NEW m, WriteEP0(x, m)
      PROVE  /\ MapTypeOK' /\ state' = state
             /\ state # "Unconfigured" =>
                  /\ pinMap' = pinMap
                  /\ DOMAIN eps' = DOMAIN eps
                  /\ \A b \in DOMAIN eps : eps'[b].type = eps[b].type
             /\ state = "FullyConfigured" => limits' = limits /\ queues' = queues
  <2>1. IsWireMap(m) /\ WritableNow(m)
        /\ pinMap' = m.pinMap /\ limits' = m.limits /\ queues' = m.queues /\ eps' = m.eps
        /\ state' = state
    BY <1>7 DEF WriteEP0
  <2>2. MapTypeOK'
    BY <2>1, RCServerAssumption DEF IsWireMap, MapTypeOK
  <2> QED
    BY <2>1, <2>2 DEF WritableNow, SameEndpointGenerics
<1> QED
  BY Zenon, <1>1, <1>2, <1>3, <1>4, <1>5, <1>6, <1>7 DEF WriteStep

(* The steps that are no register write leave the map alone; they move the *)
(* state only along the guarded transitions.                               *)
LEMMA OtherStep ==
  ASSUME [Next]_vars, ~\E x \in StreamID : WriteStep(x)
  PROVE  /\ UNCHANGED rmap
         /\ \/ state' = state
            \/ /\ state = "Unconfigured" /\ state' = "HWLocked"
               /\ PinMapValid(pinMap, eps)
            \/ /\ state = "HWLocked" /\ state' = "FullyConfigured"
               /\ QueuesValid(queues)
            \/ state = "HWLocked" /\ state' = "Unconfigured"
<1>1. CASE AdvanceToHWLocked
  BY <1>1 DEF AdvanceToHWLocked, rmap
<1>2. CASE AdvanceToFullyConfigured
  BY <1>2 DEF AdvanceToFullyConfigured, rmap
<1>3. CASE \E x \in StreamID : DemoteToUnconfigured(x)
  BY <1>3 DEF DemoteToUnconfigured, rmap
<1>4. CASE UNCHANGED <<rmap, state>>
  BY <1>4
<1> QED
  BY <1>1, <1>2, <1>3, <1>4
  DEF Next, AccessStep, ClaimRoot, Grant, ClaimConfiguration,
      ReleaseConfigurationClaim, SetConfigurationClaimTimeout, Tick, vars

StateOK == state \in {"Unconfigured", "HWLocked", "FullyConfigured"}

LockInv == MapTypeOK /\ StateOK /\ LockedPinMapPlausible /\ FullyConfiguredQueuesFlush

LEMMA InitLockInv == Init => LockInv
BY InitMapType DEF Init, LockInv, StateOK, LockedPinMapPlausible, FullyConfiguredQueuesFlush

LEMMA NextLockInv == LockInv /\ [Next]_vars => LockInv'
<1> SUFFICES ASSUME LockInv, [Next]_vars PROVE LockInv'
  OBVIOUS
<1>1. CASE \E x \in StreamID : WriteStep(x)
  <2>1. PICK x \in StreamID : WriteStep(x)
    BY <1>1
  <2>2. /\ MapTypeOK'
        /\ state' = state
        /\ state # "Unconfigured" =>
             /\ pinMap' = pinMap
             /\ DOMAIN eps' = DOMAIN eps
             /\ \A a \in DOMAIN eps : eps'[a].type = eps[a].type
        /\ state = "FullyConfigured" => limits' = limits /\ queues' = queues
    BY <2>1, WriteStepType DEF LockInv
  <2>3. LockedPinMapPlausible'
    BY <2>2 DEF LockInv, LockedPinMapPlausible, PinMapValid
  <2>4. FullyConfiguredQueuesFlush'
    BY <2>2 DEF LockInv, FullyConfiguredQueuesFlush, QueuesValid
  <2> QED
    BY <2>2, <2>3, <2>4 DEF LockInv, StateOK
<1>2. CASE ~\E x \in StreamID : WriteStep(x)
  <2>1. /\ UNCHANGED rmap
        /\ \/ state' = state
           \/ /\ state = "Unconfigured" /\ state' = "HWLocked"
              /\ PinMapValid(pinMap, eps)
           \/ /\ state = "HWLocked" /\ state' = "FullyConfigured"
              /\ QueuesValid(queues)
           \/ state = "HWLocked" /\ state' = "Unconfigured"
    BY <1>2, OtherStep
  <2>2. MapTypeOK' /\ StateOK'
    BY <2>1 DEF LockInv, MapTypeOK, IsPinMap, StateOK, rmap
  <2>3. LockedPinMapPlausible'
    BY <2>1 DEF LockInv, LockedPinMapPlausible, PinMapValid, rmap
  <2>4. FullyConfiguredQueuesFlush'
    BY <2>1 DEF LockInv, FullyConfiguredQueuesFlush, QueuesValid, rmap
  <2> QED
    BY <2>2, <2>3, <2>4 DEF LockInv
<1> QED
  BY <1>1, <1>2

LEMMA LockInvHolds == Spec => []LockInv
BY InitLockInv, NextLockInv, PTL DEF Spec

(* Whatever sequence of writes, locks and demotions led there, the pin map *)
(* of a locked server passes PinMap.Validate against its endpoints.        *)
THEOREM PinMapStaysPlausible == Spec => []LockedPinMapPlausible
<1>1. LockInv => LockedPinMapPlausible
  BY DEF LockInv
<1> QED
  BY <1>1, LockInvHolds, PTL

(* A fully configured server's response queue flushes. *)
THEOREM QueuesStayValid == Spec => []FullyConfiguredQueuesFlush
<1>1. LockInv => FullyConfiguredQueuesFlush
  BY DEF LockInv
<1> QED
  BY <1>1, LockInvHolds, PTL

(* No requester, the root client included, changes a register after the *)
(* lifecycle state that locks it was reached.                           *)
THEOREM LocksHold == Spec => LockedRegistersFrozen
<1>1. LockInv /\ [Next]_vars =>
        [/\ state # "Unconfigured" =>
              /\ pinMap' = pinMap
              /\ DOMAIN eps' = DOMAIN eps
              /\ \A a \in DOMAIN eps : eps'[a].type = eps[a].type
         /\ state = "FullyConfigured" =>
              state' = state /\ limits' = limits /\ queues' = queues]_vars
  <2> SUFFICES ASSUME LockInv, [Next]_vars
               PROVE  /\ state # "Unconfigured" =>
                           /\ pinMap' = pinMap
                           /\ DOMAIN eps' = DOMAIN eps
                           /\ \A a \in DOMAIN eps : eps'[a].type = eps[a].type
                      /\ state = "FullyConfigured" =>
                           state' = state /\ limits' = limits /\ queues' = queues
    OBVIOUS
  <2>1. CASE \E x \in StreamID : WriteStep(x)
    BY <2>1, WriteStepType DEF LockInv
  <2>2. CASE ~\E x \in StreamID : WriteStep(x)
    BY <2>2, OtherStep DEF rmap
  <2> QED
    BY <2>1, <2>2
<1> QED
  BY <1>1, LockInvHolds, PTL DEF Spec, LockedRegistersFrozen

---------------------------------------------------------------------------
(* The configuration claim *)

ClaimTypeOK ==
  /\ claim \in [held : BOOLEAN, stream : StreamID \cup {None}, expires : Nat]
  /\ claimTimeout \in Nat \ {0}
  /\ lease \in [StreamID -> Nat]
  /\ wallClock \in Nat

ClaimInv == ClaimTypeOK /\ ClaimExclusive

LEMMA NextClaimInv == ClaimInv /\ [Next]_vars => ClaimInv'
<1> SUFFICES ASSUME ClaimInv, [Next]_vars PROVE ClaimInv'
  OBVIOUS
<1>1. ASSUME NEW x \in StreamID, ClaimConfiguration(x) PROVE ClaimInv'
  <2>1. /\ ~(Active(claim) /\ claim.stream # x)
        /\ claim' = [held |-> TRUE, stream |-> x, expires |-> wallClock + claimTimeout]
        /\ lease' = [lease EXCEPT ![x] = wallClock + claimTimeout]
        /\ claimTimeout' = claimTimeout /\ wallClock' = wallClock
    BY <1>1 DEF ClaimConfiguration
  <2>2. wallClock + claimTimeout \in Nat
    BY DEF ClaimInv, ClaimTypeOK
  <2>3. ClaimTypeOK'
    BY <2>1, <2>2 DEF ClaimInv, ClaimTypeOK
  <2>4. ASSUME NEW y \in StreamID, y # x PROVE ~(wallClock < lease'[y])
    <3>1. lease'[y] = lease[y]
      BY <2>1, <2>4 DEF ClaimInv, ClaimTypeOK
    <3>2. wallClock < lease[y] => Active(claim) /\ claim.stream = y
      BY DEF ClaimInv, ClaimExclusive, Active
    <3> QED
      BY <2>1, <2>4, <3>1, <3>2
  <2>5. claim'.held /\ claim'.stream = x /\ claim'.expires = lease'[x]
    BY <2>1 DEF ClaimInv, ClaimTypeOK
  <2> QED
    BY <2>1, <2>3, <2>4, <2>5 DEF ClaimInv, ClaimExclusive
<1>2. ASSUME NEW x \in StreamID, ReleaseConfigurationClaim(x) PROVE ClaimInv'
  <2>1. /\ claim.stream = x
        /\ claim' = [held |-> FALSE, stream |-> None, expires |-> 0]
        /\ lease' = [lease EXCEPT ![x] = 0]
        /\ claimTimeout' = claimTimeout /\ wallClock' = wallClock
    BY <1>2 DEF ReleaseConfigurationClaim
  <2>2. ClaimTypeOK'
    BY <2>1 DEF ClaimInv, ClaimTypeOK
  <2>3. ASSUME NEW y \in StreamID PROVE ~(wallClock < lease'[y])
    BY <2>1 DEF ClaimInv, ClaimTypeOK, ClaimExclusive
  <2> QED
    BY <2>1, <2>2, <2>3 DEF ClaimInv, ClaimExclusive
<1>3. ASSUME NEW d \in Timeouts, SetConfigurationClaimTimeout(d) PROVE ClaimInv'
  BY <1>3, RCServerAssumption
  DEF SetConfigurationClaimTimeout, DefaultClaimTimeout, ClaimInv, ClaimTypeOK, ClaimExclusive
<1>4. CASE Tick
  BY <1>4 DEF Tick, claimVars, ClaimInv, ClaimTypeOK, ClaimExclusive
<1>5. CASE UNCHANGED <<claimVars, wallClock>>
  BY <1>5 DEF claimVars, ClaimInv, ClaimTypeOK, ClaimExclusive
<1>6. ASSUME NEW x \in StreamID, WriteStep(x) PROVE UNCHANGED <<claimVars, wallClock>>
  BY Zenon, <1>6 DEF WriteStep, AddEndpoint, SetPinAssignment, SetStreamLimits,
     SetQueueConfig, WriteFunctional, WriteFunctionalAt, WriteEP0
<1>7. ASSUME NEW x \in StreamID,
             ClaimRoot(x) \/ (\E a \in Addr : Grant(x, a)) \/ DemoteToUnconfigured(x)
      PROVE  UNCHANGED <<claimVars, wallClock>>
  BY <1>7 DEF ClaimRoot, Grant, DemoteToUnconfigured
<1>8. CASE AdvanceToHWLocked \/ AdvanceToFullyConfigured \/ UNCHANGED vars
  BY <1>5, <1>8 DEF AdvanceToHWLocked, AdvanceToFullyConfigured, vars
<1> QED
  BY <1>1, <1>2, <1>3, <1>4, <1>5, <1>6, <1>7, <1>8 DEF Next, AccessStep

(* At most one client holds the configuration claim by its own account, and *)
(* the server's account is the same, for any sequence of claims, renewals,  *)
(* releases, timeout changes and passing time.                              *)
THEOREM ClaimIsExclusive == Spec => []ClaimExclusive
<1>1. Init => ClaimInv
  BY DEF Init, DefaultClaimTimeout, ClaimInv, ClaimTypeOK, ClaimExclusive
<1>2. ClaimInv => ClaimExclusive
  BY DEF ClaimInv
<1> QED
  BY <1>1, <1>2, NextClaimInv, PTL DEF Spec
---------------------------------------------------------------------------
(* The lifecycle as the trace checker sees it *)

(* Every step of the server, whoever takes it, is one that                *)
(* formal.LifecycleInvariants accepts between two states of a trace: the  *)
(* state is kept, moves up by one rank, or goes from locked to            *)
(* unconfigured.                                                          *)
THEOREM LifecycleIsLegal == Spec => StepsAreLegal
<1>1. LockInv /\ [Next]_vars =>
        [F!LegalStep(F!LifecycleRank(state), F!LifecycleRank(state'))]_vars
  <2> SUFFICES ASSUME LockInv, [Next]_vars
               PROVE  F!LegalStep(F!LifecycleRank(state), F!LifecycleRank(state'))
    OBVIOUS
  <2>1. CASE state' = state
    BY <2>1 DEF F!LegalStep
  <2>2. CASE state' # state
    <3>1. ~\E x \in StreamID : WriteStep(x)
      BY <2>2, WriteStepType DEF LockInv
    <3>2. \/ state = "Unconfigured" /\ state' = "HWLocked"
          \/ state = "HWLocked" /\ state' = "FullyConfigured"
          \/ state = "HWLocked" /\ state' = "Unconfigured"
      BY <2>2, <3>1, OtherStep
    <3> QED
      BY <3>2 DEF F!LegalStep, F!LifecycleRank
  <2> QED
    BY <2>1, <2>2
<1> QED
  BY <1>1, LockInvHolds, PTL DEF Spec, StepsAreLegal

-----------------------------------------------------------------------------
(* Watchdog: the Dispatcher in the loop behaves as Dispatcher.tla says, so what
   DispatcherProofs shows holds in it too; and safe state is left deliberately. *)

(* The types of the Supervisor's variables are kept. *)
LEMMA SupervisorTypes == WatchdogSpec => []SupervisorTypeOK
<1>1. WatchdogInit => SupervisorTypeOK
  BY SupervisorAssumption
  DEF WatchdogInit, SupervisorInit, SupervisorTypeOK, freshState, streamState, SeqNum
<1>2. SupervisorTypeOK /\ [WatchdogNext]_watchdogVars => SupervisorTypeOK'
  <2> SUFFICES ASSUME SupervisorTypeOK, [WatchdogNext]_watchdogVars PROVE SupervisorTypeOK'
    OBVIOUS
  <2>1. CASE UNCHANGED supervisorVars
    BY <2>1 DEF supervisorVars, SupervisorTypeOK
  <2>2. ASSUME NEW x \in Stream, NEW n \in SeqNum, Observe(x, n) PROVE SupervisorTypeOK'
    BY SMTT(30), <2>2, SupervisorAssumption DEF Observe, violates, SupervisorTypeOK, streamState, StreamConfig
  <2>3. ASSUME NEW x \in Stream, NEW c \in Configs, Configure(x, c) PROVE SupervisorTypeOK'
    BY <2>3, SupervisorAssumption DEF Configure, SupervisorTypeOK
  <2>4. ASSUME NEW x \in Stream, Reset(x) PROVE SupervisorTypeOK'
    BY <2>4, SupervisorAssumption DEF Reset, SupervisorTypeOK, streamState, freshState, SeqNum
  <2>5. CASE ClockTick
    BY <2>5, SupervisorAssumption DEF ClockTick, SupervisorTypeOK
  <2> QED
    BY <2>1, <2>2, <2>3, <2>4, <2>5
    DEF WatchdogNext, Watch, KeeperStep, TickBegin, TickCheck, TickPurge, TickEnd, Arrival, SubmitRequest,
        DispatcherStep, SupervisorStep, watchdogVars
<1> QED
  BY <1>1, <1>2, PTL DEF WatchdogSpec

(* How a step of the loop may touch the Supervisor. *)
LEMMA SupervisorSteps ==
  ASSUME [WatchdogNext]_watchdogVars
  PROVE  \/ UNCHANGED supervisorVars
         \/ \E x \in Stream, n \in SeqNum : Observe(x, n)
         \/ \E x \in Stream, c \in Configs : Configure(x, c)
         \/ \E x \in Stream : Reset(x)
         \/ ClockTick
BY DEF WatchdogNext, Watch, KeeperStep, TickBegin, TickCheck, TickPurge, TickEnd, Arrival, SubmitRequest,
       DispatcherStep, SupervisorStep, watchdogVars

(* A stream whose state, configuration and clock stay keeps its verdict. *)
LEMMA VerdictStays ==
  ASSUME NEW x \in Stream, (x \in known) = (x \in known'), st'[x] = st[x], cfg'[x] = cfg[x], clock' = clock
  PROVE  InSafeState(x)' = InSafeState(x)
BY SMTT(30) DEF InSafeState

(* Safe state is entered by the passing of time or a bad sequence number   *)
(* (Observe and InSafeState of e2e.Supervisor), but it is left only when   *)
(* the stream is heard from or reconfigured, and after a sequence          *)
(* violation only by Reset, beside any Tick, Pump or Submit.               *)
THEOREM SafeStateIsLeftDeliberately == WatchdogSpec => SafeStateLeftDeliberately
<1> DEFINE left(x) ==
      InSafeState(x) /\ ~InSafeState(x)' =>
        /\ st[x].tripped => st'[x].haveSeq = FALSE
        /\ st'[x].lastArrival = clock \/ cfg'[x] # cfg[x]
<1>1. SupervisorTypeOK /\ [WatchdogNext]_watchdogVars => [\A x \in Stream : left(x)]_supervisorVars
  <2> SUFFICES ASSUME SupervisorTypeOK, [WatchdogNext]_watchdogVars, NEW x \in Stream PROVE left(x)
    BY Zenon DEF SupervisorTypeOK
  <2>0. /\ cfg[x] \in StreamConfig /\ st[x] \in streamState /\ clock \in Int
        /\ cfg \in [Stream -> StreamConfig] /\ st \in [Stream -> streamState]
    BY SupervisorAssumption DEF SupervisorTypeOK
  <2>1. CASE UNCHANGED supervisorVars
    BY <2>1, VerdictStays DEF supervisorVars
  <2>2. ASSUME NEW y \in Stream, NEW n \in SeqNum, Observe(y, n) PROVE left(x)
    <3>1. CASE x = y
      BY Zenon, <2>0, <2>2, <3>1 DEF Observe, InSafeState
    <3>2. CASE x # y
      BY <2>0, <2>2, <3>2, VerdictStays DEF Observe
    <3> QED
      BY Zenon, <3>1, <3>2
  <2>3. ASSUME NEW y \in Stream, NEW c \in Configs, Configure(y, c) PROVE left(x)
    <3>1. CASE cfg'[x] = cfg[x]
      BY SMTT(30), <2>3, <3>1, VerdictStays DEF Configure
    <3>2. CASE cfg'[x] # cfg[x]
      BY <2>3, <3>2 DEF Configure, InSafeState
    <3> QED
      BY Zenon, <3>1, <3>2
  <2>4. ASSUME NEW y \in Stream, Reset(y) PROVE left(x)
    <3>1. CASE x = y
      BY <2>0, <2>4, <3>1 DEF Reset, freshState
    <3>2. CASE x # y
      BY <2>0, <2>4, <3>2, VerdictStays DEF Reset
    <3> QED
      BY Zenon, <3>1, <3>2
  <2>5. CASE ClockTick
    <3>1. st[x].lastArrival \in Int /\ cfg[x].timeout \in Int
      BY <2>0 DEF streamState, StreamConfig
    <3>2. InSafeState(x) => InSafeState(x)'
      BY <2>0, <2>5, <3>1 DEF ClockTick, InSafeState
    <3> QED
      BY SMTT(30), <3>2
  <2> QED
    BY Zenon, <2>1, <2>2, <2>3, <2>4, <2>5, SupervisorSteps
<1>2. SupervisorTypeOK /\ [WatchdogNext]_watchdogVars =>
        [\A x \in Stream :
           InSafeState(x) /\ ~InSafeState(x)' =>
             /\ st[x].tripped => st'[x].haveSeq = FALSE
             /\ \/ st'[x].lastArrival = clock
                \/ cfg'[x] # cfg[x]]_supervisorVars
  BY <1>1
<1> QED
  BY <1>2, SupervisorTypes, PTL DEF WatchdogSpec, SafeStateLeftDeliberately

(* Steps of the Supervisor and the Keeper leave the Dispatcher alone. *)
LEMMA OthersStutter ==
  ASSUME UNCHANGED dispatcherState
  PROVE  D!SafeStateChanges
<1>1. [x \in Stream |-> InSafeState(x)'] \in [Stream -> BOOLEAN]
  BY DEF InSafeState
<1> QED
  BY <1>1 DEF dispatcherState, D!SafeStateChanges, D!dispatcherVars, D!pumpVars

(* What the Dispatcher does in the loop is a step of Dispatcher.tla: the   *)
(* verdicts stand still while one of its critical sections runs.           *)
LEMMA StepsAreDispatcherSteps == [WatchdogNext]_watchdogVars => [D!Next]_(D!vars)
<1> SUFFICES ASSUME [WatchdogNext]_watchdogVars PROVE D!Next
  OBVIOUS
<1>1. CASE UNCHANGED dispatcherState
  BY <1>1, OthersStutter DEF D!Next
<1>2. ASSUME NEW x \in Stream, NEW r \in Requests, SubmitRequest(x, r) PROVE D!Next
  BY <1>2 DEF SubmitRequest, D!Next
<1>3. CASE DispatcherStep
  BY <1>3 DEF DispatcherStep, PumpCall, D!Next
<1>4. CASE TickPurge
  BY <1>4 DEF TickPurge, D!Next
<1> QED
  BY <1>1, <1>2, <1>3, <1>4
  DEF WatchdogNext, Watch, KeeperStep, TickBegin, TickCheck, TickEnd, Arrival, SupervisorStep, watchdogVars

(* The safety loop implements the Dispatcher, with the Supervisor's        *)
(* verdict for the answer of its SafeStateCheck.                           *)
THEOREM LoopImplementsDispatcher == WatchdogSpec => ImplementsDispatcher
<1>1. WatchdogInit => D!Init
  BY DEF WatchdogInit
<1> QED
  BY <1>1, StepsAreDispatcherSteps, PTL DEF WatchdogSpec, ImplementsDispatcher, D!Spec

=============================================================================
