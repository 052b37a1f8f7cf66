----------------------------- MODULE RCServer -----------------------------
(***************************************************************************)
(* server.Server: the RC Server's lifecycle, its register map, the root    *)
(* client and the grants, and the Discovery-stream configuration claim.    *)
(* Every exported method holds s.mu from entry to return, so each is one   *)
(* atomic action; a rejected call changes nothing.                         *)
(*                                                                         *)
(* Abstracted: the general register block (never client-writable), the     *)
(* enabled flag and other generic fields of an endpoint (one value, its    *)
(* type), and the byte layout of the register map, except for the width of *)
(* its fields: the wire holds addr % ByteRange of an address, and lengths  *)
(* and pointers below LenRange only.                                       *)
(***************************************************************************)
EXTENDS Integers, Sequences, FiniteSets

CONSTANTS
  StreamID,     \* avtp.StreamID of the clients
  Pin,          \* physical pins
  Addr,         \* avtp.ByteBusID values clients use; 0 is EP0
  ByteRange,    \* 2^8, the range of the byte an address is encoded in
  LenRange,     \* 2^16, the range of a block's length and of a table's count
  PinEntries,   \* so many pin assignments leave the table pointers below 2^16
  EpType,       \* declarable endpoint types
  SignalCount,  \* how many named signals each type has
  SignalIndex,  \* signal indexes of pin assignments
  Limits,       \* values of the StreamLimits table; 0 is its zero value
  Queues,       \* values of the QueueConfig table
  Blocks,       \* functional blocks clients write (byte sequences)
  Patches,      \* byte sequences of offset-addressed writes
  Offsets,      \* and their start offsets
  EP0Writes,    \* register maps a root client sends, as decoded
  Timeouts,     \* durations passed to SetConfigurationClaimTimeout
  MaxTicks      \* bound: the server's clock

EP0 == 0
Unassigned == "Unassigned"
None == "none"
DefaultClaimTimeout == 1
ZeroQueue == [threshold |-> 0, time |-> 0]

Types == EpType \cup {Unassigned}
Assignment == [ep : Nat, signal : SignalIndex]
IsPinMap(pm) == DOMAIN pm \subseteq Pin /\ pm \in [DOMAIN pm -> Assignment]
Endpoints == [type : Types, func : Seq(Nat)]

VARIABLES
  state,        \* lifecycle.LifecycleState
  pinMap,       \* RegisterMap.PinMap: Set keeps one entry per pin
  limits,       \* RegisterMap.Streams
  queues,       \* RegisterMap.Queues
  eps,          \* RegisterMap.endpoints: address -> registers
  root,         \* AccessController.root, None until rootSet
  grants,       \* AccessController.grants
  claim,        \* discovery.Claim
  claimTimeout, \* Server.claimTimeout
  lease,        \* history: until when each client holds the claim, by its own
                \* account (its last successful claim, its release)
  wallClock     \* the clock Server.now reads

rmap == <<pinMap, limits, queues, eps>>
claimVars == <<claim, claimTimeout, lease>>
vars == <<state, rmap, root, grants, claimVars, wallClock>>

(* A decoded register map: what decodeRegisterMap can return, that is any *)
(* address a byte holds, EP0 and unassigned types included.               *)
IsWireMap(m) ==
  /\ IsPinMap(m.pinMap)
  /\ m.limits \in Limits
  /\ m.queues \in Queues
  /\ DOMAIN m.eps \subseteq 0..(ByteRange - 1)
  /\ m.eps \in [DOMAIN m.eps -> Endpoints]

ASSUME RCServerAssumption ==
  /\ Addr \subseteq Nat
  /\ ByteRange \in Nat \ {0}
  /\ LenRange \in Nat \ {0} /\ PinEntries \in Nat
  /\ Unassigned \notin EpType
  /\ SignalCount \in [EpType -> Nat]
  /\ SignalIndex \subseteq Nat
  /\ None \notin StreamID
  /\ 0 \in Limits
  /\ Queues \subseteq [threshold : Nat, time : Nat]
  /\ ZeroQueue \in Queues
  /\ Blocks \subseteq Seq(Nat)
  /\ Patches \subseteq Seq(Nat)
  /\ Offsets \subseteq Nat
  /\ \A m \in EP0Writes : IsWireMap(m)
  /\ Timeouts \subseteq Int
  /\ MaxTicks \in Nat

Init ==
  /\ state = "Unconfigured"
  /\ pinMap = [p \in {} |-> {}]
  /\ limits = 0
  /\ queues = ZeroQueue
  /\ eps = [a \in {} |-> {}]
  /\ root = None
  /\ grants = {}
  /\ claim = [held |-> FALSE, stream |-> None, expires |-> 0]
  /\ claimTimeout = DefaultClaimTimeout
  /\ lease = [x \in StreamID |-> 0]
  /\ wallClock = 0

---------------------------------------------------------------------------
(* Access control *)

IsRoot(x) == root = x

CanAccess(x, a) == IsRoot(x) \/ <<x, a>> \in grants

ClaimRoot(x) ==
  /\ root \in {None, x}
  /\ root' = x
  /\ UNCHANGED <<state, rmap, grants, claimVars, wallClock>>

Grant(x, a) ==
  /\ grants' = grants \cup {<<x, a>>}
  /\ UNCHANGED <<state, rmap, root, claimVars, wallClock>>

---------------------------------------------------------------------------
(* The Discovery-stream configuration claim *)

Active(c) == c.held /\ wallClock < c.expires

SetConfigurationClaimTimeout(d) ==
  /\ claimTimeout' = IF d <= 0 THEN DefaultClaimTimeout ELSE d
  /\ UNCHANGED <<state, rmap, root, grants, claim, lease, wallClock>>

ClaimConfiguration(x) ==
  /\ ~(Active(claim) /\ claim.stream # x)
  /\ claim' = [held |-> TRUE, stream |-> x, expires |-> wallClock + claimTimeout]
  /\ lease' = [lease EXCEPT ![x] = wallClock + claimTimeout]
  /\ UNCHANGED <<state, rmap, root, grants, claimTimeout, wallClock>>

(* Mutated form: Release does not compare the requester with the holder. *)
ReleaseConfigurationClaim_Anyone(x) ==
  /\ Active(claim)
  /\ claim' = [held |-> FALSE, stream |-> None, expires |-> 0]
  /\ lease' = [lease EXCEPT ![x] = 0]
  /\ UNCHANGED <<state, rmap, root, grants, claimTimeout, wallClock>>

ReleaseConfigurationClaim(x) ==
  /\ Active(claim)
  /\ claim.stream = x
  /\ claim' = [held |-> FALSE, stream |-> None, expires |-> 0]
  /\ lease' = [lease EXCEPT ![x] = 0]
  /\ UNCHANGED <<state, rmap, root, grants, claimTimeout, wallClock>>

---------------------------------------------------------------------------
(* Lifecycle *)

(* PinMap.Validate against the declared endpoints. *)
PinMapValid(pm, es) ==
  \A p \in DOMAIN pm :
    /\ pm[p].ep \in DOMAIN es
    /\ es[pm[p].ep].type \in EpType
    /\ pm[p].signal < SignalCount[es[pm[p].ep].type]

(* QueueConfig.Validate: a queue with neither threshold never flushes. *)
QueuesValid(q) == ~(q.threshold = 0 /\ q.time = 0)

AdvanceToHWLocked ==
  /\ state = "Unconfigured"
  /\ PinMapValid(pinMap, eps)
  /\ state' = "HWLocked"
  /\ UNCHANGED <<rmap, root, grants, claimVars, wallClock>>

(* Mutated form: the queue plausibility check is missing. *)
AdvanceToFullyConfigured_Unvalidated ==
  /\ state = "HWLocked"
  /\ \A a \in DOMAIN eps : eps[a].func # <<>>
  /\ state' = "FullyConfigured"
  /\ UNCHANGED <<rmap, root, grants, claimVars, wallClock>>

(* Mutated form: the state is not looked at. *)
AdvanceToFullyConfigured_Skips ==
  /\ \A a \in DOMAIN eps : eps[a].func # <<>>
  /\ QueuesValid(queues)
  /\ state' = "FullyConfigured"
  /\ UNCHANGED <<rmap, root, grants, claimVars, wallClock>>

AdvanceToFullyConfigured ==
  /\ state = "HWLocked"
  /\ \A a \in DOMAIN eps : eps[a].func # <<>>
  /\ QueuesValid(queues)
  /\ state' = "FullyConfigured"
  /\ UNCHANGED <<rmap, root, grants, claimVars, wallClock>>

DemoteToUnconfigured(x) ==
  /\ state = "HWLocked"
  /\ IsRoot(x) \/ (Active(claim) /\ claim.stream = x)
  /\ state' = "Unconfigured"
  /\ UNCHANGED <<rmap, root, grants, claimVars, wallClock>>

---------------------------------------------------------------------------
(* Register-map writes *)

AddEndpoint(x, a, t) ==
  /\ IsRoot(x)
  /\ state = "Unconfigured"
  /\ a # EP0
  /\ a \notin DOMAIN eps
  /\ eps' = [b \in DOMAIN eps \cup {a} |->
               IF b = a THEN [type |-> t, func |-> <<>>] ELSE eps[b]]
  /\ UNCHANGED <<state, pinMap, limits, queues, root, grants, claimVars, wallClock>>

(* Mutated form: the pin map locks one state too late. *)
SetPinAssignment_LocksLate(x, p, assignment) ==
  /\ IsRoot(x)
  /\ state # "FullyConfigured"
  /\ pinMap' = [r \in DOMAIN pinMap \cup {p} |->
                  IF r = p THEN assignment ELSE pinMap[r]]
  /\ UNCHANGED <<state, limits, queues, eps, root, grants, claimVars, wallClock>>

SetPinAssignment(x, p, assignment) ==
  /\ IsRoot(x)
  /\ state = "Unconfigured"
  /\ pinMap' = [r \in DOMAIN pinMap \cup {p} |->
                  IF r = p THEN assignment ELSE pinMap[r]]
  /\ UNCHANGED <<state, limits, queues, eps, root, grants, claimVars, wallClock>>

SetStreamLimits(x, l) ==
  /\ IsRoot(x)
  /\ state # "FullyConfigured"
  /\ limits' = l
  /\ UNCHANGED <<state, pinMap, queues, eps, root, grants, claimVars, wallClock>>

SetQueueConfig(x, q) ==
  /\ IsRoot(x)
  /\ state # "FullyConfigured"
  /\ queues' = q
  /\ UNCHANGED <<state, pinMap, limits, eps, root, grants, claimVars, wallClock>>

WriteFunctional(x, a, data) ==
  /\ CanAccess(x, a)
  /\ a \in DOMAIN eps
  /\ eps' = [eps EXCEPT ![a].func = data]
  /\ UNCHANGED <<state, pinMap, limits, queues, root, grants, claimVars, wallClock>>

(* block with data written over it from byte offset start *)
patched(block, start, data) ==
  [i \in 1..Len(block) |->
     IF i > start /\ i <= start + Len(data) THEN data[i - start] ELSE block[i]]

(* A write that would overrun the block is ignored in full. *)
WriteFunctionalAt(x, a, start, data) ==
  /\ CanAccess(x, a)
  /\ a \in DOMAIN eps
  /\ start + Len(data) <= Len(eps[a].func)
  /\ eps' = [eps EXCEPT ![a].func = patched(eps[a].func, start, data)]
  /\ UNCHANGED <<state, pinMap, limits, queues, root, grants, claimVars, wallClock>>

narrow(a) == a % ByteRange

(* What a client that reads EP0 gets and can write back: EncodeRegisterMap  *)
(* narrows every address to a byte, DecodeRegisterMap keeps the last of two *)
(* endpoints (in ascending address order) that collide.                     *)
WireMap ==
  [pinMap |-> [p \in DOMAIN pinMap |->
                 [pinMap[p] EXCEPT !.ep = narrow(pinMap[p].ep)]],
   limits |-> limits,
   queues |-> queues,
   eps |-> [b \in {narrow(a) : a \in DOMAIN eps} |->
              LET same == {a \in DOMAIN eps : narrow(a) = b}
              IN  eps[CHOOSE a \in same : \A c \in same : c <= a]]]

(* The lengths, counts and pointers of the encoded map keep their values.  *)
(* Where they do not, DecodeRegisterMap refuses the octets or reads some   *)
(* other map in them.                                                      *)
lengthsFit ==
  /\ Cardinality(DOMAIN pinMap) <= PinEntries
  /\ Cardinality(DOMAIN eps) < LenRange
  /\ \A a \in DOMAIN eps : Len(eps[a].func) < LenRange

ReadBack == IF lengthsFit THEN {WireMap} ELSE {}

SameEndpointGenerics(es) ==
  /\ DOMAIN es = DOMAIN eps
  /\ \A a \in DOMAIN es : es[a].type = eps[a].type

(* Mutated form: a whole-map write may change endpoint types. *)
WritableNow_IgnoresGenerics(m) ==
  /\ state # "Unconfigured" => m.pinMap = pinMap
  /\ state = "FullyConfigured" =>
       m.limits = limits /\ m.queues = queues

(* WriteEP0's checks of the incoming map against the lock state. *)
WritableNow(m) ==
  /\ state # "Unconfigured" =>
       m.pinMap = pinMap /\ SameEndpointGenerics(m.eps)
  /\ state = "FullyConfigured" =>
       m.limits = limits /\ m.queues = queues

(* m is what DecodeRegisterMap makes of the bytes written. *)
WriteEP0(x, m) ==
  /\ IsRoot(x)
  /\ IsWireMap(m)
  /\ WritableNow(m)
  /\ pinMap' = m.pinMap
  /\ limits' = m.limits
  /\ queues' = m.queues
  /\ eps' = m.eps
  /\ UNCHANGED <<state, root, grants, claimVars, wallClock>>

Tick ==
  /\ wallClock < MaxTicks
  /\ wallClock' = wallClock + 1
  /\ UNCHANGED <<state, rmap, root, grants, claimVars>>

---------------------------------------------------------------------------
AccessStep(x) ==
  \/ ClaimRoot(x)
  \/ \E a \in Addr : Grant(x, a)
  \/ ClaimConfiguration(x)
  \/ ReleaseConfigurationClaim(x)
  \/ DemoteToUnconfigured(x)

WriteStep(x) ==
  \/ \E a \in Addr, t \in Types : AddEndpoint(x, a, t)
  \/ \E p \in Pin, a \in Addr, i \in SignalIndex :
       SetPinAssignment(x, p, [ep |-> a, signal |-> i])
  \/ \E l \in Limits : SetStreamLimits(x, l)
  \/ \E q \in Queues : SetQueueConfig(x, q)
  \/ \E a \in Addr, data \in Blocks : WriteFunctional(x, a, data)
  \/ \E a \in Addr, start \in Offsets, data \in Patches :
       WriteFunctionalAt(x, a, start, data)
  \/ \E m \in EP0Writes \cup ReadBack : WriteEP0(x, m)

Next ==
  \/ \E x \in StreamID : AccessStep(x) \/ WriteStep(x)
  \/ \E d \in Timeouts : SetConfigurationClaimTimeout(d)
  \/ AdvanceToHWLocked
  \/ AdvanceToFullyConfigured
  \/ Tick

Spec == Init /\ [][Next]_vars

---------------------------------------------------------------------------
(* Once the hardware is locked, its pin map is plausible, whatever whole-map *)
(* writes, demotions and re-locks led there: PinMap.Validate ran at the lock *)
(* only, against the endpoints declared then.                                *)
LockedPinMapPlausible ==
  state # "Unconfigured" => PinMapValid(pinMap, eps)

(* A fully configured server has a queue configuration that flushes, so no  *)
(* response sits queued forever (QueueConfig.Validate).                     *)
FullyConfiguredQueuesFlush ==
  state = "FullyConfigured" => QueuesValid(queues)

(* No write by any requester changes the pin map or the endpoint topology    *)
(* while the hardware is locked, and none changes the stream and queue       *)
(* tables, nor the state, once fully configured (ErrRegisterLocked: "it      *)
(* stays closed for every requester, including the root client").            *)
LockedRegistersFrozen ==
  [][/\ state # "Unconfigured" =>
          /\ pinMap' = pinMap
          /\ DOMAIN eps' = DOMAIN eps
          /\ \A a \in DOMAIN eps : eps'[a].type = eps[a].type
     /\ state = "FullyConfigured" =>
          state' = state /\ limits' = limits /\ queues' = queues]_vars

(* At any time at most one client may believe it holds the configuration    *)
(* claim, and the server agrees with it: whatever renewals, releases,        *)
(* timeout changes and expirations came before, a client that claimed        *)
(* successfully holds the claim until its window ends or it releases it.     *)
ClaimExclusive ==
  \A x \in StreamID :
    wallClock < lease[x] =>
      claim.held /\ claim.stream = x /\ claim.expires = lease[x]

---------------------------------------------------------------------------
(* The repository's own trace checker. *)
F == INSTANCE Formal

(* Every step of the server is one that the repository's own trace checker *)
(* (formal.LifecycleInvariants) takes for legal, and so every trace of the *)
(* server passes it: no state is skipped, and only a locked server goes    *)
(* back.                                                                   *)
StepsAreLegal == [][F!LegalStep(F!LifecycleRank(state), F!LifecycleRank(state'))]_vars
===========================================================================
