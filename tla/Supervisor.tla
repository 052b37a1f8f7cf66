---------------------------- MODULE Supervisor ----------------------------
(***************************************************************************)
(* e2e.Supervisor: the server-side watchdog of every request stream.  It   *)
(* times a stream's request arrivals and checks their sequence numbers;    *)
(* its verdict InSafeState is computed on demand from the clock.  Every    *)
(* method holds s.mu, so each is one atomic action.                        *)
(***************************************************************************)
EXTENDS Integers

CONSTANTS
  Stream,    \* avtp.StreamID
  MaxSeqNum, \* stands for math.MaxUint32: sequence numbers wrap after it
  Configs,   \* the StreamConfig values used by Configure
  defCfg,    \* NewSupervisor's default StreamConfig
  MaxClock   \* bound: the clock

SeqNum == 0..MaxSeqNum

StreamConfig == [timeout : Nat, requireMonotonic : BOOLEAN, wraps : BOOLEAN]

ASSUME SupervisorAssumption ==
  /\ MaxSeqNum \in Nat
  /\ Configs \subseteq StreamConfig
  /\ defCfg \in StreamConfig
  /\ MaxClock \in Nat

VARIABLES
  cfg,    \* Supervisor.cfg, defCfg where there is no override
  known,  \* the streams with a streamState
  st,     \* streamState of every stream (meaningful for known ones)
  clock   \* what Supervisor.now returns

supervisorVars == <<cfg, known, st, clock>>

streamState == [lastArrival : Nat, haveSeq : BOOLEAN, lastSeq : SeqNum,
                tripped : BOOLEAN]

freshState(t) ==
  [lastArrival |-> t, haveSeq |-> FALSE, lastSeq |-> 0, tripped |-> FALSE]

SupervisorInit ==
  /\ cfg = [x \in Stream |-> defCfg]
  /\ known = {}
  /\ st = [x \in Stream |-> freshState(0)]
  /\ clock = 0

Configure(x, c) ==
  /\ cfg' = [cfg EXCEPT ![x] = c]
  /\ UNCHANGED <<known, st, clock>>

(* lastSeq + 1 in uint32 arithmetic *)
successor(n) == (n + 1) % (MaxSeqNum + 1)

(* Observe's monotonicity check *)
violates(x, n) ==
  /\ cfg[x].requireMonotonic
  /\ st[x].haveSeq
  /\ n # successor(st[x].lastSeq)
  /\ ~(cfg[x].wraps /\ st[x].lastSeq = MaxSeqNum /\ n = 0)

(* Mutated form: an in-order arrival clears the trip. *)
Observe_Untrips(x, n) ==
  /\ known' = known \cup {x}
  /\ st' = [st EXCEPT ![x] =
              [lastArrival |-> clock, haveSeq |-> TRUE, lastSeq |-> n,
               tripped |-> violates(x, n)]]
  /\ UNCHANGED <<cfg, clock>>

Observe(x, n) ==
  /\ known' = known \cup {x}
  /\ st' = [st EXCEPT ![x] =
              [lastArrival |-> clock, haveSeq |-> TRUE, lastSeq |-> n,
               tripped |-> st[x].tripped \/ violates(x, n)]]
  /\ UNCHANGED <<cfg, clock>>

InSafeState(x) ==
  \/ x \notin known
  \/ st[x].tripped
  \/ clock - st[x].lastArrival > cfg[x].timeout

Reset(x) ==
  /\ known' = known \cup {x}
  /\ st' = [st EXCEPT ![x] = freshState(clock)]
  /\ UNCHANGED <<cfg, clock>>

ClockTick ==
  /\ clock < MaxClock
  /\ clock' = clock + 1
  /\ UNCHANGED <<cfg, known, st>>

---------------------------------------------------------------------------
(* Type invariant. *)
SupervisorTypeOK ==
  /\ cfg \in [Stream -> StreamConfig]
  /\ known \subseteq Stream
  /\ st \in [Stream -> streamState]
  /\ clock \in 0..MaxClock

(* The verdict leaves safe state only when the stream is heard from (an      *)
(* arrival or a Reset) or its timeout is reconfigured, never by time passing *)
(* or by another stream; and after a sequence violation only by a Reset:     *)
(* "entering a safe state is ... automatic, leaving one is always a          *)
(* deliberate operator/caller decision".                                     *)
SafeStateLeftDeliberately ==
  [][\A x \in Stream :
       InSafeState(x) /\ ~InSafeState(x)' =>
         /\ st[x].tripped => st'[x].haveSeq = FALSE
         /\ \/ st'[x].lastArrival = clock
            \/ cfg'[x] # cfg[x]]_supervisorVars

===========================================================================
