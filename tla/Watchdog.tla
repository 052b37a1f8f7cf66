----------------------------- MODULE Watchdog -----------------------------
(***************************************************************************)
(* The safety loop of one endpoint: e2e.Supervisor, watchdog.Keeper and    *)
(* request.Dispatcher together.  The Dispatcher's SafeStateCheck is        *)
(* Supervisor.CheckFunc, so its `inSafe` input is InSafeState of the       *)
(* Supervisor.  Keeper.Tick takes k.mu only to copy its watch list; then,  *)
(* stream by stream, it asks the Supervisor and, if the answer is yes,     *)
(* purges the Dispatcher.  Each of these takes a different lock, so        *)
(* arrivals, resets and Pump calls interleave between them.                *)
(***************************************************************************)
EXTENDS Supervisor, FiniteSets, Sequences

CONSTANTS Source, SeqId, Txn, Requests, Admitted, MaxTicket, MaxNow,
          MaxEvents, MaxSeq

VARIABLES
  tickets, order, nextID, safeState, pumps, seq, now, pumping, batch, cur,
  opened, events,
  watch,    \* Keeper.watch: the streams registered for this Dispatcher
  todo,     \* Tick: streams of its copy not yet looked at
  ticking,  \* a Tick call is in progress
  purgeFor  \* Tick: the stream found in safe state, purge not yet done

D == INSTANCE Dispatcher WITH inSafe <- [x \in Stream |-> InSafeState(x)]

dispatcherState == <<tickets, order, nextID, safeState, pumps, seq, now,
                     pumping, batch, cur, opened, events>>
keeperVars == <<watch, todo, ticking, purgeFor>>
watchdogVars == <<supervisorVars, dispatcherState, keeperVars>>

Nobody == "nobody"

WatchdogInit ==
  /\ SupervisorInit
  /\ D!Init
  /\ watch = {}
  /\ todo = {}
  /\ ticking = FALSE
  /\ purgeFor = Nobody

Watch(x) ==
  /\ watch' = watch \cup {x}
  /\ UNCHANGED <<todo, ticking, purgeFor, supervisorVars, dispatcherState>>

(* Tick's critical section: copy the watch list. *)
TickBegin ==
  /\ ~ticking
  /\ ticking' = TRUE
  /\ todo' = watch
  /\ UNCHANGED <<watch, purgeFor, supervisorVars, dispatcherState>>

(* Mutated form: the test of the answer is inverted. *)
TickCheck_Healthy(x) ==
  /\ ticking
  /\ purgeFor = Nobody
  /\ x \in todo
  /\ todo' = todo \ {x}
  /\ purgeFor' = IF ~InSafeState(x) THEN x ELSE Nobody
  /\ UNCHANGED <<watch, ticking, supervisorVars, dispatcherState>>

(* Tick's InSafeState call for the next stream (map order: any). *)
TickCheck(x) ==
  /\ ticking
  /\ purgeFor = Nobody
  /\ x \in todo
  /\ todo' = todo \ {x}
  /\ purgeFor' = IF InSafeState(x) THEN x ELSE Nobody
  /\ UNCHANGED <<watch, ticking, supervisorVars, dispatcherState>>

(* Mutated form: the purge does not wait for d.mu. *)
TickPurge_Unlocked ==
  /\ purgeFor # Nobody
  /\ purgeFor' = Nobody
  /\ tickets' = D!finalizeWhere({id \in DOMAIN tickets : ~tickets[id].req.safety}, "purgedByWatchdog")
  /\ UNCHANGED <<watch, todo, ticking, supervisorVars, order, nextID, safeState, pumps, seq, now, pumping, batch, cur,
                 opened, events>>

(* Tick's PurgeNonSafety call, which waits for d.mu. *)
TickPurge ==
  /\ purgeFor # Nobody
  /\ purgeFor' = Nobody
  /\ UNCHANGED <<watch, todo, ticking, supervisorVars>>
  /\ D!PurgeNonSafety

TickEnd ==
  /\ ticking
  /\ todo = {}
  /\ purgeFor = Nobody
  /\ ticking' = FALSE
  /\ UNCHANGED <<watch, todo, purgeFor, supervisorVars, dispatcherState>>

KeeperStep == TickBegin \/ (\E x \in Stream : TickCheck(x)) \/ TickPurge \/ TickEnd

(* The server loop on an arrival: Observe, then Submit (separate locks; a *)
(* tripped arrival is submitted all the same).                            *)
Arrival(x, n) ==
  /\ Observe(x, n)
  /\ UNCHANGED <<dispatcherState, keeperVars>>

SubmitRequest(x, r) ==
  /\ UNCHANGED <<supervisorVars, keeperVars>>
  /\ D!Submit(x, r)

PumpCall == \E t \in 0..MaxNow : D!PumpBegin(t)

DispatcherStep ==
  /\ UNCHANGED <<supervisorVars, keeperVars>>
  /\ \/ PumpCall
     \/ D!PumpStep
     \/ \E check \in BOOLEAN : D!SetSafeStateCheck(check)

SupervisorStep ==
  /\ \/ \E x \in Stream, c \in Configs : Configure(x, c)
     \/ \E x \in Stream : Reset(x)
     \/ ClockTick
  /\ UNCHANGED <<dispatcherState, keeperVars>>

WatchdogNext ==
  \/ \E x \in Stream : Watch(x)
  \/ KeeperStep
  \/ \E x \in Stream, n \in SeqNum : Arrival(x, n)
  \/ \E x \in Stream, r \in Requests : SubmitRequest(x, r)
  \/ DispatcherStep
  \/ SupervisorStep

WatchdogSpec == WatchdogInit /\ [][WatchdogNext]_watchdogVars

(* The Keeper is ticked again and again, each Tick runs to its end, and so *)
(* does each Pump (its Handler calls return).                              *)
WatchdogFairSpec ==
  /\ WatchdogSpec
  /\ WF_watchdogVars(TickBegin)
  /\ \A x \in Stream : WF_watchdogVars(TickCheck(x))
  /\ SF_watchdogVars(TickPurge)
  /\ WF_watchdogVars(TickEnd)
  /\ WF_watchdogVars(UNCHANGED <<supervisorVars, keeperVars>> /\ D!PumpStep)

---------------------------------------------------------------------------
(* The Dispatcher in the safety loop is the Dispatcher, with the           *)
(* Supervisor's verdict for the answer of its SafeStateCheck: whatever the *)
(* Keeper and the Supervisor do between its critical sections, it takes    *)
(* only steps that Dispatcher.tla gives it, so what holds there holds here.*)
ImplementsDispatcher == D!Spec

pendingOrdinary(id) ==
  /\ id \in DOMAIN tickets
  /\ ~tickets[id].req.safety
  /\ tickets[id].state # "Finalized"

(* When a watched stream stays silent (or tripped) forever, every pending    *)
(* request of its endpoint that is no safety request is eventually resolved, *)
(* whatever gate it waits for and whoever sent it: Tick's check and purge,   *)
(* although not atomic, cannot keep missing it.                              *)
SilentStreamIsPurged ==
  \A x \in Stream, id \in 0..(MaxTicket - 1) :
    ([](x \in watch /\ InSafeState(x)) /\ pendingOrdinary(id))
      ~> ~pendingOrdinary(id)

(* No safety request starts executing while its requester is not in safe *)
(* state.                                                                *)
SafetyExecutesInSafeState ==
  [][\A id \in DOMAIN tickets \cap DOMAIN tickets' :
       /\ tickets[id].req.safety
       /\ tickets[id].state = "Started"
       /\ tickets'[id].state = "Executing"
       => InSafeState(tickets[id].from)]_watchdogVars
===========================================================================
