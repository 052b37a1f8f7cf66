--------------------------- MODULE MCDispatcher ---------------------------
(***************************************************************************)
(* Two small instances of Dispatcher in one run, chosen by mode: three     *)
(* tickets of the kinds that are ready at once, from one requester, and    *)
(* two tickets of the kinds that wait for an event, a time or safe state,  *)
(* from two.  The constants of the module itself cover both.               *)
(***************************************************************************)
EXTENDS Dispatcher

CONSTANTS x1, x2, gpio, q1
VARIABLE mode

req(b) ==
  [envelope |-> b # "Plain", ok |-> TRUE, base |-> b, safety |-> FALSE,
   txn |-> 1, seq |-> q1, op |-> "==", operand |-> 0, advance |-> 1,
   src |-> gpio, at |-> 1, segs |-> 2, target |-> 1]

safe(r) == [r EXCEPT !.safety = TRUE]

(* Immediate kinds and the three cancellations. *)
ImmediateRequests ==
  {req("Plain"), [req("Compound") EXCEPT !.txn = 2],
   [req("CompoundWait") EXCEPT !.op = ">", !.advance = -2],
   req("Chained"), req("CancelAll"),
   [req("CancelTransaction") EXCEPT !.txn = 2],
   req("CancelSequencer"),
   [req("Chained") EXCEPT !.ok = FALSE],
   safe(req("Chained"))}

(* Kinds that wait for an event, a time or safe state. *)
GatedRequests ==
  {req("Plain"), req("Triggered"), safe(req("Triggered")),
   safe([req("CompoundWait") EXCEPT !.advance = 3]),
   safe(req("Compound")), req("Timed"), req("CancelAll")}

AllRequests == ImmediateRequests \cup GatedRequests

I == INSTANCE Dispatcher WITH Requests <- ImmediateRequests, Admitted <- {x1},
  MaxTicket <- 3, MaxNow <- 0, MaxEvents <- 0
G == INSTANCE Dispatcher WITH Requests <- GatedRequests, MaxTicket <- 2

MCInit == (mode = "immediate" /\ I!Init /\ ~inSafe[x2]) \/ (mode = "gated" /\ G!Init)

MCNext ==
  /\ UNCHANGED mode
  /\ \/ mode = "immediate" /\ I!Next /\ ~inSafe'[x2]
     \/ mode = "gated" /\ G!Next

MCSpec == MCInit /\ [][MCNext]_<<vars, mode>> /\ WF_vars(PumpStep)
===========================================================================
