-------------------------------- MODULE Calls -------------------------------
(***************************************************************************)
(* The goroutines inside a Go object: each is idle or somewhere in a call. *)
(* kind says which component a behaviour is about; st is the state of its  *)
(* object, calls its goroutines and seen a history.                        *)
(***************************************************************************)
LOCAL INSTANCE FiniteSets

CONSTANT Callers
ASSUME CallersAssumption == IsFiniteSet(Callers)

VARIABLES kind, st, calls, seen
vars == <<kind, st, calls, seen>>

Idle == [pc |-> "idle"]
at(c, pc) == calls[c].pc = pc
goes(c, call) == calls' = [calls EXCEPT ![c] = call]
returns(c) == goes(c, Idle)
CallsInit == calls = [c \in Callers |-> Idle]

(* m[k] = v, for a Go map. *)
put(m, k, v) == [x \in DOMAIN m \cup {k} |-> IF x = k THEN v ELSE m[x]]
=============================================================================
