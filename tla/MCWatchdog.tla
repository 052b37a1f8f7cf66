---------------------------- MODULE MCWatchdog ----------------------------
(***************************************************************************)
(* Small instances of Watchdog.                                             *)
(***************************************************************************)
EXTENDS Watchdog

req(b) ==
  [envelope |-> b # "Plain", ok |-> TRUE, base |-> b, safety |-> FALSE,
   txn |-> 1, seq |-> 1, op |-> "==", operand |-> 0, advance |-> 1,
   src |-> 7, at |-> 1, segs |-> 2, target |-> 1]

MCRequests ==
  {req("Plain"), req("Triggered"), [req("Compound") EXCEPT !.safety = TRUE]}

config(t, m, w) == [timeout |-> t, requireMonotonic |-> m, wraps |-> w]
MCdefCfg == config(1, TRUE, FALSE)
MCConfigs == {config(0, FALSE, FALSE), config(1, TRUE, TRUE)}
===========================================================================
