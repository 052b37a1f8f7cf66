---------------------------- MODULE MCRCServer ----------------------------
(***************************************************************************)
(* Two small instances of RCServer in one run, chosen by mode: one client  *)
(* that configures, locks and rewrites the whole map, and two clients that *)
(* compete for the configuration claim.  The constants of the module       *)
(* itself cover both.  A byte holds the addresses 0 and 1, so the address  *)
(* 3 stands for a byte_bus_id of 256 or above, and a block of two octets   *)
(* for one whose length does not fit its field.                            *)
(***************************************************************************)
EXTENDS RCServer

CONSTANTS x1, x2
VARIABLE mode

MCSignalCount == [t \in EpType |-> 1]
MCQueues == {ZeroQueue, [threshold |-> 1, time |-> 0]}
MCBlocks == {<<>>, <<1>>, <<1, 1>>}
MCPatches == {<<>>, <<0>>}

ep(t, f) == [type |-> t, func |-> f]
at(a, e) == [b \in {a} |-> e]
wire(pm, l, q, es) == [pinMap |-> pm, limits |-> l, queues |-> q, eps |-> es]
unpinned == [p \in {} |-> {}]
pinned(a, i) == [p \in Pin |-> [ep |-> a, signal |-> i]]

(* Whole-map writes: plausible, implausible and EP0-declaring maps. *)
MCEP0Writes ==
  {wire(pm, l, q, es) :
     pm \in {unpinned, pinned(1, 0), pinned(1, 1)},
     l \in {0, 1},
     q \in MCQueues,
     es \in {at(1, ep("GPIO", <<1>>)), at(1, ep("GPIO", <<>>)),
             at(1, ep(Unassigned, <<1>>)), at(0, ep("GPIO", <<1>>))}}

L == INSTANCE RCServer WITH Addr <- {1, 3}, Timeouts <- {0}, MaxTicks <- 0
C == INSTANCE RCServer WITH Addr <- {0, 1}, SignalIndex <- {0}, Limits <- {0}, Blocks <- {<<>>, <<1>>},
                             Patches <- {}, EP0Writes <- {}

idle(x) == root' # x /\ lease'[x] = 0 /\ \A g \in grants' : g[1] # x

MCInit == (mode = "locking" /\ L!Init) \/ (mode = "claim" /\ C!Init)

MCNext ==
  /\ UNCHANGED mode
  /\ \/ mode = "locking" /\ L!Next /\ idle(x2)
     \/ mode = "claim" /\ C!Next

MCSpec == MCInit /\ [][MCNext]_<<vars, mode>>
===========================================================================
