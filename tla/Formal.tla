------------------------------- MODULE Formal -------------------------------
(***************************************************************************)
(* formal: the trace checker that the repository's own tests are written   *)
(* with.  A trace is a sequence; a state is what the predicates look at:   *)
(* the safe-state verdict, a lifecycle rank, or a pair of verdicts.  A     *)
(* predicate and a generator are functions of a state.                     *)
(***************************************************************************)
EXTENDS Integers, Sequences

(* The loops, from the first state on. *)
Always(p, trace) ==
  LET scan[i \in 1..Len(trace) + 1] ==
        IF i > Len(trace) THEN TRUE ELSE IF ~p[trace[i]] THEN FALSE ELSE scan[i + 1]
  IN scan[1]

Eventually(p, trace) ==
  LET scan[i \in 1..Len(trace) + 1] ==
        IF i > Len(trace) THEN FALSE ELSE IF p[trace[i]] THEN TRUE ELSE scan[i + 1]
  IN scan[1]

(* Mutated form: p must still hold when q does. *)
verdict_Both(p, q) == IF ~p THEN "fails" ELSE IF q THEN "decides" ELSE "open"

verdict(p, q) == IF q THEN "decides" ELSE IF ~p THEN "fails" ELSE "open"

(* Until looks back when q holds. *)
Until(p, q, trace) ==
  LET scan[i \in 1..Len(trace) + 1] ==
        IF i > Len(trace) THEN FALSE
        ELSE LET v == verdict(p[trace[i]], q[trace[i]]) IN
             IF v = "decides" THEN \A j \in 1..i - 1 : p[trace[j]] ELSE v = "open" /\ scan[i + 1]
  IN scan[1]

StateSequence(initial, gen, n) ==
  LET trace[k \in 0..n] ==
        IF k = 0 THEN <<>>
        ELSE Append(trace[k - 1], IF k = 1 THEN initial ELSE gen[trace[k - 1][k - 1]])
  IN trace[n]

(* Check: of what the registered invariants say of a trace, the place of   *)
(* the first that fails, 0 if none does.                                   *)
Check(holds) ==
  LET scan[i \in 1..Len(holds) + 1] ==
        IF i > Len(holds) THEN 0 ELSE IF ~holds[i] THEN i ELSE scan[i + 1]
  IN scan[1]

----------------------------------------------------------------------------
LifecycleRank(s) ==
  CASE s = "Unconfigured" -> 0 [] s = "HWLocked" -> 1 [] s = "FullyConfigured" -> 2 [] OTHER -> -1

(* Mutated form: a step may skip a state. *)
LegalStep_Skips(prev, rank) == rank >= prev \/ (prev = 1 /\ rank = 0)

(* LifecycleInvariants: a step from one rank to the next, *)
LegalStep(prev, rank) ==
  \/ rank = prev
  \/ rank = prev + 1
  \/ prev = LifecycleRank("HWLocked") /\ rank = LifecycleRank("Unconfigured")

OnlyLegalSteps(trace) == \A i \in 2..Len(trace) : LegalStep(trace[i - 1], trace[i])

(* and the search for a regression. *)
NeverRegresses(trace) ==
  LET full == LifecycleRank("FullyConfigured")
      scan[i \in 1..Len(trace) + 1, saw \in BOOLEAN] ==
        IF i > Len(trace) THEN TRUE
        ELSE IF saw /\ trace[i] # full THEN FALSE
        ELSE scan[i + 1, saw \/ trace[i] = full]
  IN scan[1, FALSE]

LifecycleHolds(trace) ==
  <<OnlyLegalSteps(trace),
    NeverRegresses(trace),
    Eventually([rank \in -1..2 |-> rank = LifecycleRank("FullyConfigured")], trace)>>

lastInSafeState(trace, want) == trace # <<>> /\ trace[Len(trace)] = want

(* TimeoutInvariants *)
TimeoutHolds(trace) ==
  <<Eventually([s \in BOOLEAN |-> ~s], trace),
    Eventually([s \in BOOLEAN |-> s], trace),
    lastInSafeState(trace, FALSE)>>

(* MonotonicityInvariants: the first trip, and the states up to the last.  *)
(* Mutated form: the search starts at the first state, with none before it.*)
tripAt_First(trace) ==
  LET scan[i \in 1..Len(trace) + 1] ==
        IF i > Len(trace) THEN 0 ELSE IF trace[i] THEN i ELSE scan[i + 1]
  IN scan[1]

tripAt(trace) ==
  LET scan[i \in 2..Len(trace) + 2] ==
        IF i > Len(trace) THEN 0 ELSE IF ~trace[i - 1] /\ trace[i] THEN i ELSE scan[i + 1]
  IN scan[2]

Sticky(trace) == tripAt(trace) # 0 /\ \A i \in tripAt(trace)..Len(trace) - 1 : trace[i]

MonotonicityHolds(trace) ==
  <<Eventually([s \in BOOLEAN |-> s], trace), Sticky(trace), lastInSafeState(trace, FALSE)>>

----------------------------------------------------------------------------
(* The checker's loops decide the temporal formulas they are named for.    *)
(* A state is a pair of the truth of p and that of q.                      *)
LoopsDecide(trace) ==
  LET p == [s \in BOOLEAN \X BOOLEAN |-> s[1]]
      q == [s \in BOOLEAN \X BOOLEAN |-> s[2]] IN
  /\ Always(p, trace) <=> \A i \in DOMAIN trace : trace[i][1]
  /\ Eventually(q, trace) <=> \E i \in DOMAIN trace : trace[i][2]
  /\ Until(p, q, trace) <=> \E i \in DOMAIN trace : trace[i][2] /\ \A j \in 1..i - 1 : trace[j][1]

(* The lifecycle checks pass exactly the walks, with any rejected attempts *)
(* on the way, through the life of a server: unconfigured, locked, perhaps *)
(* back, fully configured and never anything else again.                   *)
LifecycleMeans(trace) ==
  Check(LifecycleHolds(trace)) = 0 <=>
    /\ \A i \in 2..Len(trace) :
         trace[i - 1] = trace[i] \/ <<trace[i - 1], trace[i]>> \in {<<0, 1>>, <<1, 0>>, <<1, 2>>}
    /\ trace # <<>> /\ trace[Len(trace)] = 2

(* The sequence-violation checks pass exactly the traces in which every    *)
(* trip, at the start excepted, lasts until the last step, which clears    *)
(* it; and such a trace also passes the timeout checks.                    *)
MonotonicityMeans(trace) ==
  LET trips == {i \in 2..Len(trace) : ~trace[i - 1] /\ trace[i]}
      passes == Check(MonotonicityHolds(trace)) = 0 IN
  /\ passes <=> /\ trips # {} /\ \A i \in trips : \A j \in i..Len(trace) - 1 : trace[j]
                /\ ~trace[Len(trace)]
  /\ passes => Check(TimeoutHolds(trace)) = 0
=============================================================================
