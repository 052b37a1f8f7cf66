---------------------------- MODULE ClientsProofs ----------------------------
(***************************************************************************)
(* Clients keeps its promises, for every value of the constants: for each  *)
(* package an inductive invariant, that it holds at first, that every step *)
(* keeps it and that it implies the package's property.                    *)
(***************************************************************************)
EXTENDS Clients, TLAPS

(* What a call does to the table of calls. *)
LEMMA GoesOne ==
  ASSUME calls = [d \in Callers |-> calls[d]], NEW c \in Callers, NEW k, goes(c, k)
  PROVE  /\ calls' = [d \in Callers |-> calls'[d]]
         /\ calls'[c] = k /\ \A d \in Callers : d # c => calls'[d] = calls[d]
BY DEF goes

-----------------------------------------------------------------------------
(* loan. *)
Made == 1..Len(st.buf)

(* What slots, buffers and calls are. *)
LoanShape ==
  /\ st = [pool |-> st.pool, buf |-> st.buf, cap |-> st.cap, loaned |-> st.loaned, closed |-> st.closed]
  /\ st.closed \in BOOLEAN /\ st.buf \in Seq(Nat) /\ st.cap \in Seq(Nat)
  /\ st.pool \subseteq Made
  /\ \A s \in Made : st.buf[s] \in 1..Len(st.cap)
  /\ calls = [c \in Callers |-> calls[c]]
  /\ \A c \in Callers :
       \/ calls[c] = Idle
       \/ calls[c] \in [pc : {"holds", "request"}, slot : Made, buf : 1..Len(st.cap), size : Nat]

(* Slots and holders never share: a holder's slot is out of the pool and   *)
(* nobody else's, and no other slot points to its buffer.                  *)
LoanApart ==
  /\ \A s, t \in Made : s # t => st.buf[s] # st.buf[t]
  /\ \A c \in holders :
       /\ calls[c].slot \notin st.pool
       /\ \A d \in holders \ {c} : calls[c].slot # calls[d].slot /\ calls[c].buf # calls[d].buf
       /\ \A s \in Made : s # calls[c].slot => st.buf[s] # calls[c].buf

(* The table leads from a buffer on loan to the slot it came with. *)
LoanTable ==
  \A c \in holders : calls[c].size > 0 /\ calls[c].buf \in DOMAIN st.loaned => st.loaned[calls[c].buf] = calls[c].slot

LoanInv == LoanShape /\ LoanApart /\ LoanTable /\ TableIsExact


(* What pool.Get leaves: slot s is out of the pool and nobody's, and its   *)
(* buffer is no other slot's.                                              *)
GotWell(g, s) ==
  /\ g = [pool |-> g.pool, buf |-> g.buf, cap |-> g.cap, loaned |-> st.loaned, closed |-> st.closed]
  /\ g.buf \in Seq(Nat) /\ g.cap \in Seq(Nat) /\ g.pool = st.pool \ {s}
  /\ Len(st.cap) <= Len(g.cap) /\ Made \subseteq 1..Len(g.buf) /\ s \in 1..Len(g.buf)
  /\ \A t \in 1..Len(g.buf) : t # s => t \in Made /\ g.buf[t] = st.buf[t] /\ g.buf[t] # g.buf[s]
  /\ g.buf[s] \in 1..Len(g.cap)
  /\ \A d \in holders : calls[d].slot # s /\ calls[d].buf # g.buf[s]

LEMMA LoanGets ==
  ASSUME LoanShape, LoanApart, NEW s \in Slots, gets(s)
  PROVE  GotWell(got(s), s)
<1> DEFINE g == got(s)
<1>0. st.buf \in Seq(Nat) /\ st.cap \in Seq(Nat) /\ Len(st.cap) \in Nat /\ Len(st.buf) \in Nat
  BY DEF LoanShape
<1>h. \A d \in holders : calls[d].slot \in Made /\ calls[d].buf \in 1..Len(st.cap)
  BY DEF LoanShape, holders, Idle
<1>1. CASE s \in st.pool
  <2>1. g = [st EXCEPT !.pool = @ \ {s}]
    BY <1>1 DEF got
  <2>2. g.pool = st.pool \ {s} /\ g.buf = st.buf /\ g.cap = st.cap /\ s \in Made
        /\ g = [pool |-> g.pool, buf |-> g.buf, cap |-> g.cap, loaned |-> st.loaned, closed |-> st.closed]
    BY Zenon, <1>1, <2>1 DEF LoanShape
  <2>3. \A d \in holders : calls[d].slot # s /\ calls[d].buf # g.buf[s]
    BY <1>1, <2>2 DEF LoanApart
  <2> HIDE DEF g
  <2>4. g.buf[s] \in 1..Len(g.cap) /\ \A t \in Made : t # s => g.buf[t] # g.buf[s]
    BY <2>2 DEF LoanShape, LoanApart
  <2>5. GotWell(g, s)
    BY <1>0, <2>2, <2>3, <2>4 DEF GotWell, Made
  <2> QED
    BY <2>5 DEF g
<1>2. CASE s \notin st.pool
  <2>1. g = [st EXCEPT !.buf = Append(@, Len(st.cap) + 1), !.cap = Append(@, NewCap)] /\ s = Len(st.buf) + 1
    BY <1>2 DEF got, gets
  <2>2. /\ g.pool = st.pool /\ g.buf = Append(st.buf, Len(st.cap) + 1) /\ g.cap = Append(st.cap, NewCap)
        /\ g = [pool |-> g.pool, buf |-> g.buf, cap |-> g.cap, loaned |-> st.loaned, closed |-> st.closed]
    BY Zenon, <2>1 DEF LoanShape
  <2> HIDE DEF g
  <2>3. /\ g.buf \in Seq(Nat) /\ g.cap \in Seq(Nat) /\ Len(g.buf) = s /\ Len(g.cap) = Len(st.cap) + 1
        /\ g.buf[s] = Len(st.cap) + 1 /\ \A t \in Made : g.buf[t] = st.buf[t]
    BY SMTT(30), <1>0, <2>1, <2>2, LoanAssumption DEF Made
  <2>4. s \notin Made /\ Made \subseteq 1..Len(g.buf) /\ \A t \in 1..Len(g.buf) : t # s => t \in Made
    BY <1>0, <2>1, <2>3 DEF Made
  <2>5. \A t \in Made : st.buf[t] \in 1..Len(st.cap)
    BY DEF LoanShape
  <2>6. \A d \in holders : calls[d].slot # s /\ calls[d].buf # g.buf[s]
    BY SMTT(30), <1>0, <1>h, <2>3, <2>4
  <2>7. \A t \in 1..Len(g.buf) : t # s => t \in Made /\ g.buf[t] = st.buf[t] /\ g.buf[t] # g.buf[s]
    <3> TAKE t \in 1..Len(g.buf)
    <3> HAVE t # s
    <3>1. t \in Made
      BY <2>4
    <3>2. g.buf[t] = st.buf[t] /\ st.buf[t] \in 1..Len(st.cap)
      BY <2>3, <2>5, <3>1
    <3>3. g.buf[t] # g.buf[s]
      BY <1>0, <2>3, <3>2
    <3> QED
      BY <3>1, <3>2, <3>3
  <2>8. g.pool = st.pool \ {s} /\ s \in 1..Len(g.buf) /\ g.buf[s] \in 1..Len(g.cap) /\ Len(st.cap) <= Len(g.cap)
    BY SMTT(30), <1>0, <1>2, <2>1, <2>2, <2>3
  <2>9. GotWell(g, s)
    BY Zenon, <2>2, <2>3, <2>4, <2>6, <2>7, <2>8 DEF GotWell
  <2> QED
    BY <2>9 DEF g
<1> QED
  BY <1>1, <1>2

LEMMA LoanTwoFields ==
  ASSUME NEW g, NEW p, NEW u, NEW q, NEW l, NEW z, NEW X, NEW Y,
         g = [pool |-> p, buf |-> u, cap |-> q, loaned |-> l, closed |-> z], NEW h, h = [g EXCEPT !.cap = X, !.loaned = Y]
  PROVE  h = [pool |-> p, buf |-> u, cap |-> X, loaned |-> Y, closed |-> z]
<1>1. h.pool = p /\ h.buf = u /\ h.cap = X /\ h.loaned = Y /\ h.closed = z
  OBVIOUS
<1>2. h = [pool |-> h.pool, buf |-> h.buf, cap |-> h.cap, loaned |-> h.loaned, closed |-> h.closed]
  BY Zenon
<1> QED
  BY <1>1, <1>2

LEMMA BorrowKeeps ==
  ASSUME LoanInv, NEW c \in Callers, NEW n \in Sizes, Loan(c, n)
  PROVE  LoanInv'
<1>1. PICK s \in Slots :
        /\ gets(s)
        /\ LET g == got(s)
               fits == g.cap[g.buf[s]] >= n
               b == IF fits THEN g.buf[s] ELSE Len(g.cap) + 1
           IN  /\ st' = [g EXCEPT !.cap = IF fits THEN @ ELSE Append(@, n),
                                  !.loaned = IF n = 0 THEN @ ELSE put(@, b, s)]
               /\ goes(c, [pc |-> "holds", slot |-> s, buf |-> b, size |-> n])
  BY Zenon DEF Loan
<1> DEFINE g == got(s)
           fits == g.cap[g.buf[s]] >= n
           b == IF fits THEN g.buf[s] ELSE Len(g.cap) + 1
           k == [pc |-> "holds", slot |-> s, buf |-> b, size |-> n]
<1>2. GotWell(g, s)
  BY <1>1, LoanGets DEF LoanInv
<1>3. /\ st' = [g EXCEPT !.cap = IF fits THEN @ ELSE Append(@, n), !.loaned = IF n = 0 THEN @ ELSE put(@, b, s)]
      /\ goes(c, k) /\ n \in Nat /\ ~st.closed /\ calls[c].pc = "idle"
  BY Zenon, <1>1, LoanAssumption DEF Loan, at
<1> HIDE DEF g, fits
<1>4. /\ st'.pool = st.pool \ {s} /\ st'.buf = g.buf /\ st'.closed = st.closed
      /\ st'.cap = IF fits THEN g.cap ELSE Append(g.cap, n)
      /\ st'.loaned = IF n = 0 THEN st.loaned ELSE put(st.loaned, b, s)
      /\ st' = [pool |-> st'.pool, buf |-> st'.buf, cap |-> st'.cap, loaned |-> st'.loaned, closed |-> st'.closed]
  <2> DEFINE X == IF fits THEN g.cap ELSE Append(g.cap, n)
             Y == IF n = 0 THEN g.loaned ELSE put(g.loaned, b, s)
  <2>1. st' = [g EXCEPT !.cap = X, !.loaned = Y]
    BY <1>3
  <2>2. X = (IF fits THEN g.cap ELSE Append(g.cap, n)) /\ Y = (IF n = 0 THEN st.loaned ELSE put(st.loaned, b, s))
    BY <1>2 DEF GotWell
  <2> HIDE DEF X, Y
  <2>3. g = [pool |-> g.pool, buf |-> g.buf, cap |-> g.cap, loaned |-> st.loaned, closed |-> st.closed]
        /\ g.pool = st.pool \ {s}
    BY <1>2 DEF GotWell
  <2>4. st' = [pool |-> g.pool, buf |-> g.buf, cap |-> X, loaned |-> Y, closed |-> st.closed]
    <3> DEFINE h == st'
               p == g.pool
               u == g.buf
               q == g.cap
               l == st.loaned
               z == st.closed
    <3>1. h = [g EXCEPT !.cap = X, !.loaned = Y] /\ g = [pool |-> p, buf |-> u, cap |-> q, loaned |-> l, closed |-> z]
      BY <2>1, <2>3
    <3> HIDE DEF h, p, u, q, l, z
    <3>2. h = [pool |-> p, buf |-> u, cap |-> X, loaned |-> Y, closed |-> z]
      BY Zenon, <3>1, LoanTwoFields
    <3> QED
      BY <3>2 DEF h, p, u, q, l, z
  <2> QED
    BY <2>2, <2>3, <2>4
<1>5. st'.cap \in Seq(Nat) /\ b \in 1..Len(st'.cap) /\ Len(st.cap) \in Nat /\ Len(g.cap) <= Len(st'.cap) /\ Len(g.cap) \in Nat
      /\ Len(st'.cap) \in Nat
  BY SMTT(30), <1>2, <1>3, <1>4 DEF GotWell, LoanInv, LoanShape
<1>6. \A t \in Made : st.buf[t] \in 1..Len(st.cap)
  BY DEF LoanInv, LoanShape
<1>7. \A d \in holders : calls[d].slot \in Made /\ calls[d].buf \in 1..Len(st.cap)
  BY DEF LoanInv, LoanShape, holders, Idle
<1>8. \A d \in holders : calls[d].slot # s /\ calls[d].buf # b
  BY SMTT(30), <1>2, <1>5, <1>7 DEF GotWell
<1>9. \A t \in 1..Len(g.buf) : t # s => g.buf[t] # b
  <2> TAKE t \in 1..Len(g.buf)
  <2> HAVE t # s
  <2>1. t \in Made /\ g.buf[t] = st.buf[t] /\ g.buf[t] # g.buf[s]
    BY <1>2 DEF GotWell
  <2>2. g.buf[t] \in 1..Len(st.cap) /\ Len(st.cap) <= Len(g.cap)
    BY <1>2, <1>6, <2>1 DEF GotWell
  <2> QED
    BY SMTT(30), <1>5, <2>1, <2>2
<1> HIDE DEF b
<1>10. /\ calls' = [d \in Callers |-> IF d = c THEN k ELSE calls[d]]
       /\ calls'[c] = k /\ \A d \in Callers : d # c => calls'[d] = calls[d]
  BY <1>3 DEF goes, LoanInv, LoanShape
<1>11. c \notin holders /\ holders' = holders \cup {c} /\ \A d \in holders : d # c /\ calls'[d] = calls[d]
  BY <1>3, <1>10 DEF holders
<1>12. Made' = 1..Len(g.buf) /\ s \in Made' /\ Made \subseteq Made'
  BY Zenon, <1>2, <1>4 DEF GotWell, Made
<1>13. LoanShape'
  <2>1. st'.closed \in BOOLEAN /\ st'.buf \in Seq(Nat) /\ st'.pool \subseteq Made'
    BY <1>2, <1>4, <1>12 DEF GotWell, LoanInv, LoanShape
  <2>2. ASSUME NEW t \in Made' PROVE st'.buf[t] \in 1..Len(st'.cap)
    <3>1. CASE t = s
      BY SMTT(30), <1>2, <1>4, <1>5, <3>1 DEF GotWell
    <3>2. CASE t # s
      <4>1. t \in Made /\ g.buf[t] = st.buf[t]
        BY <1>2, <1>12, <3>2 DEF GotWell
      <4>2. st'.buf[t] \in 1..Len(st.cap) /\ Len(st.cap) <= Len(g.cap)
        BY <1>2, <1>4, <1>6, <4>1 DEF GotWell
      <4> QED
        BY SMTT(30), <1>5, <4>2
    <3> QED
      BY <3>1, <3>2
  <2>3. Len(st.cap) <= Len(st'.cap)
    BY SMTT(30), <1>2, <1>5 DEF GotWell
  <2>4. ASSUME NEW d \in Callers
        PROVE  \/ calls'[d] = Idle
               \/ calls'[d] \in [pc : {"holds", "request"}, slot : Made', buf : 1..Len(st'.cap), size : Nat]
    <3>1. CASE d = c
      BY <1>3, <1>5, <1>10, <1>12, <3>1
    <3>2. CASE d # c
      <4>1. \/ calls[d] = Idle
            \/ calls[d] \in [pc : {"holds", "request"}, slot : Made, buf : 1..Len(st.cap), size : Nat]
        BY DEF LoanInv, LoanShape
      <4>2. 1..Len(st.cap) \subseteq 1..Len(st'.cap)
        BY <1>5, <2>3
      <4> QED
        BY <1>10, <1>12, <3>2, <4>1, <4>2
    <3> QED
      BY <3>1, <3>2
  <2>5. calls' = [d \in Callers |-> calls'[d]]
    BY <1>10
  <2> QED
    BY Zenon, <1>4, <1>5, <2>1, <2>2, <2>4, <2>5 DEF LoanShape
<1>14. LoanApart'
  <2>1. ASSUME NEW t \in Made', NEW u \in Made', t # u PROVE st'.buf[t] # st'.buf[u]
    <3>1. CASE t = s \/ u = s
      BY Zenon, <1>2, <1>4, <1>12, <2>1, <3>1 DEF GotWell
    <3>2. CASE t # s /\ u # s
      <4>1. t \in Made /\ u \in Made /\ g.buf[t] = st.buf[t] /\ g.buf[u] = st.buf[u]
        BY <1>2, <1>12, <3>2 DEF GotWell
      <4> QED
        BY <1>4, <2>1, <4>1 DEF LoanInv, LoanApart
    <3> QED
      BY <3>1, <3>2
  <2>2. k.slot = s /\ k.buf = b
    OBVIOUS
  <2>3. ASSUME NEW d \in holders' PROVE calls'[d].slot \notin st'.pool
    BY <1>4, <1>10, <1>11, <2>2 DEF LoanInv, LoanApart
  <2>4. ASSUME NEW d \in holders', NEW e \in holders' \ {d}
        PROVE  calls'[d].slot # calls'[e].slot /\ calls'[d].buf # calls'[e].buf
    <3>1. CASE d = c \/ e = c
      BY <1>8, <1>10, <1>11, <2>2, <3>1
    <3>2. CASE d # c /\ e # c
      BY <1>11, <3>2 DEF LoanInv, LoanApart
    <3> QED
      BY <3>1, <3>2
  <2>5. ASSUME NEW d \in holders', NEW t \in Made', t # calls'[d].slot PROVE st'.buf[t] # calls'[d].buf
    <3>1. CASE d = c
      BY <1>4, <1>9, <1>10, <1>12, <2>2, <2>5, <3>1
    <3>2. CASE d # c /\ t = s
      BY Zenon, <1>2, <1>4, <1>11, <3>2 DEF GotWell
    <3>3. CASE d # c /\ t # s
      <4>1. t \in Made /\ g.buf[t] = st.buf[t]
        BY <1>2, <1>12, <3>3 DEF GotWell
      <4> QED
        BY <1>4, <1>11, <2>5, <3>3, <4>1 DEF LoanInv, LoanApart
    <3> QED
      BY <3>1, <3>2, <3>3
  <2>6. \A t, u \in Made' : t # u => st'.buf[t] # st'.buf[u]
    BY <2>1
  <2>7. \A d \in holders' : \A t \in Made' : t # calls'[d].slot => st'.buf[t] # calls'[d].buf
    BY <2>5
  <2> QED
    BY <2>3, <2>4, <2>6, <2>7 DEF LoanApart
<1> DEFINE T == put(st.loaned, b, s)
<1>15. DOMAIN T = DOMAIN st.loaned \cup {b} /\ T[b] = s /\ \A x \in DOMAIN st.loaned \ {b} : T[x] = st.loaned[x]
  BY DEF put
<1>16. st'.loaned = IF n = 0 THEN st.loaned ELSE T
  BY <1>4
<1> HIDE DEF T
<1>17. k.slot = s /\ k.buf = b /\ k.size = n
  OBVIOUS
<1>18. LoanTable'
  <2> SUFFICES ASSUME NEW d \in holders', calls'[d].size > 0, calls'[d].buf \in DOMAIN st'.loaned
               PROVE  st'.loaned[calls'[d].buf] = calls'[d].slot
    BY DEF LoanTable
  <2>1. CASE d = c
    BY <1>3, <1>10, <1>15, <1>16, <1>17, <2>1
  <2>2. CASE d # c
    <3>1. d \in holders /\ calls'[d] = calls[d] /\ calls[d].buf # b
      BY <1>8, <1>11, <2>2
    <3>2. calls[d].buf \in DOMAIN st.loaned /\ st'.loaned[calls[d].buf] = st.loaned[calls[d].buf]
      BY <1>15, <1>16, <3>1
    <3> QED
      BY <3>1, <3>2 DEF LoanInv, LoanTable
  <2> QED
    BY <2>1, <2>2
<1>19. TableIsExact'
  <2>1. DOMAIN st.loaned = {calls[d].buf : d \in {e \in holders : calls[e].size > 0}}
    BY <1>3 DEF LoanInv, TableIsExact
  <2>2. DOMAIN st'.loaned = IF n = 0 THEN DOMAIN st.loaned ELSE DOMAIN st.loaned \cup {b}
    BY <1>15, <1>16
  <2>3. {calls'[d].buf : d \in {e \in holders' : calls'[e].size > 0}}
          = {calls[d].buf : d \in {e \in holders : calls[e].size > 0}} \cup (IF n = 0 THEN {} ELSE {b})
    <3> DEFINE old == {e \in holders : calls[e].size > 0}
               new == {e \in holders' : calls'[e].size > 0}
    <3>1. \A d \in old : d \in new /\ calls'[d].buf = calls[d].buf
      BY <1>11
    <3>2. \A d \in new : d = c \/ d \in old
      BY <1>11
    <3>3. calls'[c].buf = b /\ (c \in new <=> n # 0)
      BY <1>3, <1>10, <1>11, <1>17
    <3> HIDE DEF old, new
    <3>4. {calls'[d].buf : d \in new} = {calls[d].buf : d \in old} \cup (IF n = 0 THEN {} ELSE {b})
      <4>1. CASE n = 0
        BY <3>1, <3>2, <3>3, <4>1
      <4>2. CASE n # 0
        BY <3>1, <3>2, <3>3, <4>2
      <4> QED
        BY <4>1, <4>2
    <3> QED
      BY <3>4 DEF old, new
  <2>4. DOMAIN st'.loaned = {calls'[d].buf : d \in {e \in holders' : calls'[e].size > 0}}
    BY <2>1, <2>2, <2>3
  <2> QED
    BY <2>4 DEF TableIsExact
<1> QED
  BY <1>13, <1>14, <1>18, <1>19 DEF LoanInv

(* Caller c leaves with call k: its slot goes to the pool or nowhere, and  *)
(* points to the buffer of the call or to the one it pointed to; its       *)
(* buffer leaves the table.                                                *)
LoanLeft(c, k) ==
  /\ calls' = [d \in Callers |-> IF d = c THEN Idle ELSE calls[d]]
  /\ st' = [pool |-> st'.pool, buf |-> st'.buf, cap |-> st'.cap, loaned |-> st'.loaned, closed |-> st'.closed]
  /\ st'.closed = st.closed /\ st'.cap = st.cap /\ st'.buf \in Seq(Nat) /\ Len(st'.buf) = Len(st.buf)
  /\ st'.pool \subseteq st.pool \cup {k.slot}
  /\ \A s \in Made : s # k.slot => st'.buf[s] = st.buf[s]
  /\ \A s \in Made : st'.buf[s] \in {st.buf[s], k.buf}
  /\ DOMAIN st'.loaned \subseteq DOMAIN st.loaned
  /\ \A x \in DOMAIN st'.loaned : st'.loaned[x] = st.loaned[x]
  /\ ~st.closed => DOMAIN st'.loaned = DOMAIN st.loaned \ (IF k.size > 0 THEN {k.buf} ELSE {})

(* LoanLeaves keeps the invariant, whichever of the operations does it. *)
LEMMA LoanLeaves ==
  ASSUME LoanInv, NEW c \in holders, NEW k, k = calls[c], LoanLeft(c, k)
  PROVE  LoanInv'
<1>1. c \in Callers /\ k \in [pc : {"holds", "request"}, slot : Made, buf : 1..Len(st.cap), size : Nat]
  BY SMTT(30) DEF LoanInv, LoanShape, holders, Idle
<1>2. Made' = Made
  BY DEF LoanLeft, Made
<1>3. holders' = holders \ {c} /\ \A d \in holders' : calls'[d] = calls[d] /\ d \in holders /\ d # c
  BY SMTT(30), <1>1 DEF LoanLeft, holders, Idle
<1>4. /\ k.slot \notin st.pool /\ \A s \in Made : s # k.slot => st.buf[s] # k.buf
      /\ \A d \in holders' : calls[d].slot # k.slot /\ calls[d].buf # k.buf
  BY <1>3 DEF LoanInv, LoanApart
<1>5. LoanShape'
  <2>1. \A s \in Made : st'.buf[s] \in 1..Len(st.cap)
    <3>1. \A s \in Made : st'.buf[s] \in {st.buf[s], k.buf}
      BY DEF LoanLeft
    <3>2. k.buf \in 1..Len(st.cap) /\ \A s \in Made : st.buf[s] \in 1..Len(st.cap)
      BY <1>1 DEF LoanInv, LoanShape
    <3> QED
      BY <3>1, <3>2
  <2>2. st'.pool \subseteq Made
    BY <1>1 DEF LoanLeft, LoanInv, LoanShape
  <2>3. \A d \in Callers :
          \/ calls'[d] = Idle
          \/ calls'[d] \in [pc : {"holds", "request"}, slot : Made, buf : 1..Len(st.cap), size : Nat]
    BY DEF LoanLeft, LoanInv, LoanShape
  <2>4. calls' = [d \in Callers |-> calls'[d]] /\ st.closed \in BOOLEAN /\ st.cap \in Seq(Nat)
    BY DEF LoanLeft, LoanInv, LoanShape
  <2>5. /\ st' = [pool |-> st'.pool, buf |-> st'.buf, cap |-> st'.cap, loaned |-> st'.loaned, closed |-> st'.closed]
        /\ st'.closed = st.closed /\ st'.cap = st.cap /\ st'.buf \in Seq(Nat)
    BY DEF LoanLeft
  <2> QED
    BY <1>2, <2>1, <2>2, <2>3, <2>4, <2>5 DEF LoanShape
<1>6. LoanApart'
  <2>1. \A s, t \in Made' : s # t => st'.buf[s] # st'.buf[t]
    <3>1. \A s, t \in Made : s # t => st.buf[s] # st.buf[t]
      BY DEF LoanInv, LoanApart
    <3> QED
      BY SMTT(30), <1>1, <1>2, <1>4, <3>1 DEF LoanLeft
  <2>2. ASSUME NEW d \in holders'
        PROVE  /\ calls'[d].slot \notin st'.pool
               /\ \A e \in holders' \ {d} : calls'[d].slot # calls'[e].slot /\ calls'[d].buf # calls'[e].buf
               /\ \A s \in Made' : s # calls'[d].slot => st'.buf[s] # calls'[d].buf
    <3>1. d \in holders /\ calls'[d] = calls[d] /\ calls[d].slot # k.slot /\ calls[d].buf # k.buf
      BY <1>3, <1>4
    <3>2. /\ calls[d].slot \notin st.pool
          /\ \A e \in holders \ {d} : calls[d].slot # calls[e].slot /\ calls[d].buf # calls[e].buf
          /\ \A s \in Made : s # calls[d].slot => st.buf[s] # calls[d].buf
      BY <3>1 DEF LoanInv, LoanApart
    <3>3. calls'[d].slot \notin st'.pool
      BY <3>1, <3>2 DEF LoanLeft
    <3>4. \A e \in holders' \ {d} : calls'[d].slot # calls'[e].slot /\ calls'[d].buf # calls'[e].buf
      BY <1>3, <3>1, <3>2
    <3>5. \A s \in Made' : s # calls'[d].slot => st'.buf[s] # calls'[d].buf
      <4>1. \A s \in Made : st'.buf[s] \in {st.buf[s], k.buf}
        BY DEF LoanLeft
      <4> QED
        BY <1>2, <3>1, <3>2, <4>1
    <3> QED
      BY <3>3, <3>4, <3>5
  <2> QED
    BY <2>1, <2>2 DEF LoanApart
<1>7. LoanTable'
  <2> SUFFICES ASSUME NEW d \in holders', calls'[d].size > 0, calls'[d].buf \in DOMAIN st'.loaned
               PROVE  st'.loaned[calls'[d].buf] = calls'[d].slot
    BY DEF LoanTable
  <2>1. d \in holders /\ calls'[d] = calls[d]
    BY <1>3
  <2>2. calls[d].buf \in DOMAIN st.loaned /\ st'.loaned[calls[d].buf] = st.loaned[calls[d].buf]
    BY <2>1 DEF LoanLeft
  <2> QED
    BY <2>1, <2>2 DEF LoanInv, LoanTable
<1>8. TableIsExact'
  <2> SUFFICES ASSUME ~st.closed
               PROVE  DOMAIN st'.loaned = {calls'[d].buf : d \in {e \in holders' : calls'[e].size > 0}}
    BY Zenon DEF TableIsExact, LoanLeft
  <2> DEFINE old == {e \in holders : calls[e].size > 0}
             new == {e \in holders' : calls'[e].size > 0}
             gone == IF k.size > 0 THEN {k.buf} ELSE {}
  <2>1. DOMAIN st.loaned = {calls[d].buf : d \in old} /\ DOMAIN st'.loaned = DOMAIN st.loaned \ gone
    BY DEF LoanInv, TableIsExact, LoanLeft
  <2>2. \A d \in new : d \in old /\ calls'[d].buf = calls[d].buf /\ calls[d].buf \notin gone
    BY Zenon, <1>3, <1>4
  <2>3. \A d \in old : d \in new \/ (d = c /\ calls[d].buf \in gone)
    BY <1>3
  <2> HIDE DEF old, new, gone
  <2>4. DOMAIN st'.loaned = {calls'[d].buf : d \in new}
    <3>1. ASSUME NEW x \in DOMAIN st'.loaned PROVE x \in {calls'[d].buf : d \in new}
      <4>1. PICK d \in old : x = calls[d].buf /\ x \notin gone
        BY <2>1, <3>1
      <4> QED
        BY Zenon, <2>2, <2>3, <4>1
    <3>2. ASSUME NEW d \in new PROVE calls'[d].buf \in DOMAIN st'.loaned
      BY ZenonT(40), <2>1, <2>2
    <3> DEFINE D == DOMAIN st'.loaned
               R == {calls'[d].buf : d \in new}
    <3>3. D \subseteq R
      BY SMTT(30), <3>1
    <3>4. R \subseteq D
      BY <3>2
    <3> HIDE DEF D, R
    <3>5. D = R
      BY Zenon, <3>3, <3>4
    <3> QED
      BY <3>5 DEF D, R
  <2> QED
    BY <2>4 DEF new
<1> QED
  BY <1>5, <1>6, <1>7, <1>8 DEF LoanInv

LEMMA LoanReturnKeeps ==
  ASSUME LoanInv, NEW c \in Callers, Return(c)
  PROVE  LoanInv'
<1> DEFINE k == calls[c]
<1>1. c \in holders /\ k \in [pc : {"holds", "request"}, slot : Made, buf : 1..Len(st.cap), size : Nat]
  BY DEF Return, at, holders, LoanInv, LoanShape, Idle
<1>2. calls' = [d \in Callers |-> IF d = c THEN Idle ELSE calls[d]]
  BY DEF Return, returns, goes, LoanInv, LoanShape
<1> DEFINE L == untrack(k.buf)
           B == [st.buf EXCEPT ![k.slot] = k.buf]
           P == st.pool \cup {k.slot}
<1>3. st' = [st EXCEPT !.loaned = L, !.buf = B, !.pool = P]
  BY DEF Return
<1>4. DOMAIN L = DOMAIN st.loaned \ {k.buf} /\ \A x \in DOMAIN L : L[x] = st.loaned[x]
  BY DEF untrack, Restrict
<1>5. B \in Seq(Nat) /\ Len(B) = Len(st.buf) /\ B[k.slot] = k.buf /\ \A s \in Made : s # k.slot => B[s] = st.buf[s]
  BY SMTT(30), <1>1 DEF LoanInv, LoanShape, Made
<1> HIDE DEF L, B, P
<1>6. /\ st'.pool = P /\ st'.buf = B /\ st'.cap = st.cap /\ st'.loaned = L /\ st'.closed = st.closed
      /\ st' = [pool |-> st'.pool, buf |-> st'.buf, cap |-> st'.cap, loaned |-> st'.loaned, closed |-> st'.closed]
  BY Zenon, <1>3 DEF LoanInv, LoanShape
<1>7. ~st.closed => DOMAIN L = DOMAIN st.loaned \ (IF k.size > 0 THEN {k.buf} ELSE {})
  <2> HAVE ~st.closed
  <2>1. DOMAIN st.loaned = {calls[d].buf : d \in {e \in holders : calls[e].size > 0}}
    BY DEF LoanInv, TableIsExact
  <2>2. \A d \in holders : d # c => calls[d].buf # k.buf
    BY <1>1 DEF LoanInv, LoanApart
  <2>3. k.size > 0 \/ k.buf \notin DOMAIN st.loaned
    BY <2>1, <2>2
  <2> QED
    BY <1>4, <2>3
<1>8. st'.pool \subseteq st.pool \cup {k.slot}
  BY <1>6 DEF P
<1>9. /\ st'.buf \in Seq(Nat) /\ Len(st'.buf) = Len(st.buf) /\ (\A s \in Made : st'.buf[s] \in {st.buf[s], k.buf})
      /\ \A s \in Made : s # k.slot => st'.buf[s] = st.buf[s]
  BY <1>5, <1>6
<1>10. /\ DOMAIN st'.loaned \subseteq DOMAIN st.loaned /\ \A x \in DOMAIN st'.loaned : st'.loaned[x] = st.loaned[x]
       /\ ~st.closed => DOMAIN st'.loaned = DOMAIN st.loaned \ (IF k.size > 0 THEN {k.buf} ELSE {})
  BY <1>4, <1>6, <1>7
<1> HIDE DEF k
<1> QED
  <2>1. LoanLeft(c, k)
    BY <1>2, <1>6, <1>8, <1>9, <1>10 DEF LoanLeft
  <2> QED
    BY <1>1, <2>1, LoanLeaves DEF k

LEMMA LoanBeginKeeps ==
  ASSUME LoanInv, NEW c \in Callers, RequestLoanedBegin(c)
  PROVE  LoanInv'
<1>1. c \in holders /\ calls[c] \in [pc : {"holds", "request"}, slot : Made, buf : 1..Len(st.cap), size : Nat]
  BY DEF RequestLoanedBegin, at, holders, LoanInv, LoanShape, Idle
<1>2. st' = st
  BY DEF RequestLoanedBegin
<1>3. CASE st.closed
  <2>1. calls' = [d \in Callers |-> IF d = c THEN Idle ELSE calls[d]]
    BY <1>3 DEF RequestLoanedBegin, returns, goes, LoanInv, LoanShape
  <2> DEFINE k == calls[c]
  <2> HIDE DEF k
  <2>2. st = [pool |-> st.pool, buf |-> st.buf, cap |-> st.cap, loaned |-> st.loaned, closed |-> st.closed] /\ st.buf \in Seq(Nat)
    BY DEF LoanInv, LoanShape
  <2> QED
    <3>1. LoanLeft(c, k)
      BY <1>1, <1>2, <1>3, <2>1, <2>2 DEF LoanLeft
    <3> QED
      BY <1>1, <3>1, LoanLeaves DEF k
<1>4. CASE ~st.closed
  <2>1. calls' = [d \in Callers |-> IF d = c THEN [calls[c] EXCEPT !.pc = "request"] ELSE calls[d]]
    BY <1>4 DEF RequestLoanedBegin, goes, LoanInv, LoanShape
  <2> DEFINE q == [calls[c] EXCEPT !.pc = "request"]
  <2>2. /\ q \in [pc : {"holds", "request"}, slot : Made, buf : 1..Len(st.cap), size : Nat]
        /\ q.pc = "request" /\ q.slot = calls[c].slot /\ q.buf = calls[c].buf /\ q.size = calls[c].size
    BY <1>1
  <2> HIDE DEF q
  <2>3. calls'[c] = q /\ \A d \in Callers : d # c => calls'[d] = calls[d]
    BY <2>1 DEF q
  <2>4. /\ holders' = holders
        /\ \A d \in holders : /\ calls'[d].slot = calls[d].slot
                              /\ calls'[d].buf = calls[d].buf /\ calls'[d].size = calls[d].size
    BY <1>1, <2>2, <2>3 DEF holders
  <2>5. Made' = Made
    BY <1>2 DEF Made
  <2>6. LoanShape'
    BY Zenon, <1>2, <2>1, <2>2, <2>3, <2>5 DEF LoanInv, LoanShape
  <2>7. LoanApart'
    BY <1>2, <2>4, <2>5 DEF LoanInv, LoanApart
  <2>8. LoanTable'
    BY <1>2, <2>4 DEF LoanInv, LoanTable
  <2>9. TableIsExact'
    BY <1>2, <2>4 DEF LoanInv, TableIsExact
  <2> QED
    BY <2>6, <2>7, <2>8, <2>9 DEF LoanInv
<1> QED
  BY <1>3, <1>4

LEMMA LoanEndKeeps ==
  ASSUME LoanInv, NEW c \in Callers, RequestLoanedEnd(c)
  PROVE  LoanInv'
<1> DEFINE k == calls[c]
           held == k.size > 0 /\ k.buf \in DOMAIN st.loaned
<1>1. c \in holders /\ k \in [pc : {"holds", "request"}, slot : Made, buf : 1..Len(st.cap), size : Nat]
  BY DEF RequestLoanedEnd, at, holders, LoanInv, LoanShape, Idle
<1>2. calls' = [d \in Callers |-> IF d = c THEN Idle ELSE calls[d]]
  BY DEF RequestLoanedEnd, returns, goes, LoanInv, LoanShape
<1>3. ~st.closed => (k.size > 0 => k.buf \in DOMAIN st.loaned)
  BY <1>1 DEF LoanInv, TableIsExact
<1>4. st = [pool |-> st.pool, buf |-> st.buf, cap |-> st.cap, loaned |-> st.loaned, closed |-> st.closed] /\ st.buf \in Seq(Nat)
  BY DEF LoanInv, LoanShape
<1>5. CASE held
  <2> DEFINE L == untrack(k.buf)
             P == st.pool \cup {k.slot}
  <2>1. st' = [st EXCEPT !.loaned = L, !.pool = P]
    <3>1. st.loaned[k.buf] = k.slot
      BY <1>1, <1>5 DEF LoanInv, LoanTable
    <3> QED
      BY <1>5, <3>1 DEF RequestLoanedEnd
  <2>2. DOMAIN L = DOMAIN st.loaned \ {k.buf} /\ \A x \in DOMAIN L : L[x] = st.loaned[x]
    BY DEF untrack, Restrict
  <2> HIDE DEF L, P
  <2>3. /\ st'.pool = P /\ st'.buf = st.buf /\ st'.cap = st.cap /\ st'.loaned = L /\ st'.closed = st.closed
        /\ st' = [pool |-> st'.pool, buf |-> st'.buf, cap |-> st'.cap, loaned |-> st'.loaned, closed |-> st'.closed]
    BY Zenon, <1>4, <2>1
  <2>4. st'.pool \subseteq st.pool \cup {k.slot}
    BY <2>3 DEF P
  <2>5. /\ DOMAIN st'.loaned \subseteq DOMAIN st.loaned /\ \A x \in DOMAIN st'.loaned : st'.loaned[x] = st.loaned[x]
        /\ DOMAIN st'.loaned = DOMAIN st.loaned \ (IF k.size > 0 THEN {k.buf} ELSE {})
    BY <1>5, <2>2, <2>3
  <2> HIDE DEF k
  <2> QED
    <3>1. LoanLeft(c, k)
      BY <1>2, <1>4, <2>3, <2>4, <2>5 DEF LoanLeft
    <3> QED
      BY <1>1, <3>1, LoanLeaves DEF k
<1>6. CASE ~held
  <2>1. st' = st
    BY <1>6 DEF RequestLoanedEnd
  <2>2. ~st.closed => DOMAIN st.loaned = DOMAIN st.loaned \ (IF k.size > 0 THEN {k.buf} ELSE {})
    BY <1>3, <1>6
  <2> HIDE DEF k
  <2> QED
    <3>1. LoanLeft(c, k)
      BY <1>2, <1>4, <2>1, <2>2 DEF LoanLeft
    <3> QED
      BY <1>1, <3>1, LoanLeaves DEF k
<1> QED
  BY <1>5, <1>6

(* Collect, Close and stuttering leave slots, buffers and calls alone. *)
LEMMA CollectKeeps ==
  ASSUME LoanInv, Collect \/ LoanClose \/ UNCHANGED <<st, calls, seen>>
  PROVE  LoanInv'
<1>1. /\ calls' = calls /\ st'.buf = st.buf /\ st'.cap = st.cap /\ st'.loaned = st.loaned /\ st'.pool \subseteq st.pool
      /\ st'.closed \in BOOLEAN /\ (st.closed => st'.closed)
      /\ st' = [pool |-> st'.pool, buf |-> st'.buf, cap |-> st'.cap, loaned |-> st'.loaned, closed |-> st'.closed]
  <2>1. CASE Collect
    BY Zenon, <2>1 DEF Collect, LoanInv, LoanShape
  <2>2. CASE LoanClose
    BY Zenon, <2>2 DEF LoanClose, LoanInv, LoanShape
  <2>3. CASE UNCHANGED <<st, calls, seen>>
    BY <2>3 DEF LoanInv, LoanShape
  <2> QED
    BY <2>1, <2>2, <2>3
<1>2. holders' = holders /\ Made' = Made
  BY <1>1 DEF holders, Made
<1>3. LoanShape'
  BY <1>1, <1>2 DEF LoanInv, LoanShape
<1>4. LoanApart'
  BY <1>1, <1>2 DEF LoanInv, LoanApart
<1>5. LoanTable'
  BY <1>1, <1>2 DEF LoanInv, LoanTable
<1>6. TableIsExact'
  BY <1>1, <1>2 DEF LoanInv, TableIsExact
<1> QED
  BY <1>3, <1>4, <1>5, <1>6 DEF LoanInv

LEMMA LoanInitial ==
  ASSUME LoanInit
  PROVE  LoanInv
<1>1. /\ st.pool = {} /\ st.buf = <<>> /\ st.cap = <<>> /\ st.loaned = NoLoans /\ st.closed = FALSE
      /\ st = [pool |-> st.pool, buf |-> st.buf, cap |-> st.cap, loaned |-> st.loaned, closed |-> st.closed]
  BY DEF LoanInit
<1>2. calls = [c \in Callers |-> calls[c]] /\ (\A c \in Callers : calls[c] = Idle) /\ holders = {}
  BY DEF LoanInit, CallsInit, holders, Idle
<1>3. Made = {} /\ DOMAIN st.loaned = {}
  BY <1>1 DEF Made, NoLoans
<1>4. LoanShape
  <2>1. st.closed \in BOOLEAN /\ st.buf \in Seq(Nat) /\ st.cap \in Seq(Nat)
    <3>1. <<>> \in Seq(Nat)
      OBVIOUS
    <3> QED
      BY <1>1, <3>1, Zenon
  <2> QED
    BY <1>1, <1>2, <1>3, <2>1, Zenon DEF LoanShape
<1> QED
  BY <1>2, <1>3, <1>4 DEF LoanInv, LoanApart, LoanTable, TableIsExact

LEMMA LoanStep ==
  ASSUME LoanInv, [LoanNext]_<<st, calls, seen>>
  PROVE  LoanInv'
BY BorrowKeeps, LoanReturnKeeps, LoanBeginKeeps, LoanEndKeeps, CollectKeeps DEF LoanNext

LEMMA LoanSound == LoanInv => NoSharedBuffer /\ TableIsExact
<1> SUFFICES ASSUME LoanInv, NEW c \in holders
             PROVE  /\ \A d \in holders \ {c} : calls[c].buf # calls[d].buf
                    /\ \A s \in st.pool : st.buf[s] # calls[c].buf
  BY DEF NoSharedBuffer, LoanInv
<1> QED
  BY Zenon DEF LoanInv, LoanShape, LoanApart

-----------------------------------------------------------------------------
(* mdns. *)
LEMMA ElementsOf ==
  ASSUME NEW S, NEW s \in Seq(S)
  PROVE  Len(s) \in Nat /\ DOMAIN s = 1..Len(s) /\ \A i \in 1..Len(s) : s[i] \in S
OBVIOUS

LEMMA ReplacedAt ==
  ASSUME NEW S, NEW s \in Seq(S), NEW q \in 1..Len(s), NEW e \in S
  PROVE  /\ [s EXCEPT ![q] = e] \in Seq(S) /\ Len([s EXCEPT ![q] = e]) = Len(s)
         /\ \A p \in 1..Len(s) : [s EXCEPT ![q] = e][p] = IF p = q THEN e ELSE s[p]
OBVIOUS

(* As long as no transport failure has ended a Query, the only goroutine   *)
(* that may set the deadline is that of the running one, and it has passed *)
(* only if the context of that one is done.                                *)
BrowseUnbroken == \A i \in 1..Len(seen.ends) : ~seen.ends[i].broken

BrowseQuery == [done : BOOLEAN, waits : BOOLEAN]
BrowseEnd == [how : {"send query", "nil", "transport", "deadline"}, broken : BOOLEAN]

BrowseShape ==
  /\ st \in [closed : BOOLEAN, expired : BOOLEAN, queries : Seq(BrowseQuery)]
  /\ seen \in [ends : Seq(BrowseEnd), broken : BOOLEAN]
  /\ calls \in {"idle", "read", "failed"}
  /\ calls # "idle" => Len(st.queries) >= 1

BrowseWaits ==
  BrowseUnbroken =>
    /\ \A q \in 1..Len(st.queries) : q < Len(st.queries) \/ calls = "idle" => ~st.queries[q].waits
    /\ st.expired => calls # "idle" /\ st.queries[Len(st.queries)].done /\ ~st.queries[Len(st.queries)].waits
    /\ calls = "failed" /\ ~seen.broken => st.expired

BrowseInv == BrowseShape /\ BrowseWaits /\ DeadlineIsOwn

LEMMA BrowseInitial == BrowseInit => BrowseInv
BY DEF BrowseInit, BrowseInv, BrowseShape, BrowseWaits, DeadlineIsOwn

LEMMA BrowseQueryUpdate ==
  ASSUME NEW y \in BrowseQuery
  PROVE  /\ [y EXCEPT !.done = TRUE] \in BrowseQuery
         /\ [y EXCEPT !.done = TRUE].done = TRUE /\ [y EXCEPT !.done = TRUE].waits = y.waits
         /\ [y EXCEPT !.waits = FALSE] \in BrowseQuery
         /\ [y EXCEPT !.waits = FALSE].done = y.done /\ [y EXCEPT !.waits = FALSE].waits = FALSE
BY Zenon DEF BrowseQuery

(* What one more end adds. *)
LEMMA BrowseEnds ==
  ASSUME BrowseShape, DeadlineIsOwn, NEW e \in BrowseEnd,
         seen'.ends = Append(seen.ends, e), e.how = "deadline" => ~BrowseUnbroken
  PROVE  /\ DeadlineIsOwn'
         /\ BrowseUnbroken' <=> BrowseUnbroken /\ ~e.broken
<1>1. /\ Len(seen'.ends) = Len(seen.ends) + 1 /\ Len(seen.ends) \in Nat
      /\ \A i \in 1..Len(seen.ends) : seen'.ends[i] = seen.ends[i]
      /\ seen'.ends[Len(seen.ends) + 1] = e
      /\ DOMAIN seen'.ends = 1..Len(seen'.ends) /\ DOMAIN seen.ends = 1..Len(seen.ends)
  BY DEF BrowseShape
<1>2. BrowseUnbroken' <=> BrowseUnbroken /\ ~e.broken
  BY <1>1 DEF BrowseUnbroken
<1>3. DeadlineIsOwn'
  <2> SUFFICES ASSUME NEW i \in 1..Len(seen.ends) + 1, seen'.ends[i].how = "deadline"
               PROVE  \E j \in 1..i - 1 : seen'.ends[j].broken
    BY <1>1 DEF DeadlineIsOwn
  <2>1. CASE i \in 1..Len(seen.ends)
    <3>1. PICK j \in 1..i - 1 : seen.ends[j].broken
      BY Zenon, <1>1, <2>1 DEF DeadlineIsOwn
    <3> QED
      BY <1>1, <2>1, <3>1
  <2>2. CASE i = Len(seen.ends) + 1
    <3>1. PICK j \in 1..Len(seen.ends) : seen.ends[j].broken
      BY <1>1, <2>2 DEF BrowseUnbroken
    <3> QED
      BY <1>1, <2>2, <3>1
  <2> QED
    BY <1>1, <2>1, <2>2
<1> QED
  BY <1>2, <1>3

LEMMA BrowseStep == BrowseInv /\ BrowseNext => BrowseInv'
<1> SUFFICES ASSUME BrowseInv, BrowseNext PROVE BrowseInv'
  OBVIOUS
<1> USE DEF BrowseInv
<1> DEFINE n == Len(st.queries)
<1>a. /\ st = [closed |-> st.closed, expired |-> st.expired, queries |-> st.queries]
      /\ st.closed \in BOOLEAN /\ st.expired \in BOOLEAN /\ st.queries \in Seq(BrowseQuery)
  BY DEF BrowseShape
<1>b. /\ seen = [ends |-> seen.ends, broken |-> seen.broken]
      /\ seen.broken \in BOOLEAN /\ seen.ends \in Seq(BrowseEnd)
  BY DEF BrowseShape
<1>0. n \in Nat /\ DOMAIN st.queries = 1..n /\ \A q \in 1..n : st.queries[q] \in BrowseQuery
  BY <1>a, ElementsOf
<1>c. \A c, x \in BOOLEAN, q \in Seq(BrowseQuery) :
        [closed |-> c, expired |-> x, queries |-> q] \in [closed : BOOLEAN, expired : BOOLEAN, queries : Seq(BrowseQuery)]
  OBVIOUS
<1>1. ASSUME NEW ok \in BOOLEAN, Query(ok) PROVE BrowseInv'
  <2> DEFINE new == [done |-> FALSE, waits |-> ok]
  <2>1. /\ st' = [closed |-> st.closed, expired |-> st.expired, queries |-> Append(st.queries, new)]
        /\ calls = "idle"
    BY Zenon, <1>1 DEF Query, BrowseShape
  <2>5. new \in BrowseQuery
    BY DEF BrowseQuery
  <2>2. /\ st'.queries \in Seq(BrowseQuery)
        /\ Len(st'.queries) = n + 1 /\ st'.queries[n + 1] = new
        /\ \A q \in 1..n : st'.queries[q] = st.queries[q]
    <3>1. st'.queries = Append(st.queries, new)
      BY <2>1
    <3> HIDE DEF new
    <3> QED
      BY <1>a, <2>5, <3>1
  <2>3. CASE ok
    <3>1. calls' = "read" /\ seen' = [ends |-> seen.ends, broken |-> FALSE]
      BY <1>1, <2>3 DEF Query, BrowseShape
    <3>2. BrowseShape'
      BY <1>0, <2>1, <2>2, <3>1 DEF BrowseShape
    <3>3. DeadlineIsOwn' /\ (BrowseUnbroken' <=> BrowseUnbroken)
      BY <3>1 DEF DeadlineIsOwn, BrowseUnbroken
    <3>4. BrowseWaits'
      BY SMTT(30), <1>0, <2>1, <2>2, <3>1, <3>3 DEF BrowseWaits
    <3> QED
      BY <3>2, <3>3, <3>4
  <2>4. CASE ~ok
    <3> DEFINE e == [how |-> "send query", broken |-> FALSE]
    <3>1. calls' = "idle" /\ seen' = [ends |-> Append(seen.ends, e), broken |-> FALSE]
      BY Zenon, <1>1, <2>4 DEF Query
    <3>5. e \in BrowseEnd /\ ~e.broken /\ e.how # "deadline"
      BY DEF BrowseEnd
    <3> HIDE DEF e
    <3>2. BrowseShape'
      <4>1. Append(seen.ends, e) \in Seq(BrowseEnd)
        BY <1>b, <3>5
      <4> QED
        BY Zenon, <1>a, <2>1, <2>2, <3>1, <4>1 DEF BrowseShape
    <3>3. DeadlineIsOwn' /\ (BrowseUnbroken' <=> BrowseUnbroken)
      BY <3>1, <3>5, BrowseEnds
    <3>4. BrowseWaits'
      <4>1. st'.expired = st.expired /\ ~st'.queries[n + 1].waits
        BY <2>1, <2>2, <2>4
      <4> QED
        BY SMTT(30), <1>0, <2>1, <2>2, <3>1, <3>3, <4>1 DEF BrowseWaits
    <3> QED
      BY <3>2, <3>3, <3>4
  <2> QED
    BY <2>3, <2>4
<1>2. ASSUME NEW ok \in BOOLEAN, ReadFails(ok) PROVE BrowseInv'
  <2>1. calls = "read" /\ (st.expired \/ ok) /\ calls' = "failed" /\ seen' = [ends |-> seen.ends, broken |-> ok] /\ st' = st
    BY <1>2 DEF ReadFails, BrowseShape
  <2>2. BrowseShape'
    BY <2>1 DEF BrowseShape
  <2>3. DeadlineIsOwn' /\ (BrowseUnbroken' <=> BrowseUnbroken)
    BY <2>1 DEF DeadlineIsOwn, BrowseUnbroken
  <2> QED
    BY <2>1, <2>2, <2>3 DEF BrowseWaits
<1>3. ASSUME NEW q \in 1..n, CancelQuery(q) \/ Interrupt(q) PROVE BrowseInv'
  <2>1. calls' = calls /\ seen' = seen
    BY <1>3 DEF CancelQuery, Interrupt
  <2>2. DeadlineIsOwn' /\ (BrowseUnbroken' <=> BrowseUnbroken)
    BY <2>1 DEF DeadlineIsOwn, BrowseUnbroken
  <2>3. CASE CancelQuery(q)
    <3>1. st' = [st EXCEPT !.queries[q].done = TRUE]
      BY <2>3 DEF CancelQuery
    <3> DEFINE e == [st.queries[q] EXCEPT !.done = TRUE]
    <3>2. /\ st' = [closed |-> st.closed, expired |-> st.expired, queries |-> st'.queries]
          /\ st'.queries = [st.queries EXCEPT ![q] = e]
      BY Zenon, <1>a, <3>1
    <3>6. e \in BrowseQuery /\ e.done = TRUE /\ e.waits = st.queries[q].waits
      BY Zenon, <1>0, BrowseQueryUpdate
    <3> HIDE DEF e
    <3>3. /\ st'.queries \in Seq(BrowseQuery) /\ Len(st'.queries) = n
          /\ \A p \in 1..n : st'.queries[p] = IF p = q THEN e ELSE st.queries[p]
      BY <1>a, <3>2, <3>6, ReplacedAt
    <3>4. \A p \in 1..n : st'.queries[p].waits = st.queries[p].waits /\ (st.queries[p].done => st'.queries[p].done)
      BY <3>3, <3>6
    <3>9. st' \in [closed : BOOLEAN, expired : BOOLEAN, queries : Seq(BrowseQuery)]
      BY <1>a, <3>2, <3>3
    <3>5. BrowseShape'
      BY <2>1, <3>3, <3>9 DEF BrowseShape
    <3> QED
      BY SMTT(30), <1>0, <2>1, <2>2, <3>2, <3>3, <3>4, <3>5 DEF BrowseWaits, BrowseShape
  <2>4. CASE Interrupt(q)
    <3>1. st' = [st EXCEPT !.queries[q].waits = FALSE, !.expired = TRUE] /\ st.queries[q].done /\ st.queries[q].waits
      BY <2>4 DEF Interrupt, interrupted
    <3> DEFINE e == [st.queries[q] EXCEPT !.waits = FALSE]
    <3>2. /\ st' = [closed |-> st.closed, expired |-> TRUE, queries |-> st'.queries]
          /\ st'.queries = [st.queries EXCEPT ![q] = e]
      BY Zenon, <1>a, <3>1
    <3>8. e \in BrowseQuery /\ e.done = st.queries[q].done /\ e.waits = FALSE
      BY Zenon, <1>0, BrowseQueryUpdate
    <3> HIDE DEF e
    <3>3. /\ st'.queries \in Seq(BrowseQuery) /\ Len(st'.queries) = n
          /\ \A p \in 1..n : st'.queries[p] = IF p = q THEN e ELSE st.queries[p]
      BY <1>a, <3>2, <3>8, ReplacedAt
    <3>4. /\ \A p \in 1..n : (st'.queries[p].waits => st.queries[p].waits) /\ (st.queries[p].done => st'.queries[p].done)
          /\ ~st'.queries[q].waits /\ st'.queries[q].done
      BY <3>1, <3>3, <3>8
    <3>9. st' \in [closed : BOOLEAN, expired : BOOLEAN, queries : Seq(BrowseQuery)]
      BY <1>a, <1>c, <3>2, <3>3, Zenon
    <3>5. BrowseShape'
      BY <2>1, <3>3, <3>9 DEF BrowseShape
    <3>6. BrowseUnbroken => q = n /\ calls # "idle"
      BY <1>0, <3>1 DEF BrowseWaits
    <3>7. BrowseWaits'
      BY SMTT(30), <1>0, <2>1, <2>2, <3>2, <3>3, <3>4, <3>6 DEF BrowseWaits
    <3> QED
      BY <2>2, <3>5, <3>7
  <2> QED
    BY <1>3, <2>3, <2>4
<1>4. CASE Returns
  <2> DEFINE done1 == st.queries[n].done
             how == IF done1 THEN "nil" ELSE IF seen.broken THEN "transport" ELSE "deadline"
             e == [how |-> how, broken |-> seen.broken]
  <2>1. /\ calls = "failed" /\ calls' = "idle" /\ n >= 1
        /\ st' = IF done1 THEN [st EXCEPT !.expired = FALSE] ELSE st
        /\ seen' = [seen EXCEPT !.ends = Append(@, e)]
    BY <1>4 DEF Returns, ends, done, Current, reset, BrowseShape
  <2>7. seen' = [ends |-> Append(seen.ends, e), broken |-> seen.broken] /\ e \in BrowseEnd
    BY Zenon, <1>b, <2>1 DEF BrowseEnd
  <2>2. BrowseUnbroken => done1 \/ seen.broken
    BY <2>1 DEF BrowseWaits
  <2>3. DeadlineIsOwn' /\ (BrowseUnbroken' <=> BrowseUnbroken /\ ~seen.broken)
    <3>1. e.how = "deadline" => ~BrowseUnbroken
      BY <2>2
    <3>2. e \in BrowseEnd /\ seen'.ends = Append(seen.ends, e)
      BY <2>7
    <3>3. e.broken = seen.broken
      OBVIOUS
    <3> HIDE DEF e
    <3> QED
      BY <3>1, <3>2, <3>3, BrowseEnds
  <2>4. BrowseShape'
    <3> HIDE DEF e
    <3>1. seen'.ends \in Seq(BrowseEnd)
      BY <1>b, <2>7
    <3>2. seen' \in [ends : Seq(BrowseEnd), broken : BOOLEAN]
      BY <1>b, <2>7, <3>1
    <3>3. st' \in [closed : BOOLEAN, expired : BOOLEAN, queries : Seq(BrowseQuery)]
      BY Zenon, <1>a, <2>1
    <3> QED
      BY <2>1, <3>2, <3>3 DEF BrowseShape
  <2>5. st'.queries = st.queries /\ (done1 => ~st'.expired)
    BY <2>1 DEF BrowseShape
  <2>6. BrowseWaits'
    <3> SUFFICES ASSUME BrowseUnbroken, ~seen.broken PROVE BrowseWaits'
      BY <2>3 DEF BrowseWaits
    <3>1. done1 /\ st.expired /\ ~st.queries[n].waits
      BY <2>1, <2>2 DEF BrowseWaits
    <3> QED
      BY <1>0, <2>1, <2>5, <3>1 DEF BrowseWaits
  <2> QED
    BY <2>3, <2>4, <2>6
<1>5. CASE BrowseClose
  <2>1. calls' = calls /\ seen' = seen /\ st' = [closed |-> TRUE, expired |-> st.expired, queries |-> st.queries]
    BY Zenon, <1>5 DEF BrowseClose, BrowseShape
  <2>2. DeadlineIsOwn' /\ (BrowseUnbroken' <=> BrowseUnbroken) /\ BrowseShape'
    BY <2>1 DEF DeadlineIsOwn, BrowseUnbroken, BrowseShape
  <2> QED
    BY SMTT(30), <2>1, <2>2 DEF BrowseWaits
<1> QED
  BY <1>1, <1>2, <1>3, <1>4, <1>5 DEF BrowseNext, Current

LEMMA BrowseSound == BrowseInv => DeadlineIsOwn
BY DEF BrowseInv

-----------------------------------------------------------------------------
(* zonegroup and firmware. *)
(* The members whose goroutine is done have stored their own result. *)
Stored(results, left) ==
  /\ results = [i \in Members |-> results[i]]
  /\ \A m \in Members : m \notin left => results[m] \in [by : {m}, result : {"ok", "flag", "err"}]

ZoneGroupCall(k) ==
  /\ k.pc \in {"idle", "wait", "done"}
  /\ k.pc = "wait" => DOMAIN k = {"pc", "left", "results"} /\ Stored(k.results, k.left)
  /\ k.pc = "done" => Stored(k.results, {})

ZoneGroupInv ==
  /\ calls = [c \in Callers |-> calls[c]]
  /\ \A c \in Callers : ZoneGroupCall(calls[c])

LEMMA ZoneGroupInitial == ZoneGroupInit => ZoneGroupInv
BY DEF ZoneGroupInit, ZoneGroupInv, ZoneGroupCall, CallsInit, Idle

LEMMA ZoneGroupCallsKeep ==
  ASSUME ZoneGroupInv, NEW c \in Callers, NEW k, goes(c, k), ZoneGroupCall(k)
  PROVE  ZoneGroupInv'
BY GoesOne DEF ZoneGroupInv

LEMMA MemberStores ==
  ASSUME NEW k, ZoneGroupCall(k), k.pc = "wait", NEW m \in Members, NEW r \in {"ok", "flag", "err"}
  PROVE  ZoneGroupCall([k EXCEPT !.left = @ \ {m}, !.results = stores(@, m, r)])
<1> DEFINE R == [k.results EXCEPT ![m] = [by |-> m, result |-> r]]
           L == k.left \ {m}
           x == [k EXCEPT !.left = @ \ {m}, !.results = stores(@, m, r)]
<1>1. DOMAIN x = {"pc", "left", "results"} /\ x.pc = "wait" /\ x.left = L /\ x.results = R
  BY DEF ZoneGroupCall, stores
<1>2. Stored(R, L)
  BY DEF ZoneGroupCall, Stored
<1> HIDE DEF R, L, x
<1> SUFFICES ZoneGroupCall(x)
  BY DEF x
<1> QED
  BY <1>1, <1>2 DEF ZoneGroupCall

LEMMA ZoneGroupStep == ZoneGroupInv /\ ZoneGroupNext => ZoneGroupInv'
<1> SUFFICES ASSUME ZoneGroupInv, ZoneGroupNext PROVE ZoneGroupInv'
  OBVIOUS
<1>1. ASSUME NEW c \in Callers, BroadcastBegin(c) PROVE ZoneGroupInv'
  <2> DEFINE k == [pc |-> "wait", left |-> Members, results |-> [i \in Members |-> [by |-> 0]]]
  <2>1. ZoneGroupCall(k)
    BY DEF ZoneGroupCall, Stored
  <2> HIDE DEF k
  <2> QED
    BY <1>1, <2>1, ZoneGroupCallsKeep DEF BroadcastBegin, k
<1>2. ASSUME NEW c \in Callers, BroadcastEnd(c) PROVE ZoneGroupInv'
  <2>1. ZoneGroupCall(calls[c]) /\ calls[c].pc = "wait" /\ calls[c].left = {}
    BY <1>2 DEF BroadcastEnd, at, ZoneGroupInv
  <2> DEFINE k == [pc |-> "done", results |-> calls[c].results]
  <2>2. ZoneGroupCall(k)
    BY Zenon, <2>1 DEF ZoneGroupCall
  <2> HIDE DEF k
  <2> QED
    BY <1>2, <2>2, ZoneGroupCallsKeep DEF BroadcastEnd, k
<1>3. ASSUME NEW c \in Callers, BroadcastLeave(c) PROVE ZoneGroupInv'
  <2>1. ZoneGroupCall(Idle)
    BY DEF ZoneGroupCall, Idle
  <2> QED
    BY <1>3, <2>1, ZoneGroupCallsKeep DEF BroadcastLeave, returns
<1>4. ASSUME NEW c \in Callers, NEW m \in Members, MemberDone(c, m) PROVE ZoneGroupInv'
  <2>1. ZoneGroupCall(calls[c]) /\ calls[c].pc = "wait"
    BY <1>4 DEF MemberDone, at, ZoneGroupInv
  <2>2. PICK r \in {"ok", "flag", "err"} : goes(c, [calls[c] EXCEPT !.left = @ \ {m}, !.results = stores(@, m, r)])
    BY Zenon, <1>4 DEF MemberDone
  <2> QED
    BY Zenon, <2>1, <2>2, MemberStores, ZoneGroupCallsKeep
<1>5. CASE ZoneGroupClose \/ \E m \in Members : CloseMember(m)
  BY <1>5 DEF ZoneGroupClose, CloseMember, ZoneGroupInv
<1> QED
  BY <1>1, <1>2, <1>3, <1>4, <1>5 DEF ZoneGroupNext

LEMMA ZoneGroupSound == ZoneGroupInv => EveryMemberAnswered
<1> SUFFICES ASSUME ZoneGroupInv, NEW c \in Callers, at(c, "done")
             PROVE  (\A m \in Members : calls[c].results[m].by = m)
                    /\ (OK(calls[c].results) <=> Errors(calls[c].results) = {})
  BY DEF EveryMemberAnswered
<1> DEFINE r == calls[c].results
<1>1. Stored(r, {})
  BY DEF ZoneGroupInv, ZoneGroupCall, at
<1> HIDE DEF r
<1>2. \A m \in Members : r[m].by = m
  BY <1>1 DEF Stored
<1>3. OK(r) <=> Errors(r) = {}
  BY DEF OK, Errors
<1> QED
  BY <1>2, <1>3 DEF r

(* While an update runs, active is set and no other runs; the endpoint has *)
(* taken the image up to the offset.                                       *)
FirmwareCall(k, bytes) ==
  /\ k.pc \in {"idle", "send"}
  /\ k.pc = "send" =>
       /\ k = [pc |-> "send", image |-> k.image, offset |-> k.offset]
       /\ k.image \in Images /\ k.offset \in Nat
       /\ k.offset = 0 \/ bytes = SubSeq(k.image, 1, IF k.offset > Len(k.image) THEN Len(k.image) ELSE k.offset)
       /\ Len(k.image) >= 1

FirmwareInv ==
  /\ calls = [c \in Callers |-> calls[c]]
  /\ seen = [bytes |-> seen.bytes, good |-> seen.good, count |-> seen.count]
  /\ \A c \in Callers : FirmwareCall(calls[c], seen.bytes)
  /\ \A c \in Callers : calls[c].pc = "send" => st.active
  /\ \A c, d \in Callers : calls[c].pc = "send" /\ calls[d].pc = "send" => c = d
  /\ \A g \in seen.good : g[1] = g[2]

LEMMA FirmwareInitial == FirmwareInit => FirmwareInv
BY SMTT(30) DEF FirmwareInit, FirmwareInv, FirmwareCall, CallsInit, Idle

LEMMA FirmwareCallsKeep ==
  ASSUME FirmwareInv, NEW c \in Callers, NEW k, goes(c, k),
         seen' = [bytes |-> seen'.bytes, good |-> seen'.good, count |-> seen'.count],
         \A g \in seen'.good : g[1] = g[2],
         FirmwareCall(k, seen'.bytes), k.pc = "send" => st'.active,
         \/ calls[c].pc = "send"
         \/ ~st.active /\ seen'.bytes = seen.bytes
  PROVE  FirmwareInv'
<1>1. calls' = [d \in Callers |-> calls'[d]] /\ calls'[c] = k /\ \A d \in Callers : d # c => calls'[d] = calls[d]
  BY GoesOne DEF FirmwareInv
<1>2. \A d \in Callers : d # c => calls'[d].pc # "send" /\ FirmwareCall(calls'[d], seen'.bytes)
  BY Zenon, <1>1 DEF FirmwareInv, FirmwareCall
<1> QED
  BY <1>1, <1>2 DEF FirmwareInv

LEMMA ChunkJoins ==
  ASSUME NEW S, NEW image \in Seq(S), NEW o \in Nat, o < Len(image), o > 0
  PROVE  SubSeq(image, 1, o) \o chunk(image, o).data
           = SubSeq(image, 1, IF o + ChunkSize > Len(image) THEN Len(image) ELSE o + ChunkSize)
<1> DEFINE e == IF o + ChunkSize > Len(image) THEN Len(image) ELSE o + ChunkSize
<1>1. ChunkSize \in Nat \ {0}
  BY FirmwareAssumption
<1>2. chunk(image, o).data = SubSeq(image, o + 1, e)
  BY Zenon DEF chunk
<1>3. e \in Nat /\ o < e /\ e <= Len(image) /\ Len(image) \in Nat
  BY <1>1
<1> HIDE DEF e
<1>4. SubSeq(image, 1, o) \o SubSeq(image, o + 1, e) = SubSeq(image, 1, e)
  BY <1>3
<1> QED
  BY Zenon, <1>2, <1>4 DEF e

LEMMA FirstChunk ==
  ASSUME NEW S, NEW image \in Seq(S), Len(image) >= 1
  PROVE  chunk(image, 0).data = SubSeq(image, 1, IF 0 + ChunkSize > Len(image) THEN Len(image) ELSE 0 + ChunkSize)
<1>1. chunk(image, 0).data = SubSeq(image, 0 + 1, IF 0 + ChunkSize > Len(image) THEN Len(image) ELSE 0 + ChunkSize)
  BY Zenon DEF chunk
<1>2. 0 + 1 = 1
  OBVIOUS
<1> QED
  BY <1>1, <1>2, Zenon

LEMMA WholeImage ==
  ASSUME NEW S, NEW image \in Seq(S)
  PROVE  SubSeq(image, 1, Len(image)) = image
OBVIOUS

LEMMA FirmwareStep == FirmwareInv /\ FirmwareNext => FirmwareInv'
<1> SUFFICES ASSUME FirmwareInv, NEW c \in Callers,
                    UpdateChunk(c) \/ UpdateVerify(c) \/ \E image \in Images : UpdateBegin(c, image)
             PROVE  FirmwareInv'
  BY DEF FirmwareNext
<1> DEFINE k == calls[c]
<1>a. /\ FirmwareCall(k, seen.bytes) /\ \A g \in seen.good : g[1] = g[2]
      /\ seen = [bytes |-> seen.bytes, good |-> seen.good, count |-> seen.count]
  BY DEF FirmwareInv
<1>b. ChunkSize \in Nat \ {0}
  BY FirmwareAssumption
<1>c. FirmwareCall(Idle, seen.bytes) /\ FirmwareCall(Idle, seen'.bytes) /\ Idle.pc # "send"
  BY DEF FirmwareCall, Idle
<1>1. ASSUME NEW image \in Images, UpdateBegin(c, image) PROVE FirmwareInv'
  <2> DEFINE l == [pc |-> "send", image |-> image, offset |-> 0]
  <2>1. /\ ~st.active /\ goes(c, l) /\ st'.active
        /\ seen' = [bytes |-> seen.bytes, good |-> seen.good, count |-> seen.count + 1]
    BY <1>1, <1>a DEF UpdateBegin, mayStart
  <2>2. FirmwareCall(l, seen.bytes)
    BY <1>1 DEF FirmwareCall, UpdateBegin
  <2>3. seen'.bytes = seen.bytes /\ seen'.good = seen.good /\ seen' = [bytes |-> seen'.bytes, good |-> seen'.good, count |-> seen'.count]
    BY <2>1
  <2> HIDE DEF l
  <2> QED
    BY <1>a, <2>1, <2>2, <2>3, FirmwareCallsKeep
<1>2. CASE UpdateChunk(c)
  <2> HIDE DEF k
  <2>1. /\ k.pc = "send" /\ k = [pc |-> "send", image |-> k.image, offset |-> k.offset]
        /\ k.image \in Images /\ k.offset \in Nat /\ Len(k.image) >= 1 /\ k.offset < Len(k.image)
        /\ k.offset = 0 \/ seen.bytes = SubSeq(k.image, 1, k.offset)
        /\ k.image \in Seq(Range(k.image))
    <3>1. k.pc = "send" /\ k.offset < Len(k.image)
      BY <1>2 DEF UpdateChunk, at, k
    <3>2. /\ k = [pc |-> "send", image |-> k.image, offset |-> k.offset]
          /\ k.image \in Images /\ k.offset \in Nat /\ Len(k.image) >= 1
      BY <1>a, <3>1 DEF FirmwareCall
    <3>3. k.image \in Seq(Range(k.image))
      BY <3>2, FirmwareAssumption
    <3>4. Len(k.image) \in Nat
      BY <3>3
    <3> QED
      BY <1>a, <3>1, <3>2, <3>3, <3>4 DEF FirmwareCall
  <2>2. CASE takes(chunk(k.image, k.offset))
    <3> DEFINE o == k.offset + ChunkSize
               b == IF k.offset = 0 THEN chunk(k.image, k.offset).data ELSE seen.bytes \o chunk(k.image, k.offset).data
               l == [k EXCEPT !.offset = @ + ChunkSize]
    <3>1. seen' = [bytes |-> b, good |-> seen.good, count |-> seen.count]
      BY Zenon, <1>a, <2>2 DEF takes, chunk
    <3>2. b = SubSeq(k.image, 1, IF o > Len(k.image) THEN Len(k.image) ELSE o)
      <4>1. CASE k.offset = 0
        BY <2>1, <4>1, FirstChunk
      <4>2. CASE k.offset # 0
        <5>1. b = SubSeq(k.image, 1, k.offset) \o chunk(k.image, k.offset).data
          BY Zenon, <2>1, <4>2
        <5>2. k.offset > 0
          BY <2>1, <4>2
        <5>3. SubSeq(k.image, 1, k.offset) \o chunk(k.image, k.offset).data
                = SubSeq(k.image, 1, IF k.offset + ChunkSize > Len(k.image) THEN Len(k.image) ELSE k.offset + ChunkSize)
          BY Zenon, <2>1, <5>2, ChunkJoins
        <5> QED
          BY Zenon, <5>1, <5>3
      <4> QED
        BY Zenon, <4>1, <4>2
    <3> HIDE DEF b
    <3>3. /\ seen'.bytes = b /\ seen'.good = seen.good
          /\ seen' = [bytes |-> seen'.bytes, good |-> seen'.good, count |-> seen'.count]
      BY <3>1
    <3>4. CASE goes(c, l) /\ st' = st
      <4>1. l = [pc |-> "send", image |-> k.image, offset |-> o]
        BY <2>1
      <4>2. FirmwareCall(l, seen'.bytes) /\ l.pc = "send"
        BY <1>b, <2>1, <3>2, <3>3, <4>1 DEF FirmwareCall
      <4>3. st'.active
        BY <2>1, <3>4 DEF FirmwareInv, k
      <4> HIDE DEF l
      <4> QED
        BY Zenon, <1>a, <2>1, <3>3, <3>4, <4>2, <4>3, FirmwareCallsKeep DEF k
    <3>5. CASE fails(c)
      BY Zenon, <1>a, <1>c, <2>1, <3>3, <3>5, FirmwareCallsKeep DEF k, fails, returns
    <3> QED
      <4>1. (goes(c, l) /\ st' = st) \/ fails(c)
        BY <1>2, <2>2 DEF UpdateChunk, k
      <4> QED
        BY <3>4, <3>5, <4>1
  <2>3. CASE seen' = seen /\ fails(c)
    BY Zenon, <1>a, <1>c, <2>1, <2>3, FirmwareCallsKeep DEF k, fails, returns
  <2> QED
    BY <1>2, <2>2, <2>3 DEF UpdateChunk, k
<1>3. CASE UpdateVerify(c)
  <2> HIDE DEF k
  <2>1. /\ k.pc = "send" /\ k.image = seen.bytes
    <3>1. k.pc = "send" /\ k.offset >= Len(k.image)
      BY <1>3 DEF UpdateVerify, at, k
    <3>2. k.image \in Images /\ k.offset \in Nat /\ Len(k.image) >= 1
      BY <1>a, <3>1 DEF FirmwareCall
    <3>3. k.image \in Seq(Range(k.image))
      BY <3>2, FirmwareAssumption
    <3>4. Len(k.image) \in Nat /\ SubSeq(k.image, 1, Len(k.image)) = k.image
      BY <3>3
    <3> QED
      BY SMTT(30), <1>a, <3>1, <3>2, <3>4 DEF FirmwareCall
  <2>2. CASE seen' = [seen EXCEPT !.good = @ \cup {<<k.image, seen.bytes>>}] /\ returns(c)
    <3>1. seen' = [bytes |-> seen.bytes, good |-> seen.good \cup {<<k.image, seen.bytes>>}, count |-> seen.count]
      BY Zenon, <1>a, <2>2
    <3>2. seen' = [bytes |-> seen'.bytes, good |-> seen'.good, count |-> seen'.count]
      BY Zenon, <3>1
    <3>3. \A g \in seen'.good : g[1] = g[2]
      BY <1>a, <2>1, <3>1
    <3> QED
      BY Zenon, <1>c, <2>1, <2>2, <3>2, <3>3, FirmwareCallsKeep DEF k, returns
  <2>3. CASE seen' = seen /\ fails(c)
    BY Zenon, <1>a, <1>c, <2>1, <2>3, FirmwareCallsKeep DEF k, fails, returns
  <2> QED
    BY <1>3, <2>2, <2>3 DEF UpdateVerify, k
<1> QED
  BY <1>1, <1>2, <1>3

LEMMA FirmwareSound == FirmwareInv => SuccessMeansWholeImage
BY DEF FirmwareInv, SuccessMeansWholeImage

-----------------------------------------------------------------------------
(* deadline. *)
(* What a stream's entry, if it has one, knows of the messages of the stream. *)
DeadlineKnown(known, k, messages, now) ==
  /\ \A m \in messages : m.time \in Nat /\ m.time <= now
  /\ ~known => messages = {}
  /\ known =>
       /\ k \in [lastAny : Nat, lastTrigger : Nat, haveTrigger : BOOLEAN]
       /\ \E m \in messages : m.time = k.lastAny
       /\ \A m \in messages : m.time <= k.lastAny
       /\ k.haveTrigger => \E m \in messages : m.kind = "trigger" /\ m.time = k.lastTrigger
       /\ \A m \in messages : m.kind = "trigger" => k.haveTrigger /\ m.time <= k.lastTrigger

DeadlineInv ==
  /\ st = [state |-> st.state, now |-> st.now] /\ st.now \in Nat
  /\ seen = [s \in Streams |-> seen[s]]
  /\ st.state = [s \in DOMAIN st.state |-> st.state[s]]
  /\ \A s \in Streams : DeadlineKnown(s \in DOMAIN st.state, st.state[s], seen[s], st.now)

LEMMA DeadlineInitial == DeadlineInit => DeadlineInv
BY DEF DeadlineInit, DeadlineInv, DeadlineKnown

LEMMA DeadlineAges ==
  ASSUME NEW known, NEW k, NEW messages, NEW now \in Nat, DeadlineKnown(known, k, messages, now)
  PROVE  DeadlineKnown(known, k, messages, now + 1)
<1>1. \A m \in messages : m.time \in Nat /\ m.time <= now + 1
  BY DEF DeadlineKnown
<1> QED
  BY Zenon, <1>1 DEF DeadlineKnown

LEMMA DeadlineLearnsTrigger ==
  ASSUME NEW known, NEW k, NEW messages, NEW now \in Nat, DeadlineKnown(known, k, messages, now)
  PROVE  DeadlineKnown(TRUE, [lastAny |-> now, lastTrigger |-> now, haveTrigger |-> TRUE],
                       messages \cup {[kind |-> "trigger", time |-> now]}, now)
<1> DEFINE new == [kind |-> "trigger", time |-> now]
           l == [lastAny |-> now, lastTrigger |-> now, haveTrigger |-> TRUE]
<1>1. /\ l \in [lastAny : Nat, lastTrigger : Nat, haveTrigger : BOOLEAN]
      /\ l.lastAny = now /\ l.lastTrigger = now /\ l.haveTrigger
  OBVIOUS
<1>2. new.kind = "trigger" /\ new.time = now
  OBVIOUS
<1> HIDE DEF new, l
<1> SUFFICES DeadlineKnown(TRUE, l, messages \cup {new}, now)
  BY Zenon DEF new, l
<1>3. \A m \in messages \cup {new} : m.time \in Nat /\ m.time <= now
  BY <1>2 DEF DeadlineKnown
<1> QED
  BY <1>1, <1>2, <1>3 DEF DeadlineKnown

LEMMA DeadlineLearnsHeartbeat ==
  ASSUME NEW known, NEW k, NEW messages, NEW now \in Nat, DeadlineKnown(known, k, messages, now), known,
         NEW l, l = [k EXCEPT !.lastAny = now]
  PROVE  DeadlineKnown(TRUE, l, messages \cup {[kind |-> "heartbeat", time |-> now]}, now)
<1> DEFINE new == [kind |-> "heartbeat", time |-> now]
<1>1. /\ l \in [lastAny : Nat, lastTrigger : Nat, haveTrigger : BOOLEAN]
      /\ l.lastAny = now /\ l.lastTrigger = k.lastTrigger /\ l.haveTrigger = k.haveTrigger
  BY DEF DeadlineKnown
<1>2. new.kind # "trigger" /\ new.time = now
  OBVIOUS
<1> HIDE DEF new
<1> SUFFICES DeadlineKnown(TRUE, l, messages \cup {new}, now)
  BY Zenon DEF new
<1>3. \A m \in messages \cup {new} : m.time \in Nat /\ m.time <= now
  BY <1>2 DEF DeadlineKnown
<1>4. \A m \in messages \cup {new} : m.kind = "trigger" => l.haveTrigger /\ m.time <= l.lastTrigger
  BY <1>1, <1>2 DEF DeadlineKnown
<1>5. l.haveTrigger => \E m \in messages \cup {new} : m.kind = "trigger" /\ m.time = l.lastTrigger
  BY <1>1 DEF DeadlineKnown
<1> QED
  BY <1>1, <1>2, <1>3, <1>4, <1>5 DEF DeadlineKnown

LEMMA DeadlineLearnsFirst ==
  ASSUME NEW now \in Nat, NEW l, l = [[lastAny |-> 0, lastTrigger |-> 0, haveTrigger |-> FALSE] EXCEPT !.lastAny = now]
  PROVE  DeadlineKnown(TRUE, l, {} \cup {[kind |-> "heartbeat", time |-> now]}, now)
<1> DEFINE new == [kind |-> "heartbeat", time |-> now]
<1>1. /\ l \in [lastAny : Nat, lastTrigger : Nat, haveTrigger : BOOLEAN]
      /\ l.lastAny = now /\ ~l.haveTrigger
  BY Zenon
<1>2. new.kind # "trigger" /\ new.time = now
  OBVIOUS
<1> HIDE DEF new
<1> SUFFICES DeadlineKnown(TRUE, l, {} \cup {new}, now)
  BY Zenon DEF new
<1> QED
  BY <1>1, <1>2 DEF DeadlineKnown

LEMMA DeadlineStep == DeadlineInv /\ DeadlineNext => DeadlineInv'
<1> SUFFICES ASSUME DeadlineInv, DeadlineNext PROVE DeadlineInv'
  OBVIOUS
<1>0. /\ st = [state |-> st.state, now |-> st.now] /\ st.now \in Nat
      /\ seen = [s \in Streams |-> seen[s]]
      /\ st.state = [s \in DOMAIN st.state |-> st.state[s]]
      /\ \A s \in Streams : DeadlineKnown(s \in DOMAIN st.state, st.state[s], seen[s], st.now)
  BY DEF DeadlineInv
<1>1. ASSUME NEW s \in Streams, NEW new, NEW message, observes(s, new, message),
             DeadlineKnown(TRUE, new, seen[s] \cup {[kind |-> message, time |-> st.now]}, st.now)
      PROVE  DeadlineInv'
  <2> DEFINE m == [kind |-> message, time |-> st.now]
  <2> HIDE DEF m
  <2>1. /\ st' = [st EXCEPT !.state = put(@, s, new)]
        /\ seen' = [seen EXCEPT ![s] = @ \cup {m}]
    BY <1>1 DEF observes, m
  <2>2. st' = [state |-> put(st.state, s, new), now |-> st.now]
    BY <1>0, <2>1
  <2>3. /\ st'.state = put(st.state, s, new) /\ st'.now = st.now
        /\ st' = [state |-> st'.state, now |-> st'.now]
    BY <2>2
  <2>4. /\ DOMAIN st'.state = DOMAIN st.state \cup {s}
        /\ st'.state = [t \in DOMAIN st'.state |-> st'.state[t]]
        /\ st'.state[s] = new
        /\ \A t \in DOMAIN st.state : t # s => st'.state[t] = st.state[t]
    <3>1. st'.state = put(st.state, s, new)
      BY <2>3
    <3> QED
      BY Zenon, <3>1 DEF put
  <2>5. /\ seen' = [t \in Streams |-> seen'[t]]
        /\ seen'[s] = seen[s] \cup {m}
        /\ \A t \in Streams : t # s => seen'[t] = seen[t]
    BY <1>0, <2>1
  <2>6. ASSUME NEW t \in Streams PROVE DeadlineKnown(t \in DOMAIN st'.state, st'.state[t], seen'[t], st'.now)
    <3>1. CASE t = s
      <4>1. DeadlineKnown(TRUE, new, seen[s] \cup {m}, st.now)
        BY Zenon, <1>1 DEF m
      <4>2. (t \in DOMAIN st'.state) = TRUE
        BY <2>4, <3>1
      <4> QED
        BY Zenon, <2>3, <2>4, <2>5, <3>1, <4>1, <4>2
    <3>2. CASE t # s
      <4>1. DeadlineKnown(t \in DOMAIN st.state, st.state[t], seen[t], st.now)
        BY <1>0
      <4>2. CASE t \in DOMAIN st.state
        BY Zenon, <2>3, <2>4, <2>5, <3>2, <4>1, <4>2
      <4>3. CASE t \notin DOMAIN st.state
        BY Zenon, <2>3, <2>4, <2>5, <3>2, <4>1, <4>3 DEF DeadlineKnown
      <4> QED
        BY Zenon, <4>2, <4>3
    <3> QED
      BY SMTT(30), <3>1, <3>2
  <2> QED
    BY Zenon, <1>0, <2>3, <2>4, <2>5, <2>6 DEF DeadlineInv
<1>2. ASSUME NEW s \in Streams, ObserveTrigger(s) PROVE DeadlineInv'
  <2>1. DeadlineKnown(TRUE, [lastAny |-> st.now, lastTrigger |-> st.now, haveTrigger |-> TRUE],
                      seen[s] \cup {[kind |-> "trigger", time |-> st.now]}, st.now)
    BY Zenon, <1>0, DeadlineLearnsTrigger
  <2> QED
    BY Zenon, <1>1, <1>2, <2>1 DEF ObserveTrigger
<1>3. ASSUME NEW s \in Streams, ObserveHeartbeat(s) PROVE DeadlineInv'
  <2> DEFINE l == [stateFor(s) EXCEPT !.lastAny = st.now]
  <2>1. DeadlineKnown(TRUE, l, seen[s] \cup {[kind |-> "heartbeat", time |-> st.now]}, st.now)
    <3>1. CASE s \in DOMAIN st.state
      <4>1. l = [st.state[s] EXCEPT !.lastAny = st.now]
        BY <3>1 DEF stateFor
      <4>2. DeadlineKnown(s \in DOMAIN st.state, st.state[s], seen[s], st.now)
        BY <1>0
      <4> HIDE DEF l
      <4> QED
        BY ZenonT(40), <1>0, <3>1, <4>1, <4>2, DeadlineLearnsHeartbeat
    <3>2. CASE s \notin DOMAIN st.state
      <4>1. l = [[lastAny |-> 0, lastTrigger |-> 0, haveTrigger |-> FALSE] EXCEPT !.lastAny = st.now]
        BY <3>2 DEF stateFor
      <4>2. seen[s] = {}
        BY Zenon, <1>0, <3>2 DEF DeadlineKnown
      <4> HIDE DEF l
      <4> QED
        BY Zenon, <1>0, <4>1, <4>2, DeadlineLearnsFirst
    <3> QED
      BY Zenon, <3>1, <3>2
  <2> QED
    BY Zenon, <1>1, <1>3, <2>1 DEF ObserveHeartbeat
<1>4. ASSUME NEW s \in Streams, Forget(s) PROVE DeadlineInv'
  <2>1. /\ st' = [state |-> [t \in DOMAIN st.state \ {s} |-> st.state[t]], now |-> st.now]
        /\ seen' = [seen EXCEPT ![s] = {}]
    BY <1>0, <1>4 DEF Forget, Restrict
  <2>2. /\ st'.state = [t \in DOMAIN st.state \ {s} |-> st.state[t]] /\ st'.now = st.now
        /\ st' = [state |-> st'.state, now |-> st'.now]
    BY <2>1
  <2>3. /\ DOMAIN st'.state = DOMAIN st.state \ {s}
        /\ st'.state = [t \in DOMAIN st'.state |-> st'.state[t]]
        /\ \A t \in DOMAIN st.state : t # s => st'.state[t] = st.state[t]
    BY <2>2
  <2>4. /\ seen' = [t \in Streams |-> seen'[t]]
        /\ seen'[s] = {}
        /\ \A t \in Streams : t # s => seen'[t] = seen[t]
    BY Zenon, <1>0, <2>1
  <2>5. ASSUME NEW t \in Streams PROVE DeadlineKnown(t \in DOMAIN st'.state, st'.state[t], seen'[t], st'.now)
    <3>1. DeadlineKnown(t \in DOMAIN st.state, st.state[t], seen[t], st.now)
      BY <1>0
    <3>2. CASE t \in DOMAIN st'.state
      <4>1. (t \in DOMAIN st'.state) = TRUE /\ (t \in DOMAIN st.state) = TRUE /\ t # s
        BY <2>3, <3>2
      <4> QED
        BY Zenon, <2>2, <2>3, <2>4, <3>1, <4>1
    <3>3. CASE t \notin DOMAIN st'.state
      BY Zenon, <2>2, <2>3, <2>4, <3>1, <3>3 DEF DeadlineKnown
    <3> QED
      BY Zenon, <3>2, <3>3
  <2> QED
    BY Zenon, <1>0, <2>2, <2>3, <2>4, <2>5 DEF DeadlineInv
<1>5. CASE DeadlineTick
  <2>1. seen' = seen /\ st' = [state |-> st.state, now |-> st.now + 1]
    BY <1>0, <1>5 DEF DeadlineTick
  <2>2. st'.state = st.state /\ st'.now = st.now + 1
    BY <2>1
  <2>3. \A s \in Streams : DeadlineKnown(s \in DOMAIN st'.state, st'.state[s], seen'[s], st'.now)
    BY <1>0, <2>1, <2>2, DeadlineAges
  <2> QED
    BY <1>0, <2>1, <2>2, <2>3 DEF DeadlineInv
<1> QED
  BY <1>2, <1>3, <1>4, <1>5 DEF DeadlineNext

LEMMA DeadlineSound == DeadlineInv => StateTellsRecentMessages
<1> SUFFICES ASSUME DeadlineInv, NEW s \in Streams
             PROVE  StreamState(s) = IF "trigger" \in {m.kind : m \in {n \in seen[s] : st.now - n.time <= limit}} THEN "Alive"
                                     ELSE IF {m.kind : m \in {n \in seen[s] : st.now - n.time <= limit}} # {} THEN "Idle" ELSE "Dead"
  BY DEF StateTellsRecentMessages
<1> DEFINE recent == {n \in seen[s] : st.now - n.time <= limit}
           k == st.state[s]
<1>1. /\ limit \in Int /\ st.now \in Nat
      /\ DeadlineKnown(s \in DOMAIN st.state, k, seen[s], st.now)
  BY DeadlineAssumption DEF limit, DeadlineForQueue, DeadlineInv
<1>2. CASE s \notin DOMAIN st.state
  <2>1. StreamState(s) = "Dead" /\ seen[s] = {}
    BY <1>1, <1>2 DEF DeadlineKnown, StreamState, stateFor
  <2> QED
    BY <2>1
<1>3. CASE s \in DOMAIN st.state
  <2> HIDE DEF k
  <2>1. /\ k.lastAny \in Nat /\ k.lastTrigger \in Nat /\ k.haveTrigger \in BOOLEAN
        /\ \A m \in seen[s] : m.time \in Nat
        /\ \E m \in seen[s] : m.time = k.lastAny
        /\ \A m \in seen[s] : m.time <= k.lastAny
        /\ k.haveTrigger => \E m \in seen[s] : m.kind = "trigger" /\ m.time = k.lastTrigger
        /\ \A m \in seen[s] : m.kind = "trigger" => k.haveTrigger /\ m.time <= k.lastTrigger
    BY Zenon, <1>1, <1>3 DEF DeadlineKnown
  <2>2. recent = {} <=> st.now - k.lastAny > limit
    BY SMTT(30), <1>1, <2>1
  <2>3. (\E m \in recent : m.kind = "trigger") <=> k.haveTrigger /\ st.now - k.lastTrigger <= limit
    BY SMTT(30), <1>1, <2>1
  <2>4. StreamState(s) = IF st.now - k.lastAny > limit THEN "Dead"
                         ELSE IF k.haveTrigger /\ st.now - k.lastTrigger <= limit THEN "Alive" ELSE "Idle"
    <3>1. stateFor(s) = k
      BY <1>3 DEF stateFor, k
    <3> QED
      BY <1>1, <1>3, <2>1, <3>1 DEF StreamState
  <2> HIDE DEF recent
  <2> SUFFICES StreamState(s) = IF "trigger" \in {m.kind : m \in recent} THEN "Alive"
                                ELSE IF {m.kind : m \in recent} # {} THEN "Idle" ELSE "Dead"
    BY DEF recent
  <2>5. ("trigger" \in {m.kind : m \in recent} <=> \E m \in recent : m.kind = "trigger")
        /\ ({m.kind : m \in recent} # {} <=> recent # {})
    OBVIOUS
  <2> QED
    BY <2>2, <2>3, <2>4, <2>5
<1> QED
  BY Zenon, <1>2, <1>3

-----------------------------------------------------------------------------
(* redundancy. *)
(* A swap follows a failure of the link that it makes the standby, so a    *)
(* second one follows failures of both.  Until both links are shut there   *)
(* is a call of Close that still has the others to close.                  *)
RedundancyCall(k, failed, shut) ==
  \/ k = Idle
  \/ k = [pc |-> "close"]
  \/ \E x \in Links : k = [pc |-> "request", active |-> x]
  \/ \E x \in failed : k = [pc |-> "failover", active |-> x]
  \/ \E x, y \in Links : k = [pc |-> "shut", left |-> <<x, y>>] /\ Links = {x, y}
  \/ \E x \in Links : k = [pc |-> "shut", left |-> <<x>>] /\ Links \subseteq shut \cup {x}

RedundancyInv ==
  /\ st \in [primary : Links, standby : Links, failovers : Nat, closed : BOOLEAN]
  /\ Links = {st.primary, st.standby} /\ st.primary # st.standby
  /\ seen \in [failed : SUBSET Links, shut : SUBSET Links]
  /\ calls = [c \in Callers |-> calls[c]]
  /\ \A c \in Callers : RedundancyCall(calls[c], seen.failed, seen.shut)
  /\ st.failovers >= 1 => st.standby \in seen.failed
  /\ st.failovers >= 2 => st.primary \in seen.failed
  /\ st.closed => seen.shut = Links \/ \E c \in Callers : calls[c].pc \in {"close", "shut"}

LEMMA RedundancyInitial == RedundancyInit => RedundancyInv
BY SMTT(30), RedundancyAssumption DEF RedundancyInit, RedundancyInv, RedundancyCall, CallsInit

LEMMA RedundancySound == RedundancyInv => OneFailoverPerFailure /\ CloseShutsBoth
<1> SUFFICES ASSUME RedundancyInv PROVE OneFailoverPerFailure /\ CloseShutsBoth
  OBVIOUS
<1>1. CloseShutsBoth
  BY DEF RedundancyInv, CloseShutsBoth
<1>2. OneFailoverPerFailure
  BY DEF OneFailoverPerFailure, RedundancyInv
<1> QED
  BY <1>1, <1>2

LEMMA RedundancyCallGrows ==
  ASSUME NEW k, NEW F, NEW S, NEW F2, NEW S2, F \subseteq F2, S \subseteq S2, RedundancyCall(k, F, S)
  PROVE  RedundancyCall(k, F2, S2)
BY Zenon DEF RedundancyCall

LEMMA RedundancyCallIs ==
  ASSUME NEW k, NEW F, NEW S, RedundancyCall(k, F, S)
  PROVE  /\ k.pc = "request" => \E x \in Links : k = [pc |-> "request", active |-> x] /\ k.active = x
         /\ k.pc = "failover" => \E x \in F : k = [pc |-> "failover", active |-> x] /\ k.active = x
BY SMTT(30) DEF RedundancyCall, Idle

LEMMA RedundancyShut ==
  ASSUME NEW k, NEW F, NEW S, RedundancyCall(k, F, S), k.pc = "shut"
  PROVE  \/ \E x, y \in Links : k = [pc |-> "shut", left |-> <<x, y>>] /\ Links = {x, y}
         \/ \E x \in Links : k = [pc |-> "shut", left |-> <<x>>] /\ Links \subseteq S \cup {x}
BY SMTT(30) DEF RedundancyCall, Idle

(* A step of one call keeps the others. *)
LEMMA RedundancyCallsKeep ==
  ASSUME RedundancyInv, NEW c \in Callers, NEW k, goes(c, k),
         seen' \in [failed : SUBSET Links, shut : SUBSET Links],
         seen.failed \subseteq seen'.failed, seen.shut \subseteq seen'.shut,
         RedundancyCall(k, seen'.failed, seen'.shut),
         st' \in [primary : Links, standby : Links, failovers : Nat, closed : BOOLEAN],
         Links = {st'.primary, st'.standby} /\ st'.primary # st'.standby,
         st'.failovers >= 1 => st'.standby \in seen'.failed,
         st'.failovers >= 2 => st'.primary \in seen'.failed,
         st'.closed => \/ st.closed /\ calls[c].pc \notin {"close", "shut"}
                       \/ seen'.shut = Links
                       \/ k.pc \in {"close", "shut"}
  PROVE  RedundancyInv'
<1>1. calls' = [d \in Callers |-> calls'[d]] /\ calls'[c] = k /\ \A d \in Callers : d # c => calls'[d] = calls[d]
  BY Zenon, GoesOne DEF RedundancyInv
<1>2. \A d \in Callers : RedundancyCall(calls'[d], seen'.failed, seen'.shut)
  <2> SUFFICES ASSUME NEW d \in Callers PROVE RedundancyCall(calls'[d], seen'.failed, seen'.shut)
    OBVIOUS
  <2>1. RedundancyCall(calls[d], seen.failed, seen.shut)
    BY DEF RedundancyInv
  <2>2. RedundancyCall(calls[d], seen'.failed, seen'.shut)
    BY <2>1, RedundancyCallGrows
  <2> QED
    BY <1>1, <2>2
<1>3. st'.closed => seen'.shut = Links \/ \E d \in Callers : calls'[d].pc \in {"close", "shut"}
  BY Zenon, <1>1 DEF RedundancyInv
<1> QED
  BY Zenon, <1>1, <1>2, <1>3 DEF RedundancyInv

LEMMA RedundancyStep == RedundancyInv /\ RedundancyNext => RedundancyInv'
<1> SUFFICES ASSUME RedundancyInv, NEW c \in Callers,
                    \/ RedundancyRequestBegin(c) \/ RedundancyRequestReturn(c) \/ RequestFailover(c)
                    \/ RedundancyCloseBegin(c) \/ CloseRead(c) \/ CloseLink(c)
             PROVE  RedundancyInv'
  BY DEF RedundancyNext
<1>a. RedundancyCall(calls[c], seen.failed, seen.shut)
  BY DEF RedundancyInv
<1>1. CASE RedundancyRequestBegin(c)
  <2> DEFINE k == [pc |-> "request", active |-> st.primary]
  <2>1. goes(c, k) /\ st' = st /\ seen' = seen /\ ~st.closed
    BY <1>1 DEF RedundancyRequestBegin
  <2>2. RedundancyCall(k, seen.failed, seen.shut)
    BY Zenon DEF RedundancyCall, RedundancyInv
  <2> QED
    BY Zenon, <2>1, <2>2, RedundancyCallsKeep DEF RedundancyInv
<1>2. CASE RedundancyRequestReturn(c)
  <2>1. PICK x \in Links : calls[c] = [pc |-> "request", active |-> x] /\ calls[c].active = x
    <3>1. calls[c].pc = "request"
      BY <1>2 DEF RedundancyRequestReturn, at
    <3> QED
      BY Zenon, <1>a, <3>1, RedundancyCallIs
  <2>2. CASE goes(c, Idle) /\ st' = st /\ seen' = seen
    <3>1. RedundancyCall(Idle, seen.failed, seen.shut)
      BY Zenon DEF RedundancyCall
    <3> QED
      BY SMTT(30), <2>1, <2>2, <3>1, RedundancyCallsKeep DEF RedundancyInv
  <2>3. CASE /\ goes(c, [calls[c] EXCEPT !.pc = "failover"]) /\ st' = st
             /\ seen' = [seen EXCEPT !.failed = @ \cup {calls[c].active}]
    <3> DEFINE k == [pc |-> "failover", active |-> x]
    <3>1. goes(c, k)
      BY <2>1, <2>3
    <3>2. seen' = [failed |-> seen.failed \cup {x}, shut |-> seen.shut]
      <4>1. calls[c].active = x
        BY Zenon, <2>1
      <4>2. seen' = [seen EXCEPT !.failed = @ \cup {x}]
        BY <2>3, <4>1
      <4> QED
        BY Zenon, <4>2 DEF RedundancyInv
    <3>3. RedundancyCall(k, seen'.failed, seen'.shut)
      BY Zenon, <3>2 DEF RedundancyCall
    <3>4. calls[c].pc \notin {"close", "shut"}
      <4>1. calls[c].pc = "request"
        BY <1>2 DEF RedundancyRequestReturn, at
      <4> QED
        BY Zenon, <4>1
    <3>5. /\ seen' \in [failed : SUBSET Links, shut : SUBSET Links]
          /\ seen.failed \subseteq seen'.failed /\ seen.shut \subseteq seen'.shut
      BY Zenon, <3>2 DEF RedundancyInv
    <3>6. st' = st
      BY <2>3
    <3> HIDE DEF k
    <3> QED
      BY Zenon, <3>1, <3>3, <3>4, <3>5, <3>6, RedundancyCallsKeep DEF RedundancyInv
  <2> QED
    BY <1>2, <2>2, <2>3 DEF RedundancyRequestReturn, returns
<1>3. CASE RequestFailover(c)
  <2>1. PICK x \in seen.failed : calls[c] = [pc |-> "failover", active |-> x] /\ calls[c].active = x
    <3>1. calls[c].pc = "failover"
      BY Zenon, <1>3 DEF RequestFailover, at
    <3> QED
      BY Zenon, <1>a, <3>1, RedundancyCallIs
  <2>2. goes(c, Idle) /\ seen' = seen /\ RedundancyCall(Idle, seen.failed, seen.shut)
    BY Zenon, <1>3 DEF RequestFailover, returns, RedundancyCall
  <2>3. CASE st.primary = x
    <3>1. st' = [primary |-> st.standby, standby |-> x, failovers |-> st.failovers + 1, closed |-> st.closed]
      <4>1. calls[c].active = x
        BY Zenon, <2>1
      <4>2. st' = [st EXCEPT !.primary = st.standby, !.standby = st.primary, !.failovers = @ + 1]
        BY <1>3, <2>3, <4>1 DEF RequestFailover, failover
      <4> QED
        BY Zenon, <2>3, <4>2 DEF RedundancyInv
    <3> QED
      BY SMTT(30), <2>1, <2>2, <2>3, <3>1, RedundancyCallsKeep DEF RedundancyInv
  <2>4. CASE st.primary # x
    <3>1. st' = st
      BY <1>3, <2>1, <2>4 DEF RequestFailover, failover
    <3> QED
      BY SMTT(30), <2>1, <2>2, <3>1, RedundancyCallsKeep DEF RedundancyInv
  <2> QED
    BY SMTT(30), <2>3, <2>4
<1>4. CASE RedundancyCloseBegin(c)
  <2> DEFINE k == [pc |-> "close"]
  <2>1. goes(c, k) /\ seen' = seen /\ st' = [st EXCEPT !.closed = TRUE] /\ RedundancyCall(k, seen.failed, seen.shut)
    BY <1>4 DEF RedundancyCloseBegin, RedundancyCall
  <2> QED
    BY ZenonT(40), <2>1, RedundancyCallsKeep DEF RedundancyInv
<1>5. CASE CloseRead(c)
  <2> DEFINE k == [pc |-> "shut", left |-> <<st.primary, st.standby>>]
  <2>1. goes(c, k) /\ st' = st /\ seen' = seen
    BY Zenon, <1>5 DEF CloseRead
  <2>2. RedundancyCall(k, seen.failed, seen.shut)
    BY Zenon DEF RedundancyInv, RedundancyCall
  <2> QED
    BY Zenon, <2>1, <2>2, RedundancyCallsKeep DEF RedundancyInv
<1>6. CASE CloseLink(c)
  <2>1. /\ goes(c, IF Len(calls[c].left) = 1 THEN Idle ELSE [calls[c] EXCEPT !.left = Tail(@)])
        /\ seen' = [failed |-> seen.failed, shut |-> seen.shut \cup {Head(calls[c].left)}] /\ st' = st
    BY Zenon, <1>6 DEF CloseLink, closes, RedundancyInv
  <2>2. ASSUME NEW x \in Links, NEW y \in Links, calls[c] = [pc |-> "shut", left |-> <<x, y>>], Links = {x, y}
        PROVE  RedundancyInv'
    <3> DEFINE k == [pc |-> "shut", left |-> <<y>>]
    <3>1. goes(c, k) /\ seen' = [failed |-> seen.failed, shut |-> seen.shut \cup {x}]
      BY <2>1, <2>2
    <3>2. RedundancyCall(k, seen'.failed, seen'.shut)
      BY Zenon, <2>2, <3>1 DEF RedundancyCall
    <3>3. /\ seen' \in [failed : SUBSET Links, shut : SUBSET Links]
          /\ seen.failed \subseteq seen'.failed /\ seen.shut \subseteq seen'.shut
      BY Zenon, <3>1 DEF RedundancyInv
    <3>4. seen'.shut = Links \/ k.pc \in {"close", "shut"}
      BY Zenon, <3>2
    <3> HIDE DEF k
    <3> QED
      BY Zenon, <2>1, <3>1, <3>2, <3>3, <3>4, RedundancyCallsKeep DEF RedundancyInv
  <2>3. ASSUME NEW x \in Links, calls[c] = [pc |-> "shut", left |-> <<x>>], Links \subseteq seen.shut \cup {x}
        PROVE  RedundancyInv'
    <3> DEFINE k == Idle
    <3>1. goes(c, k) /\ seen' = [failed |-> seen.failed, shut |-> seen.shut \cup {x}]
      BY <2>1, <2>3
    <3>2. seen'.shut = Links /\ RedundancyCall(k, seen'.failed, seen'.shut)
      BY SMTT(30), <2>3, <3>1 DEF RedundancyInv, RedundancyCall
    <3>3. /\ seen' \in [failed : SUBSET Links, shut : SUBSET Links]
          /\ seen.failed \subseteq seen'.failed /\ seen.shut \subseteq seen'.shut
      BY Zenon, <3>1 DEF RedundancyInv
    <3>4. seen'.shut = Links \/ k.pc \in {"close", "shut"}
      BY Zenon, <3>2
    <3> HIDE DEF k
    <3> QED
      BY Zenon, <2>1, <3>1, <3>2, <3>3, <3>4, RedundancyCallsKeep DEF RedundancyInv
  <2>4. calls[c].pc = "shut"
    BY <1>6 DEF CloseLink, at
  <2>5. \/ \E x, y \in Links : calls[c] = [pc |-> "shut", left |-> <<x, y>>] /\ Links = {x, y}
        \/ \E x \in Links : calls[c] = [pc |-> "shut", left |-> <<x>>] /\ Links \subseteq seen.shut \cup {x}
    BY Zenon, <1>a, <2>4, RedundancyShut
  <2> QED
    BY Zenon, <2>2, <2>3, <2>5
<1> QED
  BY <1>1, <1>2, <1>3, <1>4, <1>5, <1>6

-----------------------------------------------------------------------------
(* ratelimit. *)
(* A bucket has handed out no more than it started with and was brought    *)
(* since; what it still holds counts too.                                  *)
RateLimitInv ==
  /\ st = [buckets |-> st.buckets, closed |-> st.closed, now |-> st.now]
  /\ st.now \in Nat
  /\ calls \in [Callers -> {Idle, forward} \cup [pc : {"take"}, addr : Addrs]]
  /\ seen \in [Addrs -> [admitted : Nat, since : Nat]]
  /\ st.buckets = [a \in DOMAIN st.buckets |-> st.buckets[a]]
  /\ \A a \in Addrs :
       IF a \in DOMAIN st.buckets
         THEN /\ st.buckets[a] \in [tokens : Nat, last : Nat]
              /\ seen[a].since <= st.buckets[a].last /\ st.buckets[a].last <= st.now
              /\ st.buckets[a].tokens + seen[a].admitted * Scale
                   <= Burst * Scale + Rate * (st.buckets[a].last - seen[a].since)
         ELSE seen[a].admitted = 0 /\ seen[a].since = 0

LEMMA Distributes == \A r, x, y, z \in Int : r * (x - y) + r * (y - z) = r * (x - z)
OBVIOUS

LEMMA Commutes == \A x, y \in Int : x * y = y * x
OBVIOUS

LEMMA ProductIsNat == \A x, y \in Nat : x * y \in Nat
OBVIOUS

(* Refilling keeps the books: what comes in is what the rate brought. *)
LEMMA RefillKeeps ==
  ASSUME NEW tokens \in Nat, NEW last \in Nat, NEW now \in Nat, NEW since \in Nat, NEW out \in Nat,
         since <= last, last <= now,
         tokens + out <= Burst * Scale + Rate * (last - since)
  PROVE  /\ tokens + (now - last) * Rate \in Nat
         /\ tokens + (now - last) * Rate + out <= Burst * Scale + Rate * (now - since)
<1>1. Rate * (now - last) + Rate * (last - since) = Rate * (now - since)
  BY RateLimitAssumption, Distributes
<1>2. (now - last) * Rate = Rate * (now - last)
  BY RateLimitAssumption, Commutes
<1>3. Rate * (now - last) \in Nat
  BY RateLimitAssumption, ProductIsNat
<1> DEFINE p == Rate * (now - last)  q == Rate * (last - since)  r == Rate * (now - since)  b == Burst * Scale
<1>4. p \in Int /\ q \in Int /\ r \in Int /\ b \in Int
  BY RateLimitAssumption
<1> HIDE DEF p, q, r, b
<1>5. p + q = r /\ (now - last) * Rate = p /\ p \in Nat /\ tokens + out <= b + q
  BY <1>1, <1>2, <1>3 DEF p, q, r, b
<1>6. tokens + p + out <= b + r
  BY <1>4, <1>5
<1> QED
  BY <1>5, <1>6 DEF r, b

LEMMA TakeKeeps ==
  ASSUME RateLimitInv, NEW c \in Callers, RequestTake(c)
  PROVE  RateLimitInv'
<1> DEFINE addr == calls[c].addr
           first == addr \notin DOMAIN st.buckets
           b == refilled(bucket(addr))
           ok == b.tokens >= Scale
           full == Burst * Scale
           left == IF ok THEN b.tokens - Scale ELSE b.tokens
           out == seen[addr].admitted * Scale
           since == IF first THEN st.now ELSE seen[addr].since
<1>1. calls[c].pc = "take" /\ calls[c] \in [pc : {"take"}, addr : Addrs]
  BY SMTT(30) DEF RateLimitInv, RequestTake, at, Idle, forward
<1>2. addr \in Addrs
  BY <1>1
<1>3. full \in Nat /\ Rate \in Nat /\ Scale \in Nat /\ st.now \in Nat
  BY Zenon, RateLimitAssumption, ProductIsNat DEF RateLimitInv
<1>4. seen[addr].admitted \in Nat /\ seen[addr].since \in Nat /\ out \in Nat
  BY Zenon, <1>2, <1>3, ProductIsNat DEF RateLimitInv
<1>5. bucket(addr) \in [tokens : Nat, last : Nat] /\ since \in Nat
  BY Zenon, <1>2, <1>3, <1>4 DEF bucket, RateLimitInv
<1>6. /\ since <= bucket(addr).last /\ bucket(addr).last <= st.now
      /\ bucket(addr).tokens + out <= full + Rate * (bucket(addr).last - since)
  <2>1. CASE first
    <3>1. bucket(addr) = [tokens |-> full, last |-> st.now] /\ since = st.now /\ seen[addr].admitted = 0
      BY Zenon, <1>2, <2>1 DEF bucket, RateLimitInv
    <3>2. out = 0 /\ Rate * (st.now - st.now) = 0
      <4>1. out = 0 * Scale
        BY Zenon, <3>1
      <4>2. 0 * Scale = 0
        BY Z3, <1>3
      <4>3. st.now - st.now = 0 /\ Rate * 0 = 0
        BY Z3, <1>3
      <4> QED
        BY Zenon, <4>1, <4>2, <4>3
    <3> QED
      BY SMTT(30), <1>3, <3>1, <3>2
  <2>2. CASE ~first
    BY Zenon, <1>2, <2>2 DEF bucket, RateLimitInv
  <2> QED
    BY Zenon, <2>1, <2>2
<1> HIDE DEF since, out, full
<1> DEFINE more == bucket(addr).tokens + (st.now - bucket(addr).last) * Rate
<1>7. more \in Nat /\ more + out <= full + Rate * (st.now - since)
  BY Zenon, <1>3, <1>4, <1>5, <1>6, RefillKeeps DEF full
<1>8. b = [tokens |-> IF more > full THEN full ELSE more, last |-> st.now]
  BY Zenon DEF refilled, full
<1> HIDE DEF more
<1>9. b.tokens \in Nat /\ b.tokens + out <= full + Rate * (st.now - since) /\ b.last = st.now
  BY SMTT(30), <1>3, <1>4, <1>5, <1>7, <1>8
<1> HIDE DEF b
<1>10. seen'[addr].admitted * Scale = IF ok THEN out + Scale ELSE out
  <2>1. seen'[addr].admitted = IF ok THEN seen[addr].admitted + 1 ELSE seen[addr].admitted
    BY <1>2 DEF RequestTake, take, RateLimitInv, b
  <2>2. (seen[addr].admitted + 1) * Scale = seen[addr].admitted * Scale + Scale
    BY <1>3, <1>4
  <2> QED
    BY Zenon, <2>1, <2>2 DEF out
<1>11. /\ seen' = [seen EXCEPT ![addr] = [admitted |-> IF ok THEN @.admitted + 1 ELSE @.admitted, since |-> since]]
       /\ st' = [st EXCEPT !.buckets = [a \in DOMAIN st.buckets \cup {addr} |->
                   IF a = addr THEN [b EXCEPT !.tokens = left] ELSE st.buckets[a]]]
       /\ calls' = [calls EXCEPT ![c] = IF ok THEN forward ELSE Idle]
  BY DEF RequestTake, take, goes, b, since
<1>12. left \in Nat /\ left + (IF ok THEN out + Scale ELSE out) <= full + Rate * (st.now - since) /\ Rate * (st.now - since) \in Int
  BY SMTT(30), <1>3, <1>4, <1>5, <1>9
<1> DEFINE new == [b EXCEPT !.tokens = left]
<1>13. new = [tokens |-> left, last |-> st.now]
  BY <1>8 DEF b
<1>14. /\ st' = [buckets |-> st'.buckets, closed |-> st.closed, now |-> st.now]
       /\ st'.buckets = [a \in DOMAIN st.buckets \cup {addr} |-> IF a = addr THEN new ELSE st.buckets[a]]
  BY Zenon, <1>11 DEF RateLimitInv
<1> HIDE DEF left, new
<1>15. calls' \in [Callers -> {Idle, forward} \cup [pc : {"take"}, addr : Addrs]]
  BY <1>11 DEF RateLimitInv
<1>16. seen' \in [Addrs -> [admitted : Nat, since : Nat]] /\ seen'[addr].since = since
  BY <1>2, <1>4, <1>5, <1>11 DEF RateLimitInv
<1>17. ASSUME NEW a \in Addrs
       PROVE  IF a \in DOMAIN st'.buckets
         THEN /\ st'.buckets[a] \in [tokens : Nat, last : Nat]
              /\ seen'[a].since <= st'.buckets[a].last /\ st'.buckets[a].last <= st'.now
              /\ st'.buckets[a].tokens + seen'[a].admitted * Scale
                   <= Burst * Scale + Rate * (st'.buckets[a].last - seen'[a].since)
         ELSE seen'[a].admitted = 0 /\ seen'[a].since = 0
  <2>1. CASE a = addr
    <3>1. a \in DOMAIN st'.buckets /\ st'.buckets[a] = [tokens |-> left, last |-> st.now] /\ st'.now = st.now
      BY <1>13, <1>14, <2>1
    <3>2. since <= st.now
      BY <1>3, <1>5, <1>6
    <3> QED
      BY SMTT(30), <3>1, <3>2, <1>3, <1>10, <1>12, <1>16, <2>1 DEF full
  <2>2. CASE a # addr
    <3>1. /\ a \in DOMAIN st'.buckets <=> a \in DOMAIN st.buckets
          /\ a \in DOMAIN st.buckets => st'.buckets[a] = st.buckets[a]
          /\ seen'[a] = seen[a] /\ st'.now = st.now
      BY <1>2, <1>11, <1>14, <2>2 DEF RateLimitInv
    <3> QED
      BY Zenon, <3>1 DEF RateLimitInv
  <2> QED
    BY Zenon, <2>1, <2>2
<1>18. st' = [buckets |-> st'.buckets, closed |-> st'.closed, now |-> st'.now] /\ st'.now \in Nat
  BY <1>3, <1>14
<1>19. st'.buckets = [a \in DOMAIN st'.buckets |-> st'.buckets[a]]
  BY Zenon, <1>14
<1> QED
  BY Zenon, <1>15, <1>16, <1>17, <1>18, <1>19 DEF RateLimitInv

LEMMA RateLimitInitial == RateLimitInit => RateLimitInv
BY SMTT(30) DEF RateLimitInit, RateLimitInv, CallsInit

LEMMA RateLimitStep == RateLimitInv /\ RateLimitNext => RateLimitInv'
<1> SUFFICES ASSUME RateLimitInv, RateLimitNext PROVE RateLimitInv'
  OBVIOUS
<1>1. ASSUME NEW c \in Callers, RateLimitRequestForward(c) PROVE RateLimitInv'
  BY Zenon, <1>1 DEF RateLimitRequestForward, RateLimitInv, returns, goes
<1>2. ASSUME NEW c \in Callers, NEW a \in Addrs, NEW k \in BOOLEAN, RateLimitRequestBegin(c, a, k) PROVE RateLimitInv'
  BY Zenon, <1>2 DEF RateLimitRequestBegin, RateLimitInv, goes
<1>3. CASE RateLimitTick
  BY <1>3 DEF RateLimitTick, RateLimitInv
<1>4. CASE RateLimitClose
  BY Zenon, <1>4 DEF RateLimitClose, RateLimitInv
<1> QED
  BY <1>1, <1>2, <1>3, <1>4, TakeKeeps DEF RateLimitNext

LEMMA RateLimitSound == RateLimitInv => AdmittedWithinRate
<1> SUFFICES ASSUME RateLimitInv, NEW a \in Addrs
             PROVE  seen[a].admitted * Scale <= Burst * Scale + Rate * (st.now - seen[a].since)
  BY Zenon DEF AdmittedWithinRate
<1>1. st.now \in Nat /\ seen[a].admitted \in Nat /\ seen[a].since \in Nat
  BY Zenon DEF RateLimitInv
<1>2. Burst * Scale \in Nat /\ seen[a].admitted * Scale \in Nat
  BY <1>1, RateLimitAssumption, ProductIsNat
<1>3. CASE a \notin DOMAIN st.buckets
  <2>1. seen[a].admitted = 0 /\ seen[a].since = 0
    BY Zenon, <1>3 DEF RateLimitInv
  <2>2. seen[a].admitted * Scale = 0 /\ Rate * (st.now - seen[a].since) \in Nat
    BY <1>1, <2>1, RateLimitAssumption, ProductIsNat
  <2> QED
    BY <1>2, <2>2
<1>4. CASE a \in DOMAIN st.buckets
  <2> DEFINE b == st.buckets[a]
  <2>1. /\ b.tokens \in Nat /\ b.last \in Nat /\ seen[a].since <= b.last /\ b.last <= st.now
        /\ b.tokens + seen[a].admitted * Scale <= Burst * Scale + Rate * (b.last - seen[a].since)
    BY Zenon, <1>4 DEF RateLimitInv
  <2>2. /\ b.tokens + (st.now - b.last) * Rate \in Nat
        /\ b.tokens + (st.now - b.last) * Rate + seen[a].admitted * Scale
             <= Burst * Scale + Rate * (st.now - seen[a].since)
    BY Zenon, <1>1, <1>2, <2>1, RefillKeeps
  <2>3. Rate * (st.now - seen[a].since) \in Int
    BY <1>1, RateLimitAssumption
  <2> QED
    BY SMTT(30), <1>2, <2>2, <2>3
<1> QED
  BY Zenon, <1>3, <1>4

-----------------------------------------------------------------------------
(* prioqueue. *)
(* No item in the queue came before, at the same or a better priority,     *)
(* than one that was handed out.                                           *)
PrioItem == [kind : RequestKinds, seq : Nat]
Behind(x, y) == y.seq < x.seq => Priority[x.kind] < Priority[y.kind]

PrioQueueInv ==
  /\ st \in [h : SUBSET PrioItem, seq : Nat]
  /\ seen \in Seq(PrioItem)
  /\ \A x \in st.h : x.seq <= st.seq
  /\ \A i \in 1..Len(seen) : seen[i].seq <= st.seq
  /\ \A i \in 1..Len(seen) : \A y \in st.h : Behind(seen[i], y)
  /\ \A i, j \in 1..Len(seen) : i < j => Behind(seen[i], seen[j])

LEMMA PrioQueueInitial == PrioQueueInit => PrioQueueInv
BY SMTT(30) DEF PrioQueueInit, PrioQueueInv

LEMMA PrioQueueSound == PrioQueueInv => NoOvertaking
BY SMTT(30) DEF PrioQueueInv, NoOvertaking, Behind

(* An item that is popped leaves only items behind it. *)
LEMMA PoppedIsFirst ==
  ASSUME NEW h \in SUBSET PrioItem, NEW x \in heapPop(h), NEW y \in h
  PROVE  x \in h /\ Behind(x, y)
BY PrioQueueAssumption DEF heapPop, Less, Behind, PrioItem

LEMMA PrioQueueStep == PrioQueueInv /\ PrioQueueNext => PrioQueueInv'
<1> SUFFICES ASSUME PrioQueueInv, PrioQueueNext PROVE PrioQueueInv'
  OBVIOUS
<1>1. ASSUME NEW k \in RequestKinds \cup {Invalid}, Push(k) PROVE PrioQueueInv'
  <2> DEFINE x == [kind |-> k, seq |-> st.seq + 1]
  <2>1. st' = [h |-> st.h \cup {x}, seq |-> st.seq + 1] /\ seen' = seen /\ k \in RequestKinds
    BY Zenon, <1>1 DEF Push, validKind
  <2>2. x \in PrioItem
    BY SMTT(30), <2>1 DEF PrioQueueInv, PrioItem
  <2>3. \A i \in 1..Len(seen) : seen[i] \in PrioItem
    BY DEF PrioQueueInv
  <2>4. \A i \in 1..Len(seen) : Behind(seen[i], x)
    BY SMTT(30), <2>3 DEF PrioQueueInv, PrioItem, Behind
  <2> QED
    BY SMTT(30), <2>1, <2>2, <2>3, <2>4 DEF PrioQueueInv, PrioItem
<1>2. ASSUME NEW x \in heapPop(st.h), st' = [st EXCEPT !.h = @ \ {x}], seen' = Append(seen, x) PROVE PrioQueueInv'
  <2>1. x \in st.h /\ \A y \in st.h : Behind(x, y)
    BY Zenon, PoppedIsFirst DEF PrioQueueInv, heapPop
  <2>3. st' = [h |-> st.h \ {x}, seq |-> st.seq]
    BY Zenon, <1>2 DEF PrioQueueInv
  <2>4. /\ seen' \in Seq(PrioItem) /\ Len(seen') = Len(seen) + 1
        /\ \A i \in 1..Len(seen) : seen'[i] = seen[i]
        /\ seen'[Len(seen) + 1] = x
    BY <1>2, <2>1 DEF PrioQueueInv
  <2>5. st' \in [h : SUBSET PrioItem, seq : Nat] /\ \A y \in st'.h : y \in st.h /\ y.seq <= st'.seq
    BY <2>3 DEF PrioQueueInv
  <2>6. \A i \in 1..Len(seen') : seen'[i].seq <= st'.seq /\ \A y \in st'.h : Behind(seen'[i], y)
    BY SMTT(30), <2>1, <2>3, <2>4, <2>5 DEF PrioQueueInv
  <2>7. \A i, j \in 1..Len(seen') : i < j => Behind(seen'[i], seen'[j])
    BY SMTT(30), <2>1, <2>4 DEF PrioQueueInv
  <2> QED
    BY <2>4, <2>5, <2>6, <2>7 DEF PrioQueueInv
<1>3. ASSUME NEW n \in 1..st.seq, NEW out \in [1..n -> st.h],
             \A i \in DOMAIN out : out[i] \in heapPop({out[j] : j \in i..Len(out)}),
             seen' = seen \o out, st' = [st EXCEPT !.h = {}]
      PROVE  PrioQueueInv'
  <2>1. n \in Nat
    BY DEF PrioQueueInv
  <2>2. out \in Seq(st.h) /\ DOMAIN out = 1..Len(out)
    BY <2>1
  <2>3. \A i \in 1..Len(out) : out[i] \in st.h
    BY <2>2
  <2>4. ASSUME NEW i \in 1..Len(out), NEW j \in i..Len(out) PROVE Behind(out[i], out[j])
    <3> DEFINE h == {out[l] : l \in i..Len(out)}
    <3>1. out[i] \in heapPop(h)
      BY Zenon, <1>3, <2>2
    <3>2. out[j] \in h
      OBVIOUS
    <3>3. st.h \in SUBSET PrioItem
      BY Zenon DEF PrioQueueInv
    <3>4. h \subseteq st.h
      BY <2>2, <2>3
    <3> HIDE DEF h
    <3> QED
      BY Zenon, <3>1, <3>2, <3>3, <3>4, PoppedIsFirst
  <2>5. /\ seen' \in Seq(PrioItem) /\ Len(seen') = Len(seen) + Len(out)
        /\ \A i \in 1..Len(seen) : seen'[i] = seen[i]
        /\ \A i \in Len(seen) + 1..Len(seen') : i - Len(seen) \in 1..Len(out) /\ seen'[i] = out[i - Len(seen)]
    BY <1>3, <2>2, <2>3 DEF PrioQueueInv
  <2>6. st' = [h |-> {}, seq |-> st.seq]
    BY Zenon, <1>3 DEF PrioQueueInv
  <2>9. Len(seen) \in Nat /\ Len(out) \in Nat /\ Len(seen') = Len(seen) + Len(out)
    BY SMTT(30), <2>2, <2>5 DEF PrioQueueInv
  <2>10. \A i \in 1..Len(seen') : i \in 1..Len(seen) \/ i \in Len(seen) + 1..Len(seen')
    BY <2>9
  <2>7. \A i \in 1..Len(seen') : seen'[i].seq <= st.seq
    <3> SUFFICES ASSUME NEW i \in 1..Len(seen') PROVE seen'[i].seq <= st.seq
      OBVIOUS
    <3>1. CASE i \in 1..Len(seen)
      BY Zenon, <2>5, <3>1 DEF PrioQueueInv
    <3>2. CASE i \in Len(seen) + 1..Len(seen')
      BY Zenon, <2>3, <2>5, <3>2 DEF PrioQueueInv
    <3> QED
      BY Zenon, <2>10, <3>1, <3>2
  <2>8. ASSUME NEW i \in 1..Len(seen'), NEW j \in 1..Len(seen'), i < j PROVE Behind(seen'[i], seen'[j])
    <3>1. CASE j <= Len(seen)
      <4>1. i \in 1..Len(seen) /\ j \in 1..Len(seen)
        BY <2>8, <2>9, <3>1
      <4> QED
        BY Zenon, <2>5, <2>8, <4>1 DEF PrioQueueInv
    <3>2. CASE i <= Len(seen) /\ j > Len(seen)
      <4>1. seen'[i] = seen[i] /\ seen'[j] \in st.h /\ i \in 1..Len(seen)
        <5>1. i \in 1..Len(seen) /\ j \in Len(seen) + 1..Len(seen')
          BY <2>9, <3>2
        <5> QED
          BY Zenon, <2>3, <2>5, <5>1
      <4> QED
        BY Zenon, <4>1 DEF PrioQueueInv
    <3>3. CASE i > Len(seen)
      <4>1. /\ seen'[i] = out[i - Len(seen)] /\ seen'[j] = out[j - Len(seen)]
            /\ i - Len(seen) \in 1..Len(out) /\ j - Len(seen) \in i - Len(seen)..Len(out)
        <5>1. i \in Len(seen) + 1..Len(seen') /\ j \in Len(seen) + 1..Len(seen')
          BY <2>9, <2>8, <3>3
        <5> QED
          BY <2>5, <2>8, <2>9, <5>1
      <4> QED
        BY Zenon, <2>4, <4>1
    <3> QED
      BY SMTT(30), <2>2, <2>8, <3>1, <3>2, <3>3 DEF PrioQueueInv
  <2> QED
    BY Zenon, <2>5, <2>6, <2>7, <2>8 DEF PrioQueueInv
<1> QED
  BY Zenon, <1>1, <1>2, <1>3 DEF PrioQueueNext, Pop, PopAll

-----------------------------------------------------------------------------
(* The packages together. *)
ClientsInv ==
  /\ kind \in {"loan", "browse", "zonegroup", "firmware", "deadline", "redundancy", "ratelimit", "prioqueue"}
  /\ kind = "loan" => LoanInv
  /\ kind = "browse" => BrowseInv
  /\ kind = "zonegroup" => ZoneGroupInv
  /\ kind = "firmware" => FirmwareInv
  /\ kind = "deadline" => DeadlineInv
  /\ kind = "redundancy" => RedundancyInv
  /\ kind = "ratelimit" => RateLimitInv
  /\ kind = "prioqueue" => PrioQueueInv

(* At every moment of every behaviour the clients' promises hold: a bucket *)
(* admits no more than its rate (RateLimiter), one failover per failure    *)
(* and a Close that shuts both links (redundancy.Controller), no buffer    *)
(* lent twice (loan), no overtaking (prioqueue), every member's own answer *)
(* (zonegroup.Broadcast), the whole image after a successful Update        *)
(* (firmware), the state of a stream (deadline) and a Query that only its  *)
(* own deadline ends (mdns).                                               *)
THEOREM ClientsAreSafe == ClientsSpec => []ClientsSafe
<1>1. ClientsInit => ClientsInv
  BY LoanInitial, BrowseInitial, ZoneGroupInitial, FirmwareInitial, DeadlineInitial, RedundancyInitial, RateLimitInitial, PrioQueueInitial DEF ClientsInit, ClientsInv
<1>2. ClientsInv /\ [ClientsNext]_vars => ClientsInv'
  <2> SUFFICES ASSUME ClientsInv, [ClientsNext]_vars PROVE ClientsInv'
    OBVIOUS
  <2>1. CASE kind = "loan" /\ LoanNext /\ UNCHANGED kind
    BY Zenon, <2>1, LoanStep DEF ClientsInv
  <2>2. CASE kind = "browse" /\ BrowseNext /\ UNCHANGED kind
    BY Zenon, <2>2, BrowseStep DEF ClientsInv
  <2>3. CASE kind = "zonegroup" /\ ZoneGroupNext /\ UNCHANGED kind
    BY Zenon, <2>3, ZoneGroupStep DEF ClientsInv
  <2>4. CASE kind = "firmware" /\ FirmwareNext /\ UNCHANGED kind
    BY Zenon, <2>4, FirmwareStep DEF ClientsInv
  <2>5. CASE kind = "deadline" /\ DeadlineNext /\ UNCHANGED kind
    BY Zenon, <2>5, DeadlineStep DEF ClientsInv
  <2>6. CASE kind = "redundancy" /\ RedundancyNext /\ UNCHANGED kind
    BY Zenon, <2>6, RedundancyStep DEF ClientsInv
  <2>7. CASE kind = "ratelimit" /\ RateLimitNext /\ UNCHANGED kind
    BY Zenon, <2>7, RateLimitStep DEF ClientsInv
  <2>8. CASE kind = "prioqueue" /\ PrioQueueNext /\ UNCHANGED kind
    BY Zenon, <2>8, PrioQueueStep DEF ClientsInv
  <2>9. CASE UNCHANGED vars
    <3>1. kind' = kind /\ st' = st /\ calls' = calls /\ seen' = seen
      BY <2>9 DEF vars
    <3>2. LoanInv => LoanInv'
      BY SMTT(30), <3>1 DEF LoanInv, LoanShape, LoanApart, LoanTable, TableIsExact, Made, holders
    <3>3. BrowseInv => BrowseInv'
      BY Zenon, <3>1 DEF BrowseInv, BrowseShape, BrowseWaits, DeadlineIsOwn, BrowseUnbroken
    <3>4. ZoneGroupInv => ZoneGroupInv'
      BY <3>1 DEF ZoneGroupInv
    <3>5. FirmwareInv => FirmwareInv'
      BY Zenon, <3>1 DEF FirmwareInv
    <3>6. DeadlineInv => DeadlineInv'
      BY Zenon, <3>1 DEF DeadlineInv
    <3>7. RedundancyInv => RedundancyInv'
      BY Zenon, <3>1 DEF RedundancyInv
    <3>8. RateLimitInv => RateLimitInv'
      BY Zenon, <3>1 DEF RateLimitInv
    <3>9. PrioQueueInv => PrioQueueInv'
      BY Zenon, <3>1 DEF PrioQueueInv
    <3> QED
      BY Zenon, <3>1, <3>2, <3>3, <3>4, <3>5, <3>6, <3>7, <3>8, <3>9 DEF ClientsInv
  <2> QED
    BY <2>1, <2>2, <2>3, <2>4, <2>5, <2>6, <2>7, <2>8, <2>9 DEF ClientsNext
<1>3. ClientsInv => ClientsSafe
  BY LoanSound, BrowseSound, ZoneGroupSound, FirmwareSound, DeadlineSound, RedundancySound, RateLimitSound, PrioQueueSound DEF ClientsInv, ClientsSafe
<1> QED
  BY <1>1, <1>2, <1>3, PTL DEF ClientsSpec

(* What Loan gives out is lent to nobody else, and is not what a pooled    *)
(* slot points to, whatever Return and RequestLoaned do meanwhile.         *)
THEOREM LoansAreExclusive == ClientsSpec => [](kind = "loan" => NoSharedBuffer)
<1>1. ClientsSafe => (kind = "loan" => NoSharedBuffer)
  BY Zenon DEF ClientsSafe
<1> QED
  BY <1>1, ClientsAreSafe, PTL

(* Until Close the table loaned holds exactly the buffers on loan.         *)
THEOREM LoansAreTracked == ClientsSpec => [](kind = "loan" => TableIsExact)
<1>1. ClientsSafe => (kind = "loan" => TableIsExact)
  BY Zenon DEF ClientsSafe
<1> QED
  BY <1>1, ClientsAreSafe, PTL
=============================================================================
