---------------------------- MODULE Reassembler ----------------------------
(***************************************************************************)
(* The fragment package and the safe point of the e2e package: a sender    *)
(* protects and splits messages, the network loses, repeats and reorders   *)
(* the segments, and the callers of Gateway.Submit feed them to one        *)
(* Reassembler.  Every Reassembler method holds r.mu, but Add and Finish   *)
(* are two calls, so two callers interleave between them.                  *)
(***************************************************************************)
EXTENDS Integers, SequencesExt

CONSTANTS
  Key,         \* (stream, byte_bus_id, transaction_num), the Key of KeyOf
  Covered,     \* what writeCovered writes of a Key: of byte_bus_id, the low byte
  Header,      \* Kind, Timestamp and Control without FlagMoreSegments
  Flags,       \* EVT, HS, CS and MTV
  NoFlags,     \* their zero value
  Byte,        \* the bytes of a Body
  Zero,        \* the zero byte
  Plain,       \* the messages sent as they are
  Guarded,     \* the messages sent after Protect
  MaxBody,     \* Split's maxBody
  MaxSegments, \* Config.MaxSegments
  Timeout,     \* Config.Timeout
  Workers,     \* the goroutines that call the Reassembler
  MaxAdds,     \* bound: segments delivered
  MaxClock     \* bound: the clock

Message == [key : Key, hdr : Header, flags : Flags, size : Nat, body : Seq(Byte)]

CRCLen == 4

(* The checksum of Compute, taken to be free of collisions: the fields that *)
(* writeCovered writes.                                                     *)
Compute(key, hdr, size, body) == <<Covered[key], hdr, size, body>>

trailer(crc) == [i \in 1..CRCLen |-> <<i, crc>>]

padLenFor(n) == (4 - (n % 4)) % 4

Protect(m) ==
  [m EXCEPT !.body = @ \o [i \in 1..padLenFor(Len(@)) |-> Zero]
                       \o trailer(Compute(m.key, m.hdr, m.size, @))]

segment(m, more, num, body) ==
  [key |-> m.key, hdr |-> m.hdr, flags |-> m.flags, more |-> more,
   num |-> num, body |-> body]

(* Split: the segments of m in order.  The last one carries m's own        *)
(* ReadSizeOrSegment, the others their number.                             *)
Split(m) ==
  LET n == (Len(m.body) + MaxBody - 1) \div MaxBody
  IN  IF Len(m.body) <= MaxBody
        THEN <<segment(m, FALSE, m.size, m.body)>>
        ELSE [i \in 1..n |->
                segment(m, i < n, IF i < n THEN i - 1 ELSE m.size,
                  SubSeq(m.body, (i - 1) * MaxBody + 1, Min({i * MaxBody, Len(m.body)})))]

(* What the senders put on the wire. *)
Sent == UNION {Range(Split(m)) : m \in Plain \cup {Protect(g) : g \in Guarded}}

ASSUME ReassemblerAssumption ==
  /\ Plain \cup Guarded \subseteq Message /\ DOMAIN Covered = Key
  /\ NoFlags \in Flags /\ Zero \in Byte
  /\ MaxBody \in Nat \ {0} /\ MaxSegments \in Nat \ {0}
  /\ Timeout \in Nat /\ MaxAdds \in Nat /\ MaxClock \in Nat

VARIABLES
  seqs,      \* Reassembler.seqs
  now,       \* Reassembler.now()
  told,      \* for every worker, the keys whose sequence Add told it is complete
  adds,      \* bound: the number of Add calls so far
  finished,  \* history: what Finish returned
  verified,  \* history: what FinishProtected returned
  rejected,  \* history: the sequences FinishProtected rejected
  completed, \* history: the number of sequences that became ready
  taken,     \* history: the number of ready sequences a Finish removed
  destroyed  \* history: the number of ready sequences a foreign header removed

vars == <<seqs, now, told, adds, finished, verified, rejected, completed, taken, destroyed>>
history == <<finished, verified, rejected>>

Init ==
  /\ seqs = <<>>
  /\ now = 0
  /\ told = [w \in Workers |-> {}]
  /\ adds = 0
  /\ finished = {} /\ verified = {} /\ rejected = {}
  /\ completed = 0 /\ taken = 0 /\ destroyed = 0

holds(k) == k \in DOMAIN seqs
forget(k) == [j \in DOMAIN seqs \ {k} |-> seqs[j]]
store(k, q) == [j \in DOMAIN seqs \cup {k} |-> IF j = k THEN q ELSE seqs[j]]

(* sequence.headerMatches: the flags are not compared. *)
headerMatches(q, s) == s.hdr = q.hdr

(* Add told worker w that the sequence of key k is complete. *)
tell(w, k) == told' = [told EXCEPT ![w] = {k}]

(* A segment of an unknown key: a message of one segment is complete at     *)
(* once, the first of several is stored, and any other is an error.         *)
AddNew(w, s) ==
  LET q == [hdr |-> s.hdr, size |-> IF s.more THEN 0 ELSE s.num,
            bodies |-> <<s.body>>, ready |-> ~s.more, updated |-> now]
  IN  /\ ~holds(s.key)
      /\ IF s.more /\ s.num # 0
           THEN UNCHANGED <<seqs, told, completed>>
           ELSE /\ seqs' = store(s.key, q)
                /\ IF s.more THEN UNCHANGED <<told, completed>>
                   ELSE tell(w, s.key) /\ completed' = completed + 1
      /\ UNCHANGED destroyed

(* ErrHeaderMismatch: the sequence is abandoned, complete or not. *)
AddForeign(w, s) ==
  /\ holds(s.key) /\ ~headerMatches(seqs[s.key], s)
  /\ seqs' = forget(s.key)
  /\ destroyed' = IF seqs[s.key].ready THEN destroyed + 1 ELSE destroyed
  /\ UNCHANGED <<told, completed>>

(* A complete sequence accepts its last segment again and nothing else. *)
AddToReady(w, s) ==
  LET q == seqs[s.key]
  IN  /\ holds(s.key) /\ headerMatches(q, s) /\ q.ready
      /\ IF ~s.more /\ s.body = Last(q.bodies) /\ s.num = q.size
           THEN tell(w, s.key) ELSE UNCHANGED told
      /\ UNCHANGED <<seqs, completed, destroyed>>

(* A repeated or misplaced segment of an incomplete sequence: the segment  *)
(* accepted last may come again, any other is an error that abandons it.   *)
AddMisplaced(w, s) ==
  LET q    == seqs[s.key]
      next == Len(q.bodies)
  IN  /\ holds(s.key) /\ headerMatches(q, s) /\ ~q.ready
      /\ s.more /\ s.num # next
      /\ seqs' = IF s.num = next - 1 /\ s.body = q.bodies[next] THEN seqs
                 ELSE forget(s.key)
      /\ UNCHANGED <<told, completed, destroyed>>

fits(next) == next + 1 <= MaxSegments

(* Mutated form: the number of a segment is not compared with its place. *)
inPlace_Any(s, next) == TRUE

inPlace(s, next) == s.more => s.num = next

(* The next segment, or the last one, which carries no number. *)
AddNext(w, s) ==
  LET q    == seqs[s.key]
      next == Len(q.bodies)
      more == [q EXCEPT !.bodies = Append(@, s.body), !.updated = now]
  IN  /\ holds(s.key) /\ headerMatches(q, s) /\ ~q.ready
      /\ inPlace(s, next)
      /\ IF ~fits(next)
           THEN seqs' = forget(s.key) /\ UNCHANGED <<told, completed>>
         ELSE IF s.more
           THEN seqs' = store(s.key, more) /\ UNCHANGED <<told, completed>>
         ELSE /\ seqs' = store(s.key, [more EXCEPT !.size = s.num, !.ready = TRUE])
              /\ completed' = completed + 1
              /\ tell(w, s.key)
      /\ UNCHANGED destroyed

(* Reassembler.Add, the first half of Gateway.Submit. *)
Add(w, s) ==
  /\ told[w] = {}
  /\ adds < MaxAdds
  /\ adds' = adds + 1
  /\ \/ AddNew(w, s) \/ AddForeign(w, s) \/ AddToReady(w, s)
     \/ AddMisplaced(w, s) \/ AddNext(w, s)
  /\ UNCHANGED <<now, taken, history>>

(* The sequence of key k leaves through Finish or FinishProtected. *)
take(k) == seqs' = forget(k) /\ taken' = taken + 1

(* The second half of Gateway.Submit: Finish, then Dispatcher.Submit of the *)
(* combined message, whose flags are the zero value.  Another caller may    *)
(* have finished, destroyed or restarted the sequence since Add.            *)
Finish(w, k) ==
  /\ k \in told[w]
  /\ told' = [told EXCEPT ![w] = {}]
  /\ IF holds(k) /\ seqs[k].ready
       THEN /\ take(k)
            /\ finished' = finished \cup
                 {[key |-> k, hdr |-> seqs[k].hdr, flags |-> NoFlags,
                   size |-> seqs[k].size, bodies |-> seqs[k].bodies]}
       ELSE UNCHANGED <<seqs, finished, taken>>
  /\ UNCHANGED <<now, adds, verified, rejected, completed, destroyed>>

(* recoverProtected: the numbers of zero bytes before the trailer which,   *)
(* taken for padding, make the checksum agree.                             *)
padCandidates(k, q) ==
  LET last == Last(q.bodies)
      n    == Len(last) - CRCLen
      body(p) == FlattenSeq(Front(q.bodies)) \o SubSeq(last, 1, n - p)
  IN  {p \in 0..Min({3, n}) :
         /\ \A i \in n - p + 1..n : last[i] = Zero
         /\ SubSeq(last, n + 1, n + CRCLen) = trailer(Compute(k, q.hdr, q.size, body(p)))}

(* Mutated form: the trailer is stripped and not compared. *)
VerifyFragmented_Unchecked(k, q) ==
  LET all == FlattenSeq(q.bodies)
  IN  IF Len(Last(q.bodies)) < CRCLen THEN {}
      ELSE {[key |-> k, hdr |-> q.hdr, flags |-> NoFlags, size |-> q.size,
             body |-> SubSeq(all, 1, Len(all) - CRCLen)]}

(* VerifyFragmented: the message whose safe point the last segment holds,  *)
(* or none.                                                                *)
VerifyFragmented(k, q) ==
  LET all  == FlattenSeq(q.bodies)
      pads == padCandidates(k, q)
  IN  IF Len(Last(q.bodies)) < CRCLen \/ pads = {} THEN {}
      ELSE {[key |-> k, hdr |-> q.hdr, flags |-> NoFlags, size |-> q.size,
             body |-> SubSeq(all, 1, Len(all) - CRCLen - Min(pads))]}

FinishProtected(w, k) ==
  /\ k \in told[w]
  /\ told' = [told EXCEPT ![w] = {}]
  /\ IF holds(k) /\ seqs[k].ready
       THEN /\ take(k)
            /\ LET m == VerifyFragmented(k, seqs[k])
               IN  /\ verified' = verified \cup m
                   /\ rejected' = IF m = {} THEN rejected \cup {[key |-> k] @@ seqs[k]}
                                  ELSE rejected
       ELSE UNCHANGED <<seqs, verified, rejected, taken>>
  /\ UNCHANGED <<now, adds, finished, completed, destroyed>>

stale(k) == now - seqs[k].updated > Timeout

(* Mutated form: a complete sequence is purged like the others. *)
purgeable_Ready(k) == stale(k)

purgeable(k) == ~seqs[k].ready /\ stale(k)

Sweep ==
  /\ seqs' = [k \in {k \in DOMAIN seqs : ~purgeable(k)} |-> seqs[k]]
  /\ UNCHANGED <<now, told, adds, history, completed, taken, destroyed>>

ClockTick ==
  /\ now < MaxClock
  /\ now' = now + 1
  /\ UNCHANGED <<seqs, told, adds, history, completed, taken, destroyed>>

Next ==
  \/ \E w \in Workers, s \in Sent : Add(w, s)
  \/ \E w \in Workers : \E k \in told[w] : Finish(w, k) \/ FinishProtected(w, k)
  \/ Sweep
  \/ ClockTick

Spec == Init /\ [][Next]_vars

-----------------------------------------------------------------------------
Bodies == {s.body : s \in Sent}

(* A sequence holds at least one segment and at most MaxSegments, the bound *)
(* on memory that Add keeps.                                                *)
TypeOK ==
  /\ DOMAIN seqs \subseteq Key
  /\ \A k \in DOMAIN seqs :
       /\ seqs[k] \in [hdr : Header, size : Nat, bodies : Seq(Bodies),
                       ready : BOOLEAN, updated : 0..now]
       /\ Len(seqs[k].bodies) \in 1..MaxSegments
  /\ now \in 0..MaxClock /\ adds \in 0..MaxAdds
  /\ told \in [Workers -> SUBSET Key]
  /\ \A w \in Workers : \A j, k \in told[w] : j = k

(* A sender put body at place i, counted from 1, of a message of key k and *)
(* header hdr; or at its end.                                              *)
isPiece(k, hdr, i, body) ==
  \E s \in Sent : s.key = k /\ s.hdr = hdr /\ s.more /\ s.num = i - 1 /\ s.body = body

isEnd(k, hdr, size, body) ==
  \E s \in Sent : s.key = k /\ s.hdr = hdr /\ ~s.more /\ s.num = size /\ s.body = body

(* Whatever the network loses, repeats or reorders, and however the callers *)
(* of Gateway.Submit interleave, a message handed to the Dispatcher is made *)
(* of the segments a sender numbered 0, 1, 2... under that key and header,  *)
(* followed by a last segment of that key and header.                       *)
PiecesInPlace ==
  \A f \in finished :
    /\ \A i \in 1..Len(f.bodies) - 1 : isPiece(f.key, f.hdr, i, f.bodies[i])
    /\ isEnd(f.key, f.hdr, f.size, Last(f.bodies))

(* Every sequence that Add reported complete is handed to exactly one      *)
(* Finish, still held, or was destroyed by a segment with another header:  *)
(* Sweep never purges it, a repeated last segment never makes it two, and  *)
(* no new sequence overwrites it.                                          *)
CompletedAccounted ==
  completed = taken + destroyed + Cardinality({k \in DOMAIN seqs : seqs[k].ready})

(* What FinishProtected returns is a message that was protected and sent,  *)
(* never a mix or a part of one (up to the flags, which the checksum does  *)
(* not cover, and to collisions of the checksum).                          *)
ProtectedIsWhole ==
  \A v \in verified : \E g \in Guarded : v = [g EXCEPT !.flags = NoFlags]

(* FinishProtected never rejects a protected message whose segments all    *)
(* arrived.                                                                *)
NoFalseReject ==
  \A r \in rejected : \A g \in Guarded :
    ~ /\ r.key = g.key /\ r.hdr = g.hdr /\ r.size = g.size
      /\ r.bodies = [i \in 1..Len(Split(Protect(g))) |-> Split(Protect(g))[i].body]

(* Gateway.Submit hands an unfragmented message to the Dispatcher exactly  *)
(* as it was sent.                                                         *)
GatewayVerbatim ==
  \A f \in finished : Len(f.bodies) = 1 =>
    \E s \in Sent : /\ s.key = f.key /\ s.hdr = f.hdr /\ s.flags = f.flags
                    /\ s.num = f.size /\ s.body = f.bodies[1]
=============================================================================
