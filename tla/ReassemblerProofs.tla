------------------------- MODULE ReassemblerProofs -------------------------
(***************************************************************************)
(* Proofs about Reassembler, for any senders, messages, segment sizes,     *)
(* bounds and callers.                                                     *)
(***************************************************************************)
EXTENDS Reassembler, FiniteSetTheorems, TLAPS

LEMMA SegmentType ==
  ASSUME NEW m \in Plain \cup {Protect(g) : g \in Guarded}, NEW s \in Range(Split(m))
  PROVE  /\ s.key \in Key /\ s.hdr \in Header
         /\ s.more \in BOOLEAN /\ s.num \in Nat
<1>1. m.key \in Key /\ m.hdr \in Header /\ m.size \in Nat
  BY Zenon, ReassemblerAssumption DEF Message, Protect
<1> DEFINE n == (Len(m.body) + MaxBody - 1) \div MaxBody
<1>2. CASE Len(m.body) <= MaxBody
  <2>1. Split(m) = <<segment(m, FALSE, m.size, m.body)>>
    BY Zenon, <1>2 DEF Split
  <2>2. PICK i \in DOMAIN Split(m) : s = Split(m)[i]
    BY DEF Range
  <2>3. i = 1
    BY <2>1, <2>2
  <2>4. s = segment(m, FALSE, m.size, m.body)
    BY <2>1, <2>2, <2>3
  <2> QED
    BY <1>1, <2>4 DEF segment
<1>3. CASE ~(Len(m.body) <= MaxBody)
  <2>1. PICK i \in 1..n : s = segment(m, i < n, IF i < n THEN i - 1 ELSE m.size,
                  SubSeq(m.body, (i - 1) * MaxBody + 1, Min({i * MaxBody, Len(m.body)})))
    BY Zenon, <1>3 DEF Split, Range
  <2> QED
    BY SMTT(30), <1>1, <2>1 DEF segment
<1> QED
  BY <1>2, <1>3

(* What a sender puts on the wire. *)
LEMMA SentType ==
  ASSUME NEW s \in Sent
  PROVE  /\ s.key \in Key /\ s.hdr \in Header
         /\ s.more \in BOOLEAN /\ s.num \in Nat /\ s.body \in Bodies
BY SegmentType DEF Sent, Bodies

LEMMA InitType == Init => TypeOK
BY ReassemblerAssumption DEF Init, TypeOK

Sequence == [hdr : Header, size : Nat, bodies : Seq(Bodies), ready : BOOLEAN, updated : 0..now]

LEMMA StoreType ==
  ASSUME TypeOK, NEW k \in Key, NEW q \in Sequence, Len(q.bodies) \in 1..MaxSegments,
         seqs' = store(k, q), now' = now
  PROVE  /\ DOMAIN seqs' \subseteq Key
         /\ \A j \in DOMAIN seqs' : /\ seqs'[j] \in Sequence
                                    /\ Len(seqs'[j].bodies) \in 1..MaxSegments
BY DEF TypeOK, store, Sequence

LEMMA ForgetType ==
  ASSUME TypeOK, NEW k, seqs' = forget(k)
  PROVE  /\ DOMAIN seqs' \subseteq Key
         /\ \A j \in DOMAIN seqs' : /\ seqs'[j] \in Sequence
                                    /\ Len(seqs'[j].bodies) \in 1..MaxSegments
BY DEF TypeOK, forget, Sequence

LEMMA AddType ==
  ASSUME TypeOK, NEW w \in Workers, NEW s \in Sent, Add(w, s)
  PROVE  TypeOK'
<1>1. /\ s.key \in Key /\ s.hdr \in Header
      /\ s.more \in BOOLEAN /\ s.num \in Nat /\ s.body \in Bodies
  BY SentType
<1> DEFINE typed == /\ DOMAIN seqs' \subseteq Key
                    /\ \A j \in DOMAIN seqs' : /\ seqs'[j] \in Sequence
                                               /\ Len(seqs'[j].bodies) \in 1..MaxSegments
<1>2. UNCHANGED seqs => typed
  BY DEF TypeOK, Sequence
<1>3. typed
  <2>1. CASE AddNew(w, s)
    <3> DEFINE q == [hdr |-> s.hdr, size |-> IF s.more THEN 0 ELSE s.num,
                     bodies |-> <<s.body>>, ready |-> ~s.more, updated |-> now]
    <3>1. q \in Sequence /\ Len(q.bodies) \in 1..MaxSegments
      BY SMTT(30), <1>1, ReassemblerAssumption DEF TypeOK, Sequence
    <3>2. UNCHANGED seqs \/ seqs' = store(s.key, q)
      BY <2>1 DEF AddNew
    <3> QED
      BY Zenon, <1>1, <1>2, <3>1, <3>2, StoreType DEF Add
  <2>2. CASE AddForeign(w, s)
    BY <2>2, ForgetType DEF AddForeign
  <2>3. CASE AddToReady(w, s)
    BY <2>3, <1>2 DEF AddToReady
  <2>4. CASE AddMisplaced(w, s)
    BY SMTT(30), <2>4, <1>2, ForgetType DEF AddMisplaced
  <2>5. CASE AddNext(w, s)
    <3> DEFINE q == seqs[s.key]
               more == [q EXCEPT !.bodies = Append(@, s.body), !.updated = now]
               last == [more EXCEPT !.size = s.num, !.ready = TRUE]
    <3>1. q \in Sequence /\ Len(q.bodies) \in 1..MaxSegments /\ now \in 0..now
      BY <2>5 DEF AddNext, holds, TypeOK, Sequence
    <3>2. /\ Append(q.bodies, s.body) \in Seq(Bodies)
          /\ Len(Append(q.bodies, s.body)) = Len(q.bodies) + 1
      BY <1>1, <3>1 DEF Sequence
    <3>3. /\ more \in Sequence /\ more.bodies = Append(q.bodies, s.body)
          /\ last \in Sequence /\ last.bodies = Append(q.bodies, s.body)
      BY Zenon, <1>1, <3>1, <3>2 DEF Sequence
    <3>4. \/ seqs' = forget(s.key)
          \/ /\ fits(Len(q.bodies))
             /\ seqs' = store(s.key, more) \/ seqs' = store(s.key, last)
      BY <2>5 DEF AddNext
    <3>5. fits(Len(q.bodies)) => Len(q.bodies) + 1 \in 1..MaxSegments
      BY SMTT(30), <3>1, ReassemblerAssumption DEF fits
    <3> HIDE DEF q, more, last
    <3> QED
      BY SMTT(30), <1>1, <3>2, <3>3, <3>4, <3>5, StoreType, ForgetType DEF Add
  <2> QED
    BY <2>1, <2>2, <2>3, <2>4, <2>5 DEF Add
<1>4. told' = told \/ told' = [told EXCEPT ![w] = {s.key}]
  BY SMTT(30) DEF Add, AddNew, AddForeign, AddToReady, AddMisplaced, AddNext, tell
<1>5. /\ told' \in [Workers -> SUBSET Key]
      /\ \A v \in Workers : \A j, k \in told'[v] : j = k
  BY SMTT(30), <1>1, <1>4 DEF TypeOK
<1>6. now' = now /\ adds' \in 0..MaxAdds
  BY ReassemblerAssumption DEF Add, TypeOK
<1> HIDE DEF typed
<1> QED
  BY <1>3, <1>5, <1>6 DEF TypeOK, Sequence, typed

LEMMA FinishType ==
  ASSUME TypeOK, NEW w \in Workers, NEW k \in told[w], Finish(w, k) \/ FinishProtected(w, k)
  PROVE  TypeOK'
<1>1. seqs' = forget(k) \/ UNCHANGED seqs
  BY SMTT(30) DEF Finish, FinishProtected, take
<1>2. /\ DOMAIN seqs' \subseteq Key
      /\ \A j \in DOMAIN seqs' : /\ seqs'[j] \in Sequence
                                 /\ Len(seqs'[j].bodies) \in 1..MaxSegments
  BY SMTT(30), <1>1, ForgetType DEF TypeOK, Sequence
<1>3. now' = now /\ adds' = adds /\ told' = [told EXCEPT ![w] = {}]
  BY SMTT(30) DEF Finish, FinishProtected
<1> QED
  BY SMTT(30), <1>2, <1>3 DEF TypeOK, Sequence

LEMMA SweepType == ASSUME TypeOK, Sweep PROVE TypeOK'
BY SMTT(30) DEF Sweep, TypeOK

LEMMA ClockType == ASSUME TypeOK, ClockTick PROVE TypeOK'
<1>1. now' \in 0..MaxClock /\ 0..now \subseteq 0..now'
  BY ReassemblerAssumption DEF ClockTick, TypeOK
<1>2. \A k \in DOMAIN seqs : seqs[k] \in [hdr : Header, size : Nat, bodies : Seq(Bodies),
                                          ready : BOOLEAN, updated : 0..now']
  BY SMTT(30), <1>1 DEF TypeOK
<1> QED
  BY SMTT(30), <1>1, <1>2 DEF ClockTick, TypeOK

LEMMA NextType == ASSUME TypeOK, [Next]_vars PROVE TypeOK'
<1>1. CASE UNCHANGED vars
  BY <1>1 DEF vars, TypeOK
<1> QED
  BY <1>1, AddType, FinishType, SweepType, ClockType DEF Next

(* Sequences are typed and never longer than Config.MaxSegments, whatever  *)
(* the senders, the network and the callers do.                            *)
THEOREM TypeCorrect == Spec => []TypeOK
<1>1. Init => TypeOK
  BY InitType
<1>2. TypeOK /\ [Next]_vars => TypeOK'
  BY NextType
<1> QED
  BY <1>1, <1>2, PTL DEF Spec
-----------------------------------------------------------------------------
(* Every segment that a sequence holds is at the place its sender gave it. *)
placed(k, q) ==
  /\ \A i \in 1..Len(q.bodies) - 1 : isPiece(k, q.hdr, i, q.bodies[i])
  /\ IF q.ready THEN isEnd(k, q.hdr, q.size, Last(q.bodies))
     ELSE isPiece(k, q.hdr, Len(q.bodies), Last(q.bodies))

PlaceInv ==
  /\ TypeOK
  /\ \A k \in DOMAIN seqs : placed(k, seqs[k])
  /\ PiecesInPlace

LEMMA StorePlaced ==
  ASSUME NEW k, NEW q, \A j \in DOMAIN seqs : placed(j, seqs[j]), placed(k, q),
         seqs' = store(k, q)
  PROVE  \A j \in DOMAIN seqs' : placed(j, seqs'[j])
BY DEF store

LEMMA ForgetPlaced ==
  ASSUME NEW k, \A j \in DOMAIN seqs : placed(j, seqs[j]), seqs' = forget(k)
  PROVE  \A j \in DOMAIN seqs' : placed(j, seqs'[j])
BY DEF forget

LEMMA FirstPlaced ==
  ASSUME NEW s \in Sent, ~(s.more /\ s.num # 0), NEW q,
         q = [hdr |-> s.hdr, size |-> IF s.more THEN 0 ELSE s.num,
              bodies |-> <<s.body>>, ready |-> ~s.more, updated |-> now]
  PROVE  placed(s.key, q)
<1>1. s.more \in BOOLEAN
  BY SentType
<1>2. Len(q.bodies) = 1 /\ Last(q.bodies) = s.body /\ q.hdr = s.hdr
  BY DEF Last
<1>3. CASE s.more
  <2>0. q.ready = ~s.more
    OBVIOUS
  <2>1. s.num = 0 /\ ~q.ready
    BY <1>3, <2>0, Zenon
  <2>2. isPiece(s.key, s.hdr, 1, s.body)
    <3>1. s.num = 1 - 1
      BY <2>1
    <3> QED
      BY SMTT(30), <1>3, <3>1 DEF isPiece
  <2> QED
    BY <1>2, <2>1, <2>2 DEF placed
<1>4. CASE ~s.more
  <2>1. q.size = s.num /\ q.ready
    BY Zenon, <1>4
  <2>2. isEnd(s.key, s.hdr, s.num, s.body)
    BY <1>4 DEF isEnd
  <2> QED
    BY SMTT(30), <1>2, <2>1, <2>2 DEF placed
<1> QED
  BY <1>1, <1>3, <1>4

LEMMA NextPlaced ==
  ASSUME NEW s \in Sent, NEW q, NEW r, placed(s.key, q), ~q.ready,
         q.bodies \in Seq(Bodies), Len(q.bodies) > 0,
         headerMatches(q, s), inPlace(s, Len(q.bodies)),
         r.hdr = q.hdr, r.bodies = Append(q.bodies, s.body),
         r.ready = ~s.more, ~s.more => r.size = s.num
  PROVE  placed(s.key, r)
<1> DEFINE n == Len(q.bodies)
<1>1. s.more \in BOOLEAN /\ s.num \in Nat /\ s.body \in Bodies
  BY SMTT(30), SentType
<1>2. /\ Len(r.bodies) = n + 1 /\ Last(r.bodies) = s.body
      /\ \A i \in 1..n : r.bodies[i] = q.bodies[i]
  BY SMTT(30), <1>1 DEF Last
<1>3. \A i \in 1..n : isPiece(s.key, q.hdr, i, q.bodies[i])
  BY SMTT(30) DEF placed, Last
<1>4. \A i \in 1..Len(r.bodies) - 1 : isPiece(s.key, r.hdr, i, r.bodies[i])
  BY SMTT(30), <1>2, <1>3
<1>5. CASE s.more
  <2>1. isPiece(s.key, r.hdr, n + 1, s.body)
    BY SMTT(30), <1>5 DEF isPiece, headerMatches, inPlace
  <2> QED
    BY Zenon, <1>2, <1>4, <1>5, <2>1 DEF placed
<1>6. CASE ~s.more
  <2>1. isEnd(s.key, r.hdr, r.size, s.body)
    BY SMTT(30), <1>6 DEF isEnd, headerMatches
  <2> QED
    BY Zenon, <1>2, <1>4, <1>6, <2>1 DEF placed
<1> QED
  BY <1>1, <1>5, <1>6

LEMMA AddPlaced ==
  ASSUME PlaceInv, NEW w \in Workers, NEW s \in Sent, Add(w, s)
  PROVE  \A k \in DOMAIN seqs' : placed(k, seqs'[k])
<1>1. CASE AddNew(w, s)
  BY SMTT(30), <1>1, FirstPlaced, StorePlaced DEF AddNew, PlaceInv
<1>2. CASE AddForeign(w, s)
  BY SMTT(30), <1>2, ForgetPlaced DEF AddForeign, PlaceInv
<1>3. CASE AddToReady(w, s)
  BY SMTT(30), <1>3 DEF AddToReady, PlaceInv
<1>4. CASE AddMisplaced(w, s)
  BY SMTT(30), <1>4, ForgetPlaced DEF AddMisplaced, PlaceInv
<1>5. CASE AddNext(w, s)
  <2> DEFINE q == seqs[s.key]
             more == [q EXCEPT !.bodies = Append(@, s.body), !.updated = now]
             last == [more EXCEPT !.size = s.num, !.ready = TRUE]
  <2>1. q \in Sequence /\ Len(q.bodies) > 0 /\ placed(s.key, q)
    BY SMTT(30), <1>5 DEF AddNext, holds, PlaceInv, TypeOK, Sequence
  <2>2. ~q.ready /\ headerMatches(q, s) /\ inPlace(s, Len(q.bodies))
    BY SMTT(30), <1>5 DEF AddNext
  <2>3. /\ more.hdr = q.hdr /\ more.bodies = Append(q.bodies, s.body) /\ more.ready = q.ready
        /\ last.hdr = q.hdr /\ last.bodies = Append(q.bodies, s.body) /\ last.ready = TRUE
        /\ last.size = s.num
    BY SMTT(30), <2>1 DEF Sequence
  <2>4. \/ seqs' = forget(s.key)
        \/ s.more /\ seqs' = store(s.key, more)
        \/ ~s.more /\ seqs' = store(s.key, last)
    BY SMTT(30), <1>5 DEF AddNext
  <2>5. q.bodies \in Seq(Bodies) /\ s.more \in BOOLEAN /\ q.ready \in BOOLEAN
    BY SMTT(30), <2>1, SentType DEF Sequence
  <2> HIDE DEF q, more, last
  <2>6. CASE s.more /\ seqs' = store(s.key, more)
    <3>1. more.ready = ~s.more
      BY SMTT(30), <2>2, <2>3, <2>5, <2>6
    <3>2. placed(s.key, more)
      BY Zenon, <2>1, <2>2, <2>3, <2>5, <2>6, <3>1, NextPlaced
    <3> QED
      BY SMTT(30), <2>6, <3>2, StorePlaced DEF PlaceInv
  <2>7. CASE ~s.more /\ seqs' = store(s.key, last)
    <3>1. last.ready = ~s.more
      BY Zenon, <2>3, <2>5, <2>7
    <3>2. placed(s.key, last)
      BY SMTT(30), <2>1, <2>2, <2>3, <2>5, <2>7, <3>1, NextPlaced
    <3> QED
      BY SMTT(30), <2>7, <3>2, StorePlaced DEF PlaceInv
  <2> QED
    BY SMTT(30), <2>4, <2>6, <2>7, ForgetPlaced DEF PlaceInv
<1> QED
  BY SMTT(30), <1>1, <1>2, <1>3, <1>4, <1>5 DEF Add

LEMMA FinishPlaced ==
  ASSUME PlaceInv, NEW w \in Workers, NEW k \in told[w], Finish(w, k)
  PROVE  PiecesInPlace'
<1>1. CASE holds(k) /\ seqs[k].ready
  <2> DEFINE f == [key |-> k, hdr |-> seqs[k].hdr, flags |-> NoFlags,
                   size |-> seqs[k].size, bodies |-> seqs[k].bodies]
  <2>1. finished' = finished \cup {f}
    BY SMTT(30), <1>1 DEF Finish
  <2>2. /\ \A i \in 1..Len(f.bodies) - 1 : isPiece(f.key, f.hdr, i, f.bodies[i])
        /\ isEnd(f.key, f.hdr, f.size, Last(f.bodies))
    BY SMTT(30), <1>1 DEF PlaceInv, placed, holds
  <2> HIDE DEF f
  <2> QED
    BY SMTT(30), <2>1, <2>2 DEF PlaceInv, PiecesInPlace
<1>2. CASE ~(holds(k) /\ seqs[k].ready)
  BY SMTT(30), <1>2 DEF Finish, PlaceInv, PiecesInPlace
<1> QED
  BY <1>1, <1>2

LEMMA NextPlaceInv == ASSUME PlaceInv, [Next]_vars PROVE PlaceInv'
<1>1. TypeOK'
  BY NextType DEF PlaceInv
<1>2. ASSUME NEW w \in Workers, NEW s \in Sent, Add(w, s) PROVE PlaceInv'
  <2>1. PiecesInPlace'
    BY SMTT(30), <1>2 DEF Add, history, PlaceInv, PiecesInPlace
  <2> QED
    BY SMTT(30), <1>1, <1>2, <2>1, AddPlaced DEF PlaceInv
<1>3. ASSUME NEW w \in Workers, NEW k \in told[w], Finish(w, k) PROVE PlaceInv'
  <2>1. seqs' = forget(k) \/ UNCHANGED seqs
    BY SMTT(30), <1>3 DEF Finish, take
  <2> QED
    BY SMTT(30), <1>1, <1>3, <2>1, FinishPlaced, ForgetPlaced DEF PlaceInv
<1>4. ASSUME NEW w \in Workers, NEW k \in told[w], FinishProtected(w, k) PROVE PlaceInv'
  <2>1. seqs' = forget(k) \/ UNCHANGED seqs
    BY <1>4 DEF FinishProtected, take
  <2>2. PiecesInPlace'
    BY <1>4 DEF FinishProtected, PlaceInv, PiecesInPlace
  <2> QED
    BY SMTT(30), <1>1, <2>1, <2>2, ForgetPlaced DEF PlaceInv
<1>5. CASE Sweep
  BY SMTT(30), <1>1, <1>5 DEF Sweep, history, PlaceInv, PiecesInPlace
<1>6. CASE ClockTick \/ UNCHANGED vars
  BY SMTT(30), <1>1, <1>6 DEF ClockTick, vars, history, PlaceInv, PiecesInPlace
<1> QED
  BY SMTT(30), <1>2, <1>3, <1>4, <1>5, <1>6 DEF Next

(* For any senders, any loss, repetition and reordering, any interleaving  *)
(* of callers: what Gateway.Submit hands to the Dispatcher is made of      *)
(* segments at the places their senders gave them.                         *)
THEOREM SegmentsStayInPlace == Spec => []PiecesInPlace
<1>1. Init => PlaceInv
  <2>1. Init => TypeOK
    BY InitType
  <2> QED
    BY SMTT(30), <2>1 DEF Init, PlaceInv, PiecesInPlace
<1>2. PlaceInv /\ [Next]_vars => PlaceInv'
  BY NextPlaceInv
<1>3. PlaceInv => PiecesInPlace
  BY DEF PlaceInv
<1> QED
  BY <1>1, <1>2, <1>3, PTL DEF Spec
-----------------------------------------------------------------------------
(* The complete sequences the Reassembler holds. *)
readyKeys == {k \in DOMAIN seqs : seqs[k].ready}

CountInv ==
  /\ TypeOK
  /\ IsFiniteSet(readyKeys)
  /\ completed \in Nat /\ taken \in Nat /\ destroyed \in Nat
  /\ CompletedAccounted

(* One key more, or one less. *)
LEMMA ReadyCount ==
  ASSUME IsFiniteSet(readyKeys)
  PROVE  /\ Cardinality(readyKeys) \in Nat
         /\ \A k : k \notin readyKeys => /\ IsFiniteSet(readyKeys \cup {k})
                                         /\ Cardinality(readyKeys \cup {k}) = Cardinality(readyKeys) + 1
         /\ \A k : k \in readyKeys => /\ IsFiniteSet(readyKeys \ {k})
                                      /\ Cardinality(readyKeys \ {k}) = Cardinality(readyKeys) - 1
BY SMTT(30), FS_CardinalityType, FS_AddElement, FS_RemoveElement

(* The steps that change the complete sequences keep the account. *)
LEMMA CountStep ==
  ASSUME CountInv, TypeOK', NEW k,
         \/ /\ readyKeys' = readyKeys /\ completed' = completed
            /\ taken' = taken /\ destroyed' = destroyed
         \/ /\ k \notin readyKeys /\ readyKeys' = readyKeys \cup {k}
            /\ completed' = completed + 1 /\ taken' = taken /\ destroyed' = destroyed
         \/ /\ k \in readyKeys /\ readyKeys' = readyKeys \ {k} /\ completed' = completed
            /\ \/ taken' = taken + 1 /\ destroyed' = destroyed
               \/ taken' = taken /\ destroyed' = destroyed + 1
  PROVE  CountInv'
<1>1. /\ CompletedAccounted <=> completed = taken + destroyed + Cardinality(readyKeys)
      /\ CompletedAccounted' <=> completed' = taken' + destroyed' + Cardinality(readyKeys')
  BY SMTT(30) DEF CompletedAccounted, readyKeys
<1>2. /\ IsFiniteSet(readyKeys) /\ completed \in Nat /\ taken \in Nat /\ destroyed \in Nat
      /\ completed = taken + destroyed + Cardinality(readyKeys)
  BY SMTT(30), <1>1 DEF CountInv
<1>3. Cardinality(readyKeys) \in Nat
  BY SMTT(30), <1>2, ReadyCount
<1>4. /\ IsFiniteSet(readyKeys')
      /\ completed' \in Nat /\ taken' \in Nat /\ destroyed' \in Nat
      /\ completed' = taken' + destroyed' + Cardinality(readyKeys')
  BY SMTT(30), <1>2, <1>3, ReadyCount
<1> QED
  BY SMTT(30), <1>1, <1>4 DEF CountInv

LEMMA AddCount ==
  ASSUME CountInv, NEW w \in Workers, NEW s \in Sent, Add(w, s)
  PROVE  CountInv'
<1>1. TypeOK'
  BY AddType DEF CountInv
<1>2. /\ s.more \in BOOLEAN
      /\ \A k \in DOMAIN seqs : seqs[k].ready \in BOOLEAN
  BY SMTT(30), SentType DEF CountInv, TypeOK
<1>3. \/ readyKeys' = readyKeys /\ completed' = completed /\ destroyed' = destroyed
      \/ /\ s.key \notin readyKeys /\ readyKeys' = readyKeys \cup {s.key}
         /\ completed' = completed + 1 /\ destroyed' = destroyed
      \/ /\ s.key \in readyKeys /\ readyKeys' = readyKeys \ {s.key}
         /\ completed' = completed /\ destroyed' = destroyed + 1
  <2>1. CASE AddNew(w, s)
    <3> DEFINE q == [hdr |-> s.hdr, size |-> IF s.more THEN 0 ELSE s.num,
                     bodies |-> <<s.body>>, ready |-> ~s.more, updated |-> now]
    <3>1. s.key \notin DOMAIN seqs /\ destroyed' = destroyed
      BY SMTT(30), <2>1 DEF AddNew, holds
    <3>2. \/ UNCHANGED <<seqs, completed>>
          \/ s.more /\ seqs' = store(s.key, q) /\ completed' = completed
          \/ ~s.more /\ seqs' = store(s.key, q) /\ completed' = completed + 1
      BY SMTT(30), <2>1 DEF AddNew
    <3>3. q.ready = ~s.more
      BY SMTT(30)
    <3> HIDE DEF q
    <3>4. s.key \notin readyKeys
      BY SMTT(30), <3>1 DEF readyKeys
    <3>5. ASSUME seqs' = store(s.key, q)
          PROVE  readyKeys' = readyKeys \cup (IF q.ready THEN {s.key} ELSE {})
      BY SMTT(30), <3>1, <3>5 DEF store, readyKeys
    <3>6. CASE UNCHANGED <<seqs, completed>>
      BY SMTT(30), <3>1, <3>6 DEF readyKeys
    <3>7. CASE s.more /\ seqs' = store(s.key, q) /\ completed' = completed
      <4>1. ~q.ready
        BY <3>3, <3>7, Zenon
      <4> QED
        BY SMTT(30), <3>1, <3>5, <3>7, <4>1
    <3>8. CASE ~s.more /\ seqs' = store(s.key, q) /\ completed' = completed + 1
      <4>1. q.ready
        BY <3>3, <3>8, Zenon
      <4> QED
        BY SMTT(30), <3>1, <3>4, <3>5, <3>8, <4>1
    <3> QED
      BY SMTT(30), <3>2, <3>6, <3>7, <3>8
  <2>2. CASE AddForeign(w, s)
    BY SMTT(30), <1>2, <2>2 DEF AddForeign, holds, forget, readyKeys
  <2>3. CASE AddToReady(w, s)
    BY SMTT(30), <2>3 DEF AddToReady, readyKeys
  <2>4. CASE AddMisplaced(w, s)
    BY SMTT(30), <1>2, <2>4 DEF AddMisplaced, holds, forget, readyKeys
  <2>5. CASE AddNext(w, s)
    <3> DEFINE q == seqs[s.key]
               more == [q EXCEPT !.bodies = Append(@, s.body), !.updated = now]
               last == [more EXCEPT !.size = s.num, !.ready = TRUE]
    <3>1. s.key \in DOMAIN seqs /\ q \in Sequence /\ ~q.ready
      BY SMTT(30), <2>5 DEF AddNext, holds, CountInv, TypeOK, Sequence
    <3>2. more.ready = q.ready /\ last.ready = TRUE
      BY SMTT(30), <3>1 DEF Sequence
    <3>3. \/ /\ seqs' = forget(s.key) \/ seqs' = store(s.key, more)
             /\ completed' = completed
          \/ seqs' = store(s.key, last) /\ completed' = completed + 1
      BY SMTT(30), <2>5 DEF AddNext
    <3>4. destroyed' = destroyed
      BY SMTT(30), <2>5 DEF AddNext
    <3> HIDE DEF more, last
    <3> QED
      BY SMTT(30), <3>1, <3>2, <3>3, <3>4 DEF store, forget, readyKeys
  <2> QED
    BY SMTT(30), <2>1, <2>2, <2>3, <2>4, <2>5 DEF Add
<1>4. taken' = taken
  BY SMTT(30) DEF Add
<1> QED
  BY SMTT(30), <1>1, <1>3, <1>4, CountStep

LEMMA FinishCount ==
  ASSUME CountInv, NEW w \in Workers, NEW k \in told[w], Finish(w, k) \/ FinishProtected(w, k)
  PROVE  CountInv'
<1>1. TypeOK'
  BY SMTT(30), FinishType DEF CountInv
<1>2. \/ readyKeys' = readyKeys /\ taken' = taken
      \/ k \in readyKeys /\ readyKeys' = readyKeys \ {k} /\ taken' = taken + 1
  BY SMTT(30) DEF Finish, FinishProtected, holds, take, forget, readyKeys
<1>3. completed' = completed /\ destroyed' = destroyed
  BY SMTT(30) DEF Finish, FinishProtected
<1> QED
  BY SMTT(30), <1>1, <1>2, <1>3, CountStep

(* However many callers there are, every sequence that Add reported        *)
(* complete is taken once, still held, or destroyed by a foreign header.   *)
THEOREM NothingCompleteIsLost == Spec => []CompletedAccounted
<1>1. Init => CountInv
  <2> SUFFICES ASSUME Init PROVE CountInv
    BY SMTT(30)
  <2>1. readyKeys = {}
    BY SMTT(30) DEF Init, readyKeys
  <2>2. IsFiniteSet({}) /\ Cardinality({}) = 0
    BY SMTT(30), FS_EmptySet
  <2> QED
    BY SMTT(30), <2>1, <2>2, InitType DEF Init, CountInv, CompletedAccounted, readyKeys
<1>2. CountInv /\ [Next]_vars => CountInv'
  <2> SUFFICES ASSUME CountInv, [Next]_vars PROVE CountInv'
    OBVIOUS
  <2>1. TypeOK'
    BY SMTT(30), NextType DEF CountInv
  <2>2. CASE Sweep
    <3>1. readyKeys' = readyKeys
      BY SMTT(30), <2>2 DEF Sweep, purgeable, readyKeys
    <3> QED
      BY Zenon, <2>1, <2>2, <3>1 DEF Sweep, CountInv, CompletedAccounted, readyKeys
  <2>3. CASE ClockTick \/ UNCHANGED vars
    BY Zenon, <2>1, <2>3 DEF ClockTick, vars, CountInv, CompletedAccounted, readyKeys
  <2> QED
    BY SMTT(30), <2>2, <2>3, AddCount, FinishCount DEF Next
<1>3. CountInv => CompletedAccounted
  BY SMTT(30) DEF CountInv
<1> QED
  BY <1>1, <1>2, <1>3, PTL DEF Spec
=============================================================================
