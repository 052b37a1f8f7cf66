--------------------------- MODULE HandlersProofs ---------------------------
(***************************************************************************)
(* Handlers keeps its promises, for every value of the constants: for each *)
(* package an inductive invariant, that it holds at first, that every step *)
(* keeps it and that it implies the package's property.                    *)
(***************************************************************************)
EXTENDS Handlers, WellFoundedInduction, TLAPS

(* What a call does to the table of calls. *)
LEMMA GoesOne ==
  ASSUME calls = [d \in Callers |-> calls[d]], NEW c \in Callers, NEW k, goes(c, k)
  PROVE  /\ calls' = [d \in Callers |-> calls'[d]]
         /\ calls'[c] = k /\ \A d \in Callers : d # c => calls'[d] = calls[d]
BY DEF goes

-----------------------------------------------------------------------------
(* record and faultinject. *)
(* record and faultinject: the entry of age i is where the head was i      *)
(* appends ago, and a rule in the list is one that may still fire.         *)
LogEntry == [req : Recorded, err : BOOLEAN]
FaultRule == [type : Faults, count : Int, fired : Nat, id : Nat]
RuleCount == [count : Int, fired : Nat]

RecordingCall(k) ==
  /\ k.pc \in {"idle", "pick", "inner", "record"}
  /\ k.pc \in {"pick", "inner"} => DOMAIN k = {"pc", "req"} /\ k.req \in Recorded
  /\ k.pc = "record" => k.req \in Recorded /\ k.err \in BOOLEAN

aged(head, i) == IF i <= head THEN head - i ELSE head - i + Ring

RingHolds(entries, head, count, log) ==
  /\ DOMAIN entries = 0..(Ring - 1) /\ head \in 0..(Ring - 1)
  /\ log \in Seq(LogEntry)
  /\ count = IF Len(log) < Ring THEN Len(log) ELSE Ring
  /\ \A i \in 1..count : entries[aged(head, i)] = log[Len(log) + 1 - i]

RulesHold(rules, counts) ==
  /\ rules \in Seq(FaultRule) /\ counts \in Seq(RuleCount)
  /\ \A i \in 1..Len(counts) : counts[i].count > 0 => counts[i].fired <= counts[i].count
  /\ \A j \in 1..Len(rules) :
       /\ rules[j].id \in 1..Len(counts)
       /\ counts[rules[j].id].count = rules[j].count /\ counts[rules[j].id].fired = rules[j].fired
       /\ rules[j].count > 0 => rules[j].fired < rules[j].count
  /\ \A i, j \in 1..Len(rules) : rules[i].id = rules[j].id => i = j

RecordingInv ==
  /\ DOMAIN st = {"entries", "head", "count", "rules", "closed"} /\ st.closed \in BOOLEAN
  /\ DOMAIN seen = {"log", "rules"}
  /\ calls = [c \in Callers |-> calls[c]] /\ \A c \in Callers : RecordingCall(calls[c])
  /\ RingHolds(st.entries, st.head, st.count, seen.log)
  /\ RulesHold(st.rules, seen.rules)

LEMMA RecordingInitial == RecordingInit => RecordingInv
<1> SUFFICES ASSUME RecordingInit PROVE RecordingInv
  OBVIOUS
<1>1. /\ DOMAIN st = {"entries", "head", "count", "rules", "closed"} /\ DOMAIN seen = {"log", "rules"}
      /\ st.closed = FALSE /\ st.head = 0 /\ st.count = 0 /\ st.rules = <<>> /\ seen.log = <<>> /\ seen.rules = <<>>
      /\ DOMAIN st.entries = 0..(Ring - 1)
  BY DEF RecordingInit
<1>2. RingHolds(st.entries, st.head, st.count, seen.log)
  BY <1>1, RecordingAssumption DEF RingHolds
<1>3. RulesHold(st.rules, seen.rules)
  BY <1>1 DEF RulesHold
<1>4. calls = [c \in Callers |-> calls[c]] /\ \A c \in Callers : RecordingCall(calls[c])
  BY DEF RecordingInit, CallsInit, RecordingCall, Idle
<1> QED
  BY Zenon, <1>1, <1>2, <1>3, <1>4 DEF RecordingInv

(* The arithmetic of the ring. *)
LEMMA RingAdvances ==
  ASSUME NEW head \in 0..(Ring - 1)
  PROVE  (head + 1) % Ring = IF head + 1 < Ring THEN head + 1 ELSE 0
BY RecordingAssumption

LEMMA RingStarts ==
  ASSUME NEW head \in 0..(Ring - 1), NEW count \in 0..Ring
  PROVE  (head - count + Ring) % Ring = IF head < count THEN head - count + Ring ELSE head - count
BY RecordingAssumption

LEMMA RingReads ==
  ASSUME NEW head \in 0..(Ring - 1), NEW count \in 0..Ring, NEW i \in 1..count, NEW start,
         start = IF head < count THEN head - count + Ring ELSE head - count
  PROVE  /\ (start + i - 1) % Ring = aged(head, count + 1 - i)
         /\ count + 1 - i \in 1..count
<1> DEFINE x == start + i - 1
<1>1. x \in 0..(2 * Ring - 1)
  BY RecordingAssumption
<1>2. x % Ring = IF x < Ring THEN x ELSE x - Ring
  <2> HIDE DEF x
  <2> QED
    BY <1>1, RecordingAssumption
<1>3. aged(head, count + 1 - i) = IF x < Ring THEN x ELSE x - Ring
  BY RecordingAssumption DEF aged
<1>4. count + 1 - i \in 1..count
  BY RecordingAssumption
<1> QED
  BY <1>2, <1>3, <1>4

LEMMA RingSize ==
  ASSUME NEW n \in Nat, NEW count, count = (IF n < Ring THEN n ELSE Ring), NEW m, m = (IF n > Ring THEN n - Ring ELSE 0)
  PROVE  count \in 0..Ring /\ count = n - m /\ m \in Nat /\ m <= n
BY RecordingAssumption

LEMMA SubSeqIs ==
  ASSUME NEW S, NEW s \in Seq(S), NEW m \in Nat, m <= Len(s)
  PROVE  SubSeq(s, m + 1, Len(s)) = [i \in 1..(Len(s) - m) |-> s[m + i]]
<1> DEFINE t == SubSeq(s, m + 1, Len(s))
<1>1. DOMAIN t = 1..(Len(s) - m) /\ \A i \in 1..(Len(s) - m) : t[i] = s[m + i]
  OBVIOUS
<1>2. t \in Seq(S)
  OBVIOUS
<1>3. t = [i \in 1..Len(t) |-> t[i]] /\ DOMAIN t = 1..Len(t)
  BY <1>2
<1> HIDE DEF t
<1>4. t = [i \in 1..(Len(s) - m) |-> s[m + i]]
  BY <1>1, <1>3
<1> QED
  BY <1>4 DEF t

LEMMA SnapshotSound ==
  ASSUME RingHolds(st.entries, st.head, st.count, seen.log)
  PROVE  SnapshotIsNewest
<1> DEFINE m == IF Len(seen.log) > Ring THEN Len(seen.log) - Ring ELSE 0
           start == (st.head - st.count + Ring) % Ring
<1>1. st.count \in 0..Ring /\ st.head \in 0..(Ring - 1) /\ st.count = Len(seen.log) - m /\ m \in Nat /\ m <= Len(seen.log)
  <2>1. /\ Len(seen.log) \in Nat /\ st.head \in 0..(Ring - 1)
        /\ st.count = IF Len(seen.log) < Ring THEN Len(seen.log) ELSE Ring
    BY DEF RingHolds
  <2> QED
    BY ZenonT(40), <2>1, RingSize
<1>2. start = IF st.head < st.count THEN st.head - st.count + Ring ELSE st.head - st.count
  BY <1>1, RingStarts
<1> HIDE DEF m, start
<1>3. \A i \in 1..st.count : st.entries[(start + i - 1) % Ring] = seen.log[m + i]
  <2> DEFINE es == st.entries  head == st.head  count == st.count  log == seen.log
  <2>1. RingHolds(es, head, count, log) /\ m \in Nat /\ count = Len(log) - m /\ m <= Len(log)
    BY <1>1
  <2>2. start = (IF head < count THEN head - count + Ring ELSE head - count)
    BY <1>2
  <2> HIDE DEF es, head, count, log
  <2>4. head \in 0..(Ring - 1) /\ count \in 0..Ring
    BY <1>1 DEF head, count
  <2>3. ASSUME NEW i \in 1..count
        PROVE  es[(start + i - 1) % Ring] = log[m + i]
    <3>1. (start + i - 1) % Ring = aged(head, count + 1 - i) /\ count + 1 - i \in 1..count
      BY <2>2, <2>4, RingReads
    <3>2. es[aged(head, count + 1 - i)] = log[Len(log) + 1 - (count + 1 - i)]
      BY <2>1, <3>1 DEF RingHolds
    <3>3. Len(log) + 1 - (count + 1 - i) = m + i
      <4>1. Len(log) \in Nat
        BY <2>1 DEF RingHolds
      <4> QED
        BY <2>1, <2>4, <4>1
    <3> QED
      BY <3>1, <3>2, <3>3
  <2> QED
    BY <2>3 DEF es, head, count, log
<1>4. SubSeq(seen.log, m + 1, Len(seen.log)) = [i \in 1..st.count |-> seen.log[m + i]]
  <2>1. SubSeq(seen.log, m + 1, Len(seen.log)) = [i \in 1..(Len(seen.log) - m) |-> seen.log[m + i]]
    BY ZenonT(40), <1>1, SubSeqIs DEF RingHolds
  <2> QED
    BY Zenon, <1>1, <2>1
<1>5. Snapshot = [i \in 1..st.count |-> st.entries[(start + i - 1) % Ring]]
  BY DEF Snapshot, start
<1> QED
  BY SMTT(30), <1>3, <1>4, <1>5 DEF SnapshotIsNewest, m

LEMMA RecordingSound == RecordingInv => RulesFireAsAsked /\ SnapshotIsNewest
<1> SUFFICES ASSUME RecordingInv PROVE RulesFireAsAsked
  BY SnapshotSound DEF RecordingInv
<1>1. RulesHold(st.rules, seen.rules)
  BY DEF RecordingInv
<1>2. DOMAIN seen.rules = 1..Len(seen.rules) /\ DOMAIN st.rules = 1..Len(st.rules)
  BY <1>1 DEF RulesHold
<1> QED
  BY SMTT(30), <1>1, <1>2 DEF RulesHold, RulesFireAsAsked

(* append, on the ring and on the whole log. *)
LEMMA RingAppends ==
  ASSUME NEW es, NEW head, NEW count, NEW log, RingHolds(es, head, count, log), NEW e \in LogEntry
  PROVE  RingHolds([es EXCEPT ![head] = e], (head + 1) % Ring, IF count < Ring THEN count + 1 ELSE count, Append(log, e))
<1> DEFINE n == Len(log)
           next == (head + 1) % Ring
           size == IF count < Ring THEN count + 1 ELSE count
           fs == [es EXCEPT ![head] = e]
<1>1. /\ n \in Nat /\ Ring \in Nat \ {0} /\ head \in 0..(Ring - 1) /\ count \in 0..Ring
      /\ count = IF n < Ring THEN n ELSE Ring
  BY RecordingAssumption DEF RingHolds
<1>2. next = (IF head + 1 < Ring THEN head + 1 ELSE 0) /\ next \in 0..(Ring - 1)
  <2>1. next = IF head + 1 < Ring THEN head + 1 ELSE 0
    BY <1>1, RingAdvances
  <2> HIDE DEF next
  <2> QED
    BY <1>1, <2>1
<1> HIDE DEF next
<1>3. /\ Append(log, e) \in Seq(LogEntry) /\ Len(Append(log, e)) = n + 1 /\ Append(log, e)[n + 1] = e
      /\ \A i \in 1..n : Append(log, e)[i] = log[i]
  BY DEF RingHolds
<1>4. DOMAIN fs = 0..(Ring - 1) /\ fs[head] = e /\ \A i \in 0..(Ring - 1) : i # head => fs[i] = es[i]
  BY <1>1 DEF RingHolds
<1>5. size = IF n + 1 < Ring THEN n + 1 ELSE Ring
  BY <1>1
<1>6. ASSUME NEW i \in 1..size PROVE fs[aged(next, i)] = Append(log, e)[n + 2 - i]
  <2>1. CASE i = 1
    <3>1. aged(next, i) = head /\ n + 2 - i = n + 1
      BY <1>1, <1>2, <2>1 DEF aged
    <3> HIDE DEF fs
    <3> QED
      BY <1>3, <1>4, <3>1
  <2>2. CASE i # 1
    <3> DEFINE j == i - 1
    <3>1. /\ j \in 1..count /\ aged(next, i) = aged(head, j) /\ aged(head, j) # head /\ aged(head, j) \in 0..(Ring - 1)
          /\ n + 2 - i = n + 1 - j /\ n + 1 - j \in 1..n
      BY <1>1, <1>2, <2>2 DEF aged
    <3>2. es[aged(head, j)] = log[n + 1 - j]
      BY SMTT(30), <3>1 DEF RingHolds
    <3> HIDE DEF fs, j
    <3> QED
      BY <1>3, <1>4, <3>1, <3>2
  <2> QED
    BY Zenon, <2>1, <2>2
<1> HIDE DEF fs, size
<1>7. RingHolds(fs, next, size, Append(log, e))
  BY <1>2, <1>3, <1>4, <1>5, <1>6 DEF RingHolds
<1> QED
  BY <1>7 DEF fs, size, next

(* AddRule. *)
LEMMA RuleAdded ==
  ASSUME NEW rules, NEW counts, RulesHold(rules, counts), NEW t \in Faults, NEW n \in Int
  PROVE  RulesHold(Append(rules, [type |-> t, count |-> n, fired |-> 0, id |-> Len(counts) + 1]),
                   Append(counts, [count |-> n, fired |-> 0]))
<1> DEFINE r == [type |-> t, count |-> n, fired |-> 0, id |-> Len(counts) + 1]
           x == [count |-> n, fired |-> 0]
           rs == Append(rules, r)
           cs == Append(counts, x)
<1>1. rules \in Seq(FaultRule) /\ counts \in Seq(RuleCount) /\ Len(rules) \in Nat /\ Len(counts) \in Nat
  BY DEF RulesHold
<1>2. r \in FaultRule /\ x \in RuleCount
  BY <1>1 DEF FaultRule, RuleCount
<1>3. r.id = Len(counts) + 1 /\ r.count = n /\ r.fired = 0 /\ x.count = n /\ x.fired = 0
  OBVIOUS
<1> HIDE DEF r, x
<1>4. /\ rs \in Seq(FaultRule) /\ Len(rs) = Len(rules) + 1 /\ rs[Len(rules) + 1] = r
      /\ \A j \in 1..Len(rules) : rs[j] = rules[j]
  BY <1>1, <1>2
<1>5. /\ cs \in Seq(RuleCount) /\ Len(cs) = Len(counts) + 1 /\ cs[Len(counts) + 1] = x
      /\ \A j \in 1..Len(counts) : cs[j] = counts[j]
  BY <1>1, <1>2
<1> HIDE DEF rs, cs
<1>6. /\ \A j \in 1..Len(rs) : j \in 1..Len(rules) \/ j = Len(rules) + 1
      /\ \A j \in 1..Len(cs) : j \in 1..Len(counts) \/ j = Len(counts) + 1
      /\ \A j \in 1..Len(counts) : j \in 1..Len(cs) /\ j # Len(counts) + 1
      /\ Len(counts) + 1 \in 1..Len(cs)
  BY <1>1, <1>4, <1>5
<1>7. \A i \in 1..Len(cs) : cs[i].count > 0 => cs[i].fired <= cs[i].count
  BY <1>3, <1>5, <1>6 DEF RulesHold
<1>8. \A j \in 1..Len(rs) :
        /\ rs[j].id \in 1..Len(cs)
        /\ cs[rs[j].id].count = rs[j].count /\ cs[rs[j].id].fired = rs[j].fired
        /\ rs[j].count > 0 => rs[j].fired < rs[j].count
  BY SMTT(30), <1>3, <1>4, <1>5, <1>6 DEF RulesHold
<1>9. \A i, j \in 1..Len(rs) : rs[i].id = rs[j].id => i = j
  BY <1>3, <1>4, <1>6 DEF RulesHold
<1>10. RulesHold(rs, cs)
  BY <1>4, <1>5, <1>7, <1>8, <1>9 DEF RulesHold
<1> QED
  BY <1>10 DEF rs, cs, r, x

LEMMA WithoutIs ==
  ASSUME NEW S, NEW s \in Seq(S), NEW i \in 1..Len(s)
  PROVE  /\ withoutRule(s, i) \in Seq(S) /\ Len(withoutRule(s, i)) = Len(s) - 1
         /\ \A j \in 1..(Len(s) - 1) : withoutRule(s, i)[j] = IF j < i THEN s[j] ELSE s[j + 1]
<1> DEFINE a == SubSeq(s, 1, i - 1)
           b == SubSeq(s, i + 1, Len(s))
<1>1. Len(s) \in Nat /\ i \in Nat /\ i >= 1 /\ i <= Len(s)
  OBVIOUS
<1>2. a \in Seq(S) /\ Len(a) = i - 1 /\ \A j \in 1..(i - 1) : a[j] = s[j]
  BY <1>1
<1>3. b \in Seq(S) /\ Len(b) = Len(s) - i /\ \A j \in 1..(Len(s) - i) : b[j] = s[j + i]
  BY <1>1
<1> HIDE DEF a, b
<1>4. a \o b \in Seq(S) /\ Len(a \o b) = Len(s) - 1
  <2>1. a \in Seq(S) /\ b \in Seq(S)
    BY <1>2, <1>3
  <2>2. a \o b \in Seq(S) /\ Len(a \o b) = Len(a) + Len(b)
    BY <2>1
  <2>3. Len(a) + Len(b) = Len(s) - 1
    BY <1>1, <1>2, <1>3
  <2> QED
    BY <2>2, <2>3
<1>5. \A j \in 1..(Len(s) - 1) : (a \o b)[j] = IF j < i THEN s[j] ELSE s[j + 1]
  <2> SUFFICES ASSUME NEW j \in 1..(Len(s) - 1) PROVE (a \o b)[j] = IF j < i THEN s[j] ELSE s[j + 1]
    BY Zenon
  <2>1. (a \o b)[j] = IF j <= Len(a) THEN a[j] ELSE b[j - Len(a)]
    BY <1>1, <1>2, <1>3
  <2>2. CASE j < i
    BY <1>1, <1>2, <2>1, <2>2
  <2>3. CASE ~(j < i)
    <3>1. j - Len(a) = j + 1 - i /\ j + 1 - i \in 1..(Len(s) - i) /\ j + 1 - i + i = j + 1 /\ ~(j <= Len(a))
      BY <1>1, <1>2, <2>3
    <3> QED
      BY Zenon, <1>3, <2>1, <2>3, <3>1
  <2> QED
    BY Zenon, <2>2, <2>3
<1>6. withoutRule(s, i) = a \o b
  BY DEF withoutRule, a, b
<1> QED
  BY <1>4, <1>5, <1>6

(* What pickRule does to the rule that fires, and to the history of it. *)
RuleFired(rules, counts, i, rule, cs) ==
  /\ rule \in FaultRule /\ rule.id = rules[i].id /\ rule.count = rules[i].count /\ rule.fired = rules[i].fired + 1
  /\ cs \in Seq(RuleCount) /\ Len(cs) = Len(counts)
  /\ \A j \in 1..Len(counts) : j # rule.id => cs[j] = counts[j]
  /\ cs[rule.id].count = rule.count /\ cs[rule.id].fired = rule.fired

LEMMA RuleCounts ==
  ASSUME NEW rules, NEW counts, RulesHold(rules, counts), NEW i \in 1..Len(rules), NEW rule,
         rule = [rules[i] EXCEPT !.fired = @ + 1]
  PROVE  RuleFired(rules, counts, i, rule, [counts EXCEPT ![rule.id].fired = @ + 1])
<1> DEFINE cs == [counts EXCEPT ![rule.id].fired = @ + 1]
<1>1. /\ rules \in Seq(FaultRule) /\ counts \in Seq(RuleCount) /\ Len(counts) \in Nat
      /\ rules[i] \in FaultRule
  BY DEF RulesHold
<1>2. /\ rule \in FaultRule /\ rule.id = rules[i].id /\ rule.count = rules[i].count /\ rule.fired = rules[i].fired + 1
  <2> DEFINE r == rules[i]
  <2>1. r \in FaultRule /\ rule = [r EXCEPT !.fired = @ + 1]
    BY <1>1
  <2> HIDE DEF r
  <2>2. rule \in FaultRule /\ rule.id = r.id /\ rule.count = r.count /\ rule.fired = r.fired + 1
    BY <2>1 DEF FaultRule
  <2> QED
    BY <2>2 DEF r
<1>3. /\ rule.id \in 1..Len(counts) /\ counts[rule.id].count = rule.count /\ counts[rule.id].fired = rules[i].fired
  BY Zenon, <1>2 DEF RulesHold
<1> DEFINE x == [counts[rule.id] EXCEPT !.fired = @ + 1]
           y == counts[rule.id]
<1>4. y \in RuleCount /\ x = [y EXCEPT !.fired = @ + 1] /\ y.count = rule.count /\ y.fired = rules[i].fired
  BY <1>1, <1>3
<1>5. cs = [counts EXCEPT ![rule.id] = x]
  OBVIOUS
<1> HIDE DEF x, y, cs
<1>6. x \in RuleCount /\ x.count = y.count /\ x.fired = y.fired + 1
  BY <1>4 DEF RuleCount
<1>7. /\ cs \in Seq(RuleCount) /\ Len(cs) = Len(counts) /\ cs[rule.id] = x
      /\ \A j \in 1..Len(counts) : j # rule.id => cs[j] = counts[j]
  BY <1>1, <1>3, <1>5, <1>6
<1>8. RuleFired(rules, counts, i, rule, cs)
  BY Zenon, <1>2, <1>4, <1>6, <1>7 DEF RuleFired
<1> QED
  BY <1>8 DEF cs

(* pickRule: the rule that fires stays in the list exactly when it may     *)
(* fire again.                                                             *)
LEMMA RuleFires ==
  ASSUME NEW rules, NEW counts, RulesHold(rules, counts), NEW i \in 1..Len(rules), NEW rule, NEW cs,
         RuleFired(rules, counts, i, rule, cs)
  PROVE  RulesHold(IF exhausted(rule) THEN withoutRule([rules EXCEPT ![i] = rule], i) ELSE [rules EXCEPT ![i] = rule], cs)
<1> DEFINE rs == [rules EXCEPT ![i] = rule]
<1>f. /\ rule \in FaultRule /\ rule.id = rules[i].id /\ rule.count = rules[i].count /\ rule.fired = rules[i].fired + 1
      /\ cs \in Seq(RuleCount) /\ Len(cs) = Len(counts)
      /\ \A j \in 1..Len(counts) : j # rule.id => cs[j] = counts[j]
      /\ cs[rule.id].count = rule.count /\ cs[rule.id].fired = rule.fired
  BY Zenon DEF RuleFired
<1>r. /\ rs \in Seq(FaultRule) /\ Len(rs) = Len(rules) /\ rs[i] = rule
      /\ \A j \in 1..Len(rules) : j # i => rs[j] = rules[j]
  <2>1. rules \in Seq(FaultRule) /\ rule \in FaultRule
    BY <1>f DEF RulesHold
  <2> QED
    BY <2>1
<1> HIDE DEF rs
<1> USE <1>f, <1>r
<1>1. Len(rules) \in Nat /\ Len(counts) \in Nat /\ rules[i] \in FaultRule /\ rules \in Seq(FaultRule)
  BY DEF RulesHold
<1>2. rule.count \in Int /\ rule.fired \in Nat /\ rules[i].fired \in Nat
  BY <1>1 DEF FaultRule
<1>3. /\ rule.id \in 1..Len(counts) /\ (rule.count > 0 => rules[i].fired < rule.count)
  BY Zenon DEF RulesHold
<1>7. \A j \in 1..Len(cs) : cs[j].count > 0 => cs[j].fired <= cs[j].count
  <2>1. rule.count > 0 => rule.fired <= rule.count
    <3>1. \A a \in Nat, b \in Int : a < b => a + 1 <= b
      OBVIOUS
    <3> QED
      BY SMTT(30), <1>2, <1>3, <3>1
  <2> QED
    BY Zenon, <2>1 DEF RulesHold
<1>8. ASSUME NEW j \in 1..Len(rs), j # i
      PROVE  /\ rs[j].id \in 1..Len(cs) /\ rs[j].id # rule.id
             /\ cs[rs[j].id].count = rs[j].count /\ cs[rs[j].id].fired = rs[j].fired
             /\ rs[j].count > 0 => rs[j].fired < rs[j].count
  <2>1. rs[j] = rules[j] /\ j \in 1..Len(rules)
    BY Zenon, <1>8
  <2>2. rules[j].id # rule.id /\ rules[j].id \in 1..Len(counts)
    BY Zenon, <1>8, <2>1 DEF RulesHold
  <2>3. cs[rules[j].id] = counts[rules[j].id]
    BY Zenon, <2>2
  <2>4. /\ counts[rules[j].id].count = rules[j].count /\ counts[rules[j].id].fired = rules[j].fired
        /\ rules[j].count > 0 => rules[j].fired < rules[j].count
    BY Zenon, <2>1 DEF RulesHold
  <2> QED
    BY Zenon, <2>1, <2>2, <2>3, <2>4
<1>9. \A j, l \in 1..Len(rs) : rs[j].id = rs[l].id => j = l
  BY Zenon, <1>8 DEF RulesHold
<1>10. ASSUME ~exhausted(rule) PROVE RulesHold(rs, cs)
  <2>1. rule.count > 0 => rule.fired < rule.count
    BY SMTT(30), <1>2, <1>10 DEF exhausted
  <2>2. \A j \in 1..Len(rs) :
          /\ rs[j].id \in 1..Len(cs)
          /\ cs[rs[j].id].count = rs[j].count /\ cs[rs[j].id].fired = rs[j].fired
          /\ rs[j].count > 0 => rs[j].fired < rs[j].count
    BY Zenon, <1>3, <1>8, <2>1
  <2>3. RulesHold(rs, cs)
    BY Zenon, <1>7, <1>9, <2>2 DEF RulesHold
  <2> QED
    BY <2>3
<1>11. ASSUME exhausted(rule) PROVE RulesHold(withoutRule(rs, i), cs)
  <2> DEFINE w == withoutRule(rs, i)
             back(j) == IF j < i THEN j ELSE j + 1
  <2>1. w \in Seq(FaultRule) /\ Len(w) = Len(rs) - 1 /\ Len(rs) \in Nat
    BY <1>1, WithoutIs
  <2>2. \A j \in 1..Len(w) : w[j] = rs[back(j)]
    <3>1. \A j \in 1..(Len(rs) - 1) : w[j] = IF j < i THEN rs[j] ELSE rs[j + 1]
      BY <1>1, WithoutIs
    <3> HIDE DEF w
    <3> QED
      BY SMTT(30), <2>1, <3>1
  <2> HIDE DEF w
  <2>3. \A j \in 1..Len(w) : back(j) \in 1..Len(rs) /\ back(j) # i
    BY SMTT(30), <1>1, <2>1
  <2>4. \A j, l \in 1..Len(w) : back(j) = back(l) => j = l
    BY <1>1, <2>1
  <2> HIDE DEF back
  <2>5. \A j \in 1..Len(w) :
          /\ w[j].id \in 1..Len(cs)
          /\ cs[w[j].id].count = w[j].count /\ cs[w[j].id].fired = w[j].fired
          /\ w[j].count > 0 => w[j].fired < w[j].count
    BY Zenon, <1>8, <2>2, <2>3
  <2>6. \A j, l \in 1..Len(w) : w[j].id = w[l].id => j = l
    <3> SUFFICES ASSUME NEW j \in 1..Len(w), NEW l \in 1..Len(w), w[j].id = w[l].id PROVE back(j) = back(l)
      BY Zenon, <2>4
    <3>1. rs[back(j)].id = rs[back(l)].id /\ back(j) \in 1..Len(rs) /\ back(l) \in 1..Len(rs)
      BY Zenon, <2>2, <2>3
    <3> QED
      BY Zenon, <1>9, <3>1
  <2>7. RulesHold(w, cs)
    BY Zenon, <1>7, <2>1, <2>5, <2>6 DEF RulesHold
  <2> QED
    BY <2>7 DEF w
<1>12. RulesHold(IF exhausted(rule) THEN withoutRule(rs, i) ELSE rs, cs)
  BY <1>10, <1>11
<1> QED
  BY <1>12 DEF rs

LEMMA RulePicked ==
  ASSUME NEW rules, NEW counts, RulesHold(rules, counts), NEW i \in 1..Len(rules), NEW rule,
         rule = [rules[i] EXCEPT !.fired = @ + 1]
  PROVE  RulesHold(IF exhausted(rule) THEN withoutRule([rules EXCEPT ![i] = rule], i) ELSE [rules EXCEPT ![i] = rule],
                   [counts EXCEPT ![rule.id].fired = @ + 1])
BY Zenon, RuleCounts, RuleFires

LEMMA RecordingCallsKeep ==
  ASSUME RecordingInv, NEW c \in Callers, NEW k, goes(c, k), RecordingCall(k)
  PROVE  calls' = [d \in Callers |-> calls'[d]] /\ \A d \in Callers : RecordingCall(calls'[d])
<1>1. /\ calls' = [d \in Callers |-> calls'[d]]
      /\ calls'[c] = k /\ \A d \in Callers : d # c => calls'[d] = calls[d]
  BY GoesOne DEF RecordingInv
<1> QED
  BY <1>1 DEF RecordingInv

LEMMA RecordingMoves ==
  ASSUME NEW k, RecordingCall(k), k.pc = "pick"
  PROVE  RecordingCall([k EXCEPT !.pc = "inner"])
BY DEF RecordingCall

LEMMA RecordingStep == RecordingInv /\ RecordingNext => RecordingInv'
<1> SUFFICES ASSUME RecordingInv, RecordingNext PROVE RecordingInv'
  OBVIOUS
<1>a. RecordingCall(Idle)
  BY DEF RecordingCall, Idle
<1>1. ASSUME NEW f \in Faults, NEW n \in {1, 2, Forever}, AddRule(f, n) PROVE RecordingInv'
  <2> DEFINE r == [type |-> f, count |-> n, fired |-> 0, id |-> Len(seen.rules) + 1]
             x == [count |-> n, fired |-> 0]
  <2>1. st' = [st EXCEPT !.rules = Append(@, r)] /\ seen' = [seen EXCEPT !.rules = Append(@, x)] /\ calls' = calls
    BY <1>1 DEF AddRule
  <2>2. n \in Int
    BY RecordingAssumption
  <2>3. RulesHold(Append(st.rules, r), Append(seen.rules, x))
    BY <2>2, RuleAdded DEF RecordingInv
  <2> HIDE DEF r, x
  <2>4. /\ DOMAIN st' = DOMAIN st /\ st'.rules = Append(st.rules, r) /\ st'.closed = st.closed
        /\ st'.entries = st.entries /\ st'.head = st.head /\ st'.count = st.count
    BY <2>1 DEF RecordingInv
  <2>5. DOMAIN seen' = DOMAIN seen /\ seen'.rules = Append(seen.rules, x) /\ seen'.log = seen.log
    BY <2>1 DEF RecordingInv
  <2> QED
    BY Zenon, <2>1, <2>3, <2>4, <2>5 DEF RecordingInv
<1>2. CASE ClearRules
  <2>1. /\ DOMAIN st' = DOMAIN st /\ st'.rules = <<>> /\ st'.closed = st.closed
        /\ st'.entries = st.entries /\ st'.head = st.head /\ st'.count = st.count
        /\ calls' = calls /\ seen' = seen
    BY <1>2 DEF ClearRules, RecordingInv
  <2>2. RulesHold(<<>>, seen.rules)
    BY DEF RulesHold, RecordingInv
  <2> QED
    BY Zenon, <2>1, <2>2 DEF RecordingInv
<1>3. ASSUME NEW c \in Callers, NEW r \in Recorded, RecordingHandleRequest(c, r) PROVE RecordingInv'
  <2> DEFINE k == [pc |-> "pick", req |-> r]
  <2>1. goes(c, k) /\ st' = st /\ seen' = seen
    BY <1>3 DEF RecordingHandleRequest
  <2>2. RecordingCall(k)
    BY DEF RecordingCall
  <2> HIDE DEF k
  <2> QED
    BY <2>1, <2>2, RecordingCallsKeep DEF RecordingInv
<1>4. ASSUME NEW c \in Callers, Inner(c) PROVE RecordingInv'
  <2> DEFINE k == [pc |-> "record", req |-> calls[c].req, err |-> st.closed \/ calls[c].req.addr # Addr]
  <2>1. goes(c, k) /\ st' = st /\ seen' = seen /\ calls[c].pc = "inner"
    BY <1>4 DEF Inner, at
  <2>2. calls[c].req \in Recorded
    BY <2>1 DEF RecordingInv, RecordingCall
  <2>3. RecordingCall(k)
    BY <2>2 DEF RecordingCall
  <2> HIDE DEF k
  <2> QED
    BY <2>1, <2>3, RecordingCallsKeep DEF RecordingInv
<1>5. CASE RecordingClose
  <2>1. /\ DOMAIN st' = DOMAIN st /\ st'.rules = st.rules /\ st'.closed = TRUE
        /\ st'.entries = st.entries /\ st'.head = st.head /\ st'.count = st.count
        /\ calls' = calls /\ seen' = seen
    BY <1>5 DEF RecordingClose, RecordingInv
  <2> QED
    BY Zenon, <2>1 DEF RecordingInv
<1>6. ASSUME NEW c \in Callers, append(c) PROVE RecordingInv'
  <2> DEFINE e == [req |-> calls[c].req, err |-> calls[c].err]
  <2>1. goes(c, Idle) /\ calls[c].pc = "record"
    BY <1>6 DEF append, at, returns
  <2>2. e \in LogEntry
    BY <2>1 DEF RecordingInv, RecordingCall, LogEntry
  <2>3. /\ st' = [st EXCEPT !.entries[st.head] = e, !.head = (@ + 1) % Ring, !.count = IF @ < Ring THEN @ + 1 ELSE @]
        /\ seen' = [seen EXCEPT !.log = Append(@, e)]
    BY <1>6 DEF append
  <2> HIDE DEF e
  <2>4. /\ DOMAIN st' = DOMAIN st /\ st'.rules = st.rules /\ st'.closed = st.closed
        /\ st'.entries = [st.entries EXCEPT ![st.head] = e] /\ st'.head = (st.head + 1) % Ring
        /\ st'.count = IF st.count < Ring THEN st.count + 1 ELSE st.count
    BY <2>3 DEF RecordingInv
  <2>5. DOMAIN seen' = DOMAIN seen /\ seen'.rules = seen.rules /\ seen'.log = Append(seen.log, e)
    BY <2>3 DEF RecordingInv
  <2>6. RingHolds(st'.entries, st'.head, st'.count, seen'.log)
    BY <2>2, <2>4, <2>5, RingAppends DEF RecordingInv
  <2> QED
    BY <1>a, <2>1, <2>4, <2>5, <2>6, RecordingCallsKeep DEF RecordingInv
<1>7. ASSUME NEW c \in Callers, pickRule(c) PROVE RecordingInv'
  <2>1. calls[c].pc = "pick" /\ RecordingCall(calls[c])
    BY SMTT(30), <1>7 DEF pickRule, at, RecordingInv
  <2> DEFINE k == [calls[c] EXCEPT !.pc = "inner"]
  <2>2. RecordingCall(k)
    BY <2>1, RecordingMoves
  <2>3. CASE goes(c, k) /\ UNCHANGED <<st, seen>>
    <3> HIDE DEF k
    <3> QED
      BY <2>2, <2>3, RecordingCallsKeep DEF RecordingInv
  <2> DEFINE rule(i) == [st.rules[i] EXCEPT !.fired = @ + 1]
             rs(i) == [st.rules EXCEPT ![i] = rule(i)]
  <2>4. ASSUME NEW i \in firstRule,
               st' = [st EXCEPT !.rules = IF exhausted(rule(i)) THEN withoutRule(rs(i), i) ELSE rs(i)],
               seen' = [seen EXCEPT !.rules[rule(i).id].fired = @ + 1],
               goes(c, IF rule(i).type = "Slow" THEN k ELSE [pc |-> "record", req |-> calls[c].req, err |-> TRUE])
        PROVE  RecordingInv'
    <3> DEFINE x == rule(i)
               cs == [seen.rules EXCEPT ![x.id].fired = @ + 1]
               left == IF exhausted(x) THEN withoutRule(rs(i), i) ELSE rs(i)
    <3>1. RulesHold(st.rules, seen.rules) /\ i \in 1..Len(st.rules)
      BY SMTT(30) DEF RecordingInv, firstRule, RulesHold
    <3>2. RulesHold(left, cs)
      <4> DEFINE rules == st.rules
                 counts == seen.rules
      <4>1. RulesHold(rules, counts) /\ i \in 1..Len(rules) /\ x = [rules[i] EXCEPT !.fired = @ + 1]
        BY <3>1
      <4>2. left = (IF exhausted(x) THEN withoutRule([rules EXCEPT ![i] = x], i) ELSE [rules EXCEPT ![i] = x])
        OBVIOUS
      <4>3. cs = [counts EXCEPT ![x.id].fired = @ + 1]
        OBVIOUS
      <4> HIDE DEF rules, counts, x, left, cs
      <4> QED
        BY Zenon, <4>1, <4>2, <4>3, RulePicked
    <3>3. st' = [st EXCEPT !.rules = left] /\ seen' = [seen EXCEPT !.rules = cs]
      BY SMTT(30), <2>4
    <3> HIDE DEF cs, left
    <3>4. /\ DOMAIN seen' = DOMAIN seen /\ seen'.rules = cs /\ seen'.log = seen.log
      BY <3>3 DEF RecordingInv
    <3>5. /\ DOMAIN st' = DOMAIN st /\ st'.rules = left /\ st'.closed = st.closed
          /\ st'.entries = st.entries /\ st'.head = st.head /\ st'.count = st.count
      BY <3>3 DEF RecordingInv
    <3>6. RulesHold(st'.rules, seen'.rules)
      BY Zenon, <3>2, <3>4, <3>5
    <3> DEFINE l == [pc |-> "record", req |-> calls[c].req, err |-> TRUE]
    <3>7. RecordingCall(l)
      BY <2>1 DEF RecordingCall
    <3> HIDE DEF k, l
    <3>8. goes(c, k) \/ goes(c, l)
      BY Zenon, <2>4 DEF l
    <3> QED
      BY <2>2, <3>4, <3>5, <3>6, <3>7, <3>8, RecordingCallsKeep DEF RecordingInv
  <2> QED
    BY Zenon, <1>7, <2>3, <2>4 DEF pickRule
<1> QED
  BY <1>1, <1>2, <1>3, <1>4, <1>5, <1>6, <1>7 DEF RecordingNext

-----------------------------------------------------------------------------
(* udp.Router. *)
(* What the proofs know of one call: what it was given, what the address   *)
(* should have had meanwhile, and the handler that it found.               *)
RouterCall(k) ==
  \/ k = Idle
  \/ k \in [pc : {"lookup"}, req : AnyRequest, during : SUBSET Nat]
  \/ k \in [pc : {"handle"}, req : AnyRequest, during : SUBSET Nat, h : Nat]

RouterFits(k, asked) ==
  k.pc # "idle" =>
    /\ k.req.addr \in Routable
    /\ asked[k.req.addr] \in k.during
    /\ k.pc = "handle" => k.h \in k.during

(* The table has the handlers that were asked for. *)
RouterTable ==
  /\ st \in [handlers : [Routable -> Nat], timeSyncSupported : BOOLEAN]
  /\ seen.made \in Nat
  /\ seen.asked = st.handlers
  /\ seen = [made |-> seen.made, routes |-> seen.routes, asked |-> seen.asked, last |-> seen.last]
  /\ calls = [c \in Callers |-> calls[c]]

RouterCalls == \A c \in Callers : RouterCall(calls[c]) /\ RouterFits(calls[c], seen.asked)

(* The reply is right for the request it answers. *)
ReplyRight(p) ==
  /\ p.by # 0 => p.by \in p.during
  /\ p.reply.text = "ErrUnknownEndpoint" => 0 \in p.during
  /\ IF p.reply = Silence
       THEN \/ p.req.timed /\ ~st.timeSyncSupported
            \/ p.req.addr = EP0 /\ p.req.rw = "Read" /\ (p.req.timed \/ p.req.long)
       ELSE p.reply.rw = p.req.rw /\ (p.reply.error <=> Valid(p.reply.code))

RouterRight == \A p \in seen.last : ReplyRight(p)

(* Every error but the two of discovery is answered, with a code of the    *)
(* table (errorCodeFor).                                                   *)
LEMMA ErrorsAreAnswered ==
  ASSUME NEW r \in AnyRequest, NEW err, ~silent(err), err # "silence"
  PROVE  /\ failed(r, err) # Silence
         /\ failed(r, err).text = err /\ failed(r, err).rw = r.rw
         /\ failed(r, err).error <=> Valid(failed(r, err).code)
BY DEF failed, errorResponse, Silence, Valid, errorCodeFor, UnsupportedCommand, UnauthorizedAccess, LockedMemAccess,
       RequestCancelled, RequestNotFound, EPNotFound, PWMInNoSignal, POCIFailure, InvalidParameter, ChainAborted,
       ChainError

LEMMA ResponsesAnswer ==
  ASSUME NEW r \in AnyRequest
  PROVE  /\ responseFor(r) # Silence
         /\ responseFor(r).text # "ErrUnknownEndpoint" /\ responseFor(r).rw = r.rw
         /\ responseFor(r).error <=> Valid(responseFor(r).code)
BY DEF responseFor, Silence, Valid

(* EP0 answers, or is silent where TC18 wants it to be. *)
LEMMA EP0Right ==
  ASSUME NEW r \in AnyRequest, NEW reply \in EP0Replies(r)
  PROVE  /\ reply.text # "ErrUnknownEndpoint"
         /\ IF reply = Silence THEN r.rw = "Read" /\ (r.timed \/ r.long)
            ELSE reply.rw = r.rw /\ (reply.error <=> Valid(reply.code))
<1>1. CASE r.rw = "Write"
  <2> DEFINE Errors == {"regmap.ErrNotRootClient", "regmap.ErrRegisterLocked", "regmap.ErrGeneralBlockReadOnly", "another"}
  <2>1. CASE reply = responseFor(r)
    BY <2>1, ResponsesAnswer
  <2>2. ASSUME NEW err \in Errors, reply = failed(r, err) PROVE reply = failed(r, err) /\ ~silent(err) /\ err # "ErrUnknownEndpoint" /\ err # "silence"
    BY <2>2 DEF silent
  <2>3. reply = responseFor(r) \/ \E err \in Errors : reply = failed(r, err)
    BY <1>1 DEF EP0Replies
  <2> QED
    BY <2>1, <2>2, <2>3, ErrorsAreAnswered
<1>2. CASE r.rw = "Read"
  <2>1. reply = HandleDiscoveryRequest(r)
    BY <1>2 DEF EP0Replies
  <2>2. CASE r.timed \/ r.long
    BY <2>1, <2>2, <1>2 DEF HandleDiscoveryRequest, failed, silent, Silence
  <2>3. CASE ~r.timed /\ ~r.long
    BY <2>1, <2>3, ResponsesAnswer DEF HandleDiscoveryRequest
  <2> QED
    BY <2>2, <2>3
<1>3. CASE r.rw = "None"
  <2>1. reply = failed(r, "ErrRequestMustReadOrWrite")
    BY <1>3 DEF EP0Replies
  <2>2. ~silent("ErrRequestMustReadOrWrite")
    BY DEF silent
  <2> QED
    BY <2>1, <2>2, ErrorsAreAnswered
<1> QED
  BY <1>1, <1>2, <1>3 DEF AnyRequest

(* The history of a reply. *)
LEMMA Answering ==
  ASSUME RouterTable, NEW r, NEW during, NEW by, NEW reply, answers(r, during, by, reply), UNCHANGED st,
         ReplyRight([req |-> r, during |-> during, by |-> by, reply |-> reply])
  PROVE  /\ RouterRight'
         /\ seen'.asked = seen.asked /\ seen'.made = seen.made
         /\ seen' = [made |-> seen'.made, routes |-> seen'.routes, asked |-> seen'.asked, last |-> seen'.last]
<1>1. seen'.last = {[req |-> r, during |-> during, by |-> by, reply |-> reply]}
  BY DEF RouterTable, answers
<1> QED
  BY Zenon, <1>1 DEF RouterRight, RouterTable, answers, ReplyRight

RouterInv == RouterTable /\ RouterCalls /\ RouterRight

(* Register and Deregister: what is asked for next is noted by the calls   *)
(* under way, and the replies given stay as they are.                      *)
LEMMA RouterTableStep ==
  ASSUME RouterInv, NEW a \in Routable, NEW h \in Nat, noted(a, h), st' = [st EXCEPT !.handlers = [@ EXCEPT ![a] = h]]
  PROVE  RouterInv'
<1>1. RouterTable'
  BY Zenon DEF RouterInv, RouterTable, noted
<1>2. seen'.asked = [seen.asked EXCEPT ![a] = h] /\ seen'.last = seen.last /\ seen.asked \in [Routable -> Nat]
      /\ st'.timeSyncSupported = st.timeSyncSupported
  BY DEF RouterInv, RouterTable, noted
<1>3. ASSUME NEW c \in Callers PROVE RouterCall(calls'[c]) /\ RouterFits(calls'[c], seen'.asked)
  <2> DEFINE k == calls[c]
  <2>1. RouterCall(k) /\ RouterFits(k, seen.asked)
    BY DEF RouterInv, RouterCalls
  <2>2. CASE k.pc = "idle" \/ k.req.addr # a
    <3>1. calls'[c] = k
      BY <2>2 DEF noted, at
    <3> HIDE DEF k
    <3> QED
      BY <1>2, <2>1, <2>2, <3>1 DEF RouterFits
  <2>3. CASE k.pc # "idle" /\ k.req.addr = a
    <3>1. calls'[c] = [k EXCEPT !.during = @ \cup {h}]
      BY <2>3 DEF noted, at
    <3> HIDE DEF k
    <3>2. CASE k \in [pc : {"lookup"}, req : AnyRequest, during : SUBSET Nat]
      BY <1>2, <2>1, <2>3, <3>1, <3>2 DEF RouterFits, RouterCall
    <3>3. CASE k \in [pc : {"handle"}, req : AnyRequest, during : SUBSET Nat, h : Nat]
      BY <1>2, <2>1, <2>3, <3>1, <3>3 DEF RouterFits, RouterCall
    <3> QED
      BY <2>1, <2>3, <3>2, <3>3 DEF RouterCall, Idle
  <2> QED
    BY <2>2, <2>3
<1>4. RouterRight'
  BY <1>2 DEF RouterInv, RouterRight, ReplyRight
<1> QED
  BY <1>1, <1>3, <1>4 DEF RouterInv, RouterCalls

(* A step of one call that leaves the table alone. *)
LEMMA RouterCallStep ==
  ASSUME RouterInv, NEW c \in Callers, NEW k, goes(c, k), UNCHANGED st,
         seen'.asked = seen.asked /\ seen'.made = seen.made,
         seen' = [made |-> seen'.made, routes |-> seen'.routes, asked |-> seen'.asked, last |-> seen'.last],
         RouterCall(k), RouterFits(k, seen.asked)
  PROVE  RouterTable' /\ RouterCalls'
<1>1. calls' = [d \in Callers |-> IF d = c THEN k ELSE calls[d]]
  BY DEF goes, RouterInv, RouterTable
<1>2. calls'[c] = k /\ \A d \in Callers \ {c} : calls'[d] = calls[d]
  BY <1>1
<1>3. calls' = [d \in Callers |-> calls'[d]]
  BY <1>1
<1>4. RouterTable'
  BY <1>3 DEF RouterInv, RouterTable
<1>5. \A d \in Callers : RouterCall(calls'[d]) /\ RouterFits(calls'[d], seen'.asked)
  BY <1>2 DEF RouterInv, RouterCalls
<1> QED
  BY <1>4, <1>5 DEF RouterCalls

LEMMA RouteAtOnceRight ==
  ASSUME RouterInv, NEW c \in Callers, NEW r \in AnyRequest, RouteAtOnce(c, r)
  PROVE  RouterInv'
<1> DEFINE p(reply) == [req |-> r, during |-> {}, by |-> 0, reply |-> reply]
<1>1. CASE dropped(r) /\ answers(r, {}, 0, Silence)
  <2>1. ReplyRight(p(Silence))
    BY <1>1 DEF ReplyRight, dropped, Silence
  <2> QED
    BY SMTT(30), <1>1, <2>1, Answering DEF RouteAtOnce, RouterInv, RouterTable, RouterCalls
<1>2. CASE answers(r, {}, 0, errorResponse(r, "acf.ErrEVTMissingPayload"))
  <2> DEFINE reply == errorResponse(r, "acf.ErrEVTMissingPayload")
  <2>1. ~silent("acf.ErrEVTMissingPayload") /\ reply = failed(r, "acf.ErrEVTMissingPayload")
    BY DEF silent, failed
  <2>2. reply # Silence /\ reply.text # "ErrUnknownEndpoint" /\ reply.rw = r.rw /\ (reply.error <=> Valid(reply.code))
    BY SMTT(30), <2>1, ErrorsAreAnswered
  <2> HIDE DEF reply
  <2>3. ReplyRight(p(reply))
    BY <2>2 DEF ReplyRight
  <2>4. answers(r, {}, 0, reply)
    BY <1>2 DEF reply
  <2> QED
    BY Zenon, <2>3, <2>4, Answering DEF RouteAtOnce, RouterInv, RouterTable, RouterCalls
<1>3. ASSUME r.addr = EP0, NEW reply \in EP0Replies(r), answers(r, {}, 0, reply) PROVE RouterInv'
  <2>1. ReplyRight(p(reply))
    BY <1>3, EP0Right DEF ReplyRight
  <2> QED
    BY Zenon, <1>3, <2>1, Answering DEF RouteAtOnce, RouterInv, RouterTable, RouterCalls
<1> QED
  BY <1>1, <1>2, <1>3 DEF RouteAtOnce

LEMMA RouteBeginRight ==
  ASSUME RouterInv, NEW c \in Callers, NEW r \in AnyRequest, RouteBegin(c, r)
  PROVE  RouterInv'
<1> DEFINE k == [pc |-> "lookup", req |-> r, during |-> {seen.asked[r.addr]}]
<1>1. r.addr \in Routable
  BY DEF RouteBegin, AnyRequest
<1>2. seen.asked[r.addr] \in Nat
  BY <1>1 DEF RouterInv, RouterTable
<1>3. RouterCall(k) /\ RouterFits(k, seen.asked)
  BY SMTT(30), <1>1, <1>2 DEF RouterCall, RouterFits
<1>4. goes(c, k) /\ UNCHANGED <<st, seen>>
  BY DEF RouteBegin
<1>5. seen' = [made |-> seen'.made, routes |-> seen'.routes, asked |-> seen'.asked, last |-> seen'.last]
  BY <1>4 DEF RouterInv, RouterTable
<1> HIDE DEF k
<1>6. RouterTable' /\ RouterCalls'
  BY <1>3, <1>4, <1>5, RouterCallStep
<1>7. RouterRight'
  BY <1>4 DEF RouterInv, RouterRight, ReplyRight
<1> QED
  BY <1>6, <1>7 DEF RouterInv

LEMMA RouteLookupRight ==
  ASSUME RouterInv, NEW c \in Callers, RouteLookup(c)
  PROVE  RouterInv'
<1> DEFINE k == calls[c]
           h == st.handlers[k.req.addr]
<1>1. RouterCall(k) /\ RouterFits(k, seen.asked) /\ k.pc = "lookup"
  BY SMTT(30) DEF RouterInv, RouterCalls, RouteLookup, at
<1>2. k \in [pc : {"lookup"}, req : AnyRequest, during : SUBSET Nat]
  BY <1>1 DEF RouterCall, Idle
<1>3. k.req \in AnyRequest /\ k.req.addr \in Routable /\ h = seen.asked[k.req.addr] /\ h \in k.during /\ h \in Nat
  BY <1>1, <1>2 DEF RouterFits, RouterInv, RouterTable
<1>4. CASE h = 0
  <2> DEFINE reply == failed(k.req, "ErrUnknownEndpoint")
  <2>1. ~silent("ErrUnknownEndpoint")
    BY DEF silent
  <2>2. reply # Silence /\ reply.rw = k.req.rw /\ (reply.error <=> Valid(reply.code))
    BY SMTT(30), <1>3, <2>1, ErrorsAreAnswered
  <2>3. answers(k.req, k.during, 0, reply) /\ goes(c, Idle) /\ UNCHANGED st
    BY SMTT(30), <1>4 DEF RouteLookup, returns
  <2> HIDE DEF reply
  <2>4. ReplyRight([req |-> k.req, during |-> k.during, by |-> 0, reply |-> reply])
    BY SMTT(30), <1>3, <1>4, <2>2 DEF ReplyRight
  <2>5. RouterCall(Idle) /\ RouterFits(Idle, seen.asked)
    BY DEF RouterCall, RouterFits, Idle
  <2> HIDE DEF k
  <2>6. /\ RouterRight'
        /\ seen'.asked = seen.asked /\ seen'.made = seen.made
        /\ seen' = [made |-> seen'.made, routes |-> seen'.routes, asked |-> seen'.asked, last |-> seen'.last]
    BY <2>3, <2>4, Answering DEF RouterInv
  <2> QED
    BY <2>3, <2>5, <2>6, RouterCallStep DEF RouterInv
<1>5. CASE h # 0
  <2> DEFINE next == [pc |-> "handle", req |-> k.req, during |-> k.during, h |-> h]
  <2>1. goes(c, next) /\ UNCHANGED <<st, seen>>
    BY SMTT(30), <1>5 DEF RouteLookup
  <2>2. RouterCall(next) /\ RouterFits(next, seen.asked)
    <3> DEFINE req == k.req during == k.during
    <3>1. req \in AnyRequest /\ during \in SUBSET Nat /\ h \in Nat /\ h \in during /\ req.addr \in Routable
          /\ seen.asked[req.addr] \in during
      BY SMTT(30), <1>1, <1>2, <1>3 DEF RouterFits
    <3>2. next = [pc |-> "handle", req |-> req, during |-> during, h |-> h]
      OBVIOUS
    <3> HIDE DEF k, h, next, req, during
    <3> QED
      BY <3>1, <3>2 DEF RouterCall, RouterFits
  <2>3. seen' = [made |-> seen'.made, routes |-> seen'.routes, asked |-> seen'.asked, last |-> seen'.last]
    BY <2>1 DEF RouterInv, RouterTable
  <2> HIDE DEF next
  <2>4. RouterTable' /\ RouterCalls'
    BY <2>1, <2>2, <2>3, RouterCallStep
  <2>5. RouterRight'
    BY SMTT(30), <2>1 DEF RouterInv, RouterRight, ReplyRight
  <2> QED
    BY <2>4, <2>5 DEF RouterInv
<1> QED
  BY <1>4, <1>5

LEMMA RouteHandleRight ==
  ASSUME RouterInv, NEW c \in Callers, RouteHandle(c)
  PROVE  RouterInv'
<1> DEFINE k == calls[c]
<1>1. RouterCall(k) /\ RouterFits(k, seen.asked) /\ k.pc = "handle"
  BY SMTT(30) DEF RouterInv, RouterCalls, RouteHandle, at
<1>2. k \in [pc : {"handle"}, req : AnyRequest, during : SUBSET Nat, h : Nat]
  BY SMTT(30), <1>1 DEF RouterCall, Idle
<1>3. k.req \in AnyRequest /\ k.h \in k.during
  BY <1>1, <1>2 DEF RouterFits
<1>4. PICK reply : answers(k.req, k.during, k.h, reply) /\ (reply = responseFor(k.req) \/ \E err \in HandlerErrors : reply = failed(k.req, err))
  BY DEF RouteHandle
<1>5. /\ reply # Silence /\ reply.text # "ErrUnknownEndpoint" /\ reply.rw = k.req.rw
      /\ reply.error <=> Valid(reply.code)
  <2>1. CASE reply = responseFor(k.req)
    BY <1>3, <2>1, ResponsesAnswer
  <2>2. ASSUME NEW err \in HandlerErrors, reply = failed(k.req, err)
        PROVE  reply # Silence /\ reply.text # "ErrUnknownEndpoint" /\ reply.rw = k.req.rw /\ (reply.error <=> Valid(reply.code))
    <3>1. ~silent(err) /\ err # "ErrUnknownEndpoint" /\ err # "silence"
      BY DEF silent, HandlerErrors
    <3> QED
      BY <1>3, <2>2, <3>1, ErrorsAreAnswered
  <2> QED
    BY SMTT(30), <1>4, <2>1, <2>2
<1>6. goes(c, Idle) /\ UNCHANGED st
  BY DEF RouteHandle, returns
<1>7. RouterCall(Idle) /\ RouterFits(Idle, seen.asked)
  BY DEF RouterCall, RouterFits, Idle
<1> HIDE DEF k
<1>8. ReplyRight([req |-> k.req, during |-> k.during, by |-> k.h, reply |-> reply])
  BY SMTT(30), <1>3, <1>5 DEF ReplyRight
<1>9. /\ RouterRight'
      /\ seen'.asked = seen.asked /\ seen'.made = seen.made
      /\ seen' = [made |-> seen'.made, routes |-> seen'.routes, asked |-> seen'.asked, last |-> seen'.last]
  BY <1>4, <1>6, <1>8, Answering DEF RouterInv
<1> QED
  BY <1>6, <1>7, <1>9, RouterCallStep DEF RouterInv

LEMMA RouterInitial == RouterInit => RouterInv
<1> SUFFICES ASSUME RouterInit PROVE RouterInv
  OBVIOUS
<1>1. RouterTable
  BY DEF RouterInit, RouterTable, CallsInit
<1>2. RouterCalls
  BY DEF RouterInit, CallsInit, RouterCalls, RouterCall, RouterFits, Idle
<1>3. RouterRight
  BY DEF RouterInit, RouterRight
<1> QED
  BY <1>1, <1>2, <1>3 DEF RouterInv

LEMMA RouterStep == RouterInv /\ RouterNext => RouterInv'
<1> SUFFICES ASSUME RouterInv, RouterNext PROVE RouterInv'
  OBVIOUS
<1>1. ASSUME NEW a \in Routable, Register(a) PROVE RouterInv'
  <2>1. seen.made + 1 \in Nat /\ st' = [st EXCEPT !.handlers = [@ EXCEPT ![a] = seen.made + 1]]
    BY <1>1 DEF Register, RouterInv, RouterTable
  <2> QED
    BY <1>1, <2>1, RouterTableStep DEF Register
<1>2. ASSUME NEW a \in Routable, Deregister(a) PROVE RouterInv'
  <2>1. 0 \in Nat /\ st' = [st EXCEPT !.handlers = [@ EXCEPT ![a] = 0]]
    BY <1>2 DEF Deregister, removed, RouterInv, RouterTable
  <2> QED
    BY <1>2, <2>1, RouterTableStep DEF Deregister
<1> QED
  BY <1>1, <1>2, RouteAtOnceRight, RouteBeginRight, RouteLookupRight, RouteHandleRight DEF RouterNext

LEMMA RouterSound == RouterInv => AnsweredByRegistered /\ SilentOnlyAsSpecified
BY DEF RouterInv, RouterRight, ReplyRight, AnsweredByRegistered, SilentOnlyAsSpecified

-----------------------------------------------------------------------------
(* authz. *)
(* A set of natural numbers has a least one. *)
LEMMA LeastNat ==
  ASSUME NEW T \in SUBSET Nat, T # {}
  PROVE  \E x \in T : \A y \in T : x <= y
<1> DEFINE R == OpToRel(<, Nat)
<1>1. IsWellFoundedOn(R, Nat)
  BY Zenon, NatLessThanWellFounded
<1>2. \A x, y \in Nat : x < y => <<x, y>> \in R
  BY DEF OpToRel
<1> HIDE DEF R
<1>3. PICK x \in T : \A y \in T : ~(<<y, x>> \in R)
  BY Zenon, <1>1, WFMin
<1>4. T \subseteq Nat
  OBVIOUS
<1>5. ASSUME NEW y \in T PROVE x <= y
  <2>1. x \in Nat /\ y \in Nat
    BY <1>4
  <2>2. ~(y < x)
    BY Zenon, <1>2, <1>3, <2>1
  <2> QED
    BY <2>1, <2>2
<1> QED
  BY <1>5

(* authz. *)
AuthzInv ==
  /\ st = [entries |-> st.entries, closed |-> st.closed] /\ st.entries \in Seq(Entry)
  /\ seen

LEMMA AuthzInitial == AuthzInit => AuthzInv
BY DEF AuthzInit, AuthzInv

LEMMA AuthzSound == AuthzInv => ForwardedWasAllowed
BY DEF AuthzInv, ForwardedWasAllowed

EvaluateLoop(f, p, ep) ==
  \A i \in 1..(Len(st.entries) + 1) :
    f[i] = IF i > Len(st.entries) THEN FALSE
           ELSE IF matches(st.entries[i], p, ep) THEN st.entries[i].action = "Allow" ELSE f[i + 1]

(* What the loop of Policy.Evaluate computes from each entry on: a         *)
(* function that satisfies its equation exists, namely the one that says   *)
(* whether the first match from there on allows.                           *)
LEMMA EvaluateUnfolds ==
  ASSUME AuthzInv, NEW p, NEW ep
  PROVE  \E f : Evaluate(p, ep) = f[1] /\ EvaluateLoop(f, p, ep)
<1> DEFINE n == Len(st.entries)
           m(i) == matches(st.entries[i], p, ep)
           ok(i) == st.entries[i].action = "Allow"
           body(f) == [i \in 1..(n + 1) |-> IF i > n THEN FALSE ELSE IF m(i) THEN ok(i) ELSE f[i + 1]]
           G(i) == \E j \in i..n : m(j) /\ ok(j) /\ \A l \in i..(j - 1) : ~m(l)
           g == [i \in 1..(n + 1) |-> G(i)]
           F == CHOOSE f : f = body(f)
<1>1. n \in Nat
  BY DEF AuthzInv
<1>2. g = body(g)
  <2> HIDE DEF n, m, ok
  <2>1. ASSUME NEW i \in 1..(n + 1), i > n PROVE ~G(i)
    BY <1>1, <2>1
  <2>2. ASSUME NEW i \in 1..(n + 1), ~(i > n), m(i) PROVE G(i) <=> ok(i)
    <3>1. i \in i..n /\ i..(i - 1) = {} /\ \A j \in i..n : j # i => i \in i..(j - 1)
      BY <1>1, <2>2
    <3> QED
      BY Zenon, <2>2, <3>1
  <2>3. ASSUME NEW i \in 1..(n + 1), ~(i > n), ~m(i) PROVE i + 1 \in 1..(n + 1) /\ (G(i) <=> G(i + 1))
    <3>1. /\ \A j \in i..n : j = i \/ (j \in (i + 1)..n /\ \A l \in (i + 1)..(j - 1) : l \in i..(j - 1))
          /\ \A j \in (i + 1)..n : j \in i..n /\ \A l \in i..(j - 1) : l = i \/ l \in (i + 1)..(j - 1)
      BY <1>1, <2>3
    <3>2. i + 1 \in 1..(n + 1)
      BY <1>1, <2>3
    <3>3. G(i) => G(i + 1)
      BY Zenon, <2>3, <3>1
    <3>4. G(i + 1) => G(i)
      BY Zenon, <2>3, <3>1
    <3> QED
      BY <3>2, <3>3, <3>4
  <2>4. \A i \in 1..(n + 1) : ok(i) \in BOOLEAN /\ G(i) \in BOOLEAN
    BY DEF ok
  <2> HIDE DEF G
  <2> SUFFICES ASSUME NEW i \in 1..(n + 1)
               PROVE  G(i) = IF i > n THEN FALSE ELSE IF m(i) THEN ok(i) ELSE g[i + 1]
    BY Zenon DEF g, body
  <2> QED
    BY Zenon, <2>1, <2>2, <2>3, <2>4
<1>3. F = body(F)
  <2> HIDE DEF body, g
  <2> QED
    BY <1>2
<1>4. Evaluate(p, ep) = F[1]
  BY DEF Evaluate
<1>5. EvaluateLoop(F, p, ep)
  <2> HIDE DEF F
  <2> QED
    BY Zenon, <1>3 DEF EvaluateLoop
<1> HIDE DEF F
<1> QED
  BY Zenon, <1>4, <1>5

(* Policy.Evaluate allows only what the first entry about it allows: from  *)
(* the entries before which none matches and from which the loop says yes, *)
(* take the last.                                                          *)
LEMMA EvaluateIsFirst ==
  ASSUME AuthzInv, NEW p, NEW ep, Evaluate(p, ep)
  PROVE  Allowed(p, ep)
<1>0. PICK f : Evaluate(p, ep) = f[1] /\ EvaluateLoop(f, p, ep)
  BY Zenon, EvaluateUnfolds
<1> DEFINE n == Len(st.entries)
           m(i) == matches(st.entries[i], p, ep)
           ok(i) == st.entries[i].action = "Allow"
<1>1. n \in Nat /\ DOMAIN st.entries = 1..n
  BY DEF AuthzInv
<1>2. \A i \in 1..(n + 1) : f[i] = IF i > n THEN FALSE ELSE IF m(i) THEN ok(i) ELSE f[i + 1]
  BY Zenon, <1>0 DEF EvaluateLoop
<1>9. f[1]
  BY Zenon, <1>0
<1> HIDE DEF m, ok, n
<1> DEFINE good(i) == f[i] /\ \A j \in 1..(i - 1) : ~m(j)
           T == {x \in 0..n : good(n + 1 - x)}
<1>3. PICK x \in T : \A y \in T : x <= y
  <2>1. n \in T
    BY <1>1, <1>9
  <2>2. T \in SUBSET Nat
    OBVIOUS
  <2> QED
    BY Zenon, <2>1, <2>2, LeastNat
<1> DEFINE i == n + 1 - x
<1>4. i \in 1..(n + 1) /\ x \in 0..n /\ good(i)
  BY <1>1, <1>3
<1>5. f[i] = IF i > n THEN FALSE ELSE IF m(i) THEN ok(i) ELSE f[i + 1]
  BY Zenon, <1>2, <1>4
<1>6. i \in 1..n
  <2>1. ~(i > n)
    BY Zenon, <1>4, <1>5
  <2> QED
    BY <1>1, <1>4, <2>1
<1>7. m(i)
  <2> SUFFICES ASSUME ~m(i) PROVE FALSE
    OBVIOUS
  <2>1. f[i + 1] /\ ~(i > n)
    BY Zenon, <1>1, <1>4, <1>5, <1>6
  <2>2. \A j \in 1..(i + 1 - 1) : j = i \/ j \in 1..(i - 1)
    BY <1>6
  <2>3. good(i + 1)
    BY <1>4, <2>1, <2>2
  <2>4. x - 1 \in 0..n /\ n + 1 - (x - 1) = i + 1
    BY <1>1, <1>4, <1>6
  <2>5. x - 1 \in T
    BY <2>3, <2>4
  <2>6. x <= x - 1
    BY <1>3, <2>5
  <2> QED
    BY <1>4, <2>6
<1>8. ok(i)
  BY Zenon, <1>1, <1>4, <1>5, <1>6, <1>7
<1> QED
  BY SMTT(30), <1>1, <1>4, <1>6, <1>7, <1>8 DEF Allowed, m, ok

LEMMA AuthzStep == AuthzInv /\ AuthzNext => AuthzInv'
<1> SUFFICES ASSUME AuthzInv, AuthzNext PROVE AuthzInv'
  OBVIOUS
<1>1. ASSUME NEW e \in Entry, Add(e) PROVE AuthzInv'
  <2>1. st' = [entries |-> Append(st.entries, e), closed |-> st.closed] /\ seen' = seen
    BY Zenon, <1>1 DEF Add, AuthzInv
  <2>2. Append(st.entries, e) \in Seq(Entry)
    BY DEF AuthzInv
  <2> QED
    BY <2>1, <2>2 DEF AuthzInv
<1>2. CASE SetEntries(<<>>)
  <2>1. st' = [entries |-> <<>>, closed |-> st.closed] /\ seen' = seen
    BY <1>2 DEF SetEntries, AuthzInv
  <2> QED
    BY <2>1 DEF AuthzInv
<1>3. ASSUME NEW c \in Callers, RequestJudge(c) PROVE AuthzInv'
  <2>1. st' = st /\ (seen' = seen \/ (Evaluate(calls[c].p, calls[c].ep) /\ seen' = (seen /\ Allowed(calls[c].p, calls[c].ep))))
    BY <1>3 DEF RequestJudge
  <2>2. seen'
    BY Zenon, <2>1, EvaluateIsFirst DEF AuthzInv
  <2> QED
    BY <2>1, <2>2 DEF AuthzInv
<1>4. ASSUME UNCHANGED <<st, seen>> PROVE AuthzInv'
  BY <1>4 DEF AuthzInv
<1>5. CASE AuthzClose
  <2>1. st' = [entries |-> st.entries, closed |-> TRUE] /\ seen' = seen
    BY Zenon, <1>5 DEF AuthzClose, AuthzInv
  <2> QED
    BY <2>1 DEF AuthzInv
<1> QED
  BY Zenon, <1>1, <1>2, <1>3, <1>4, <1>5 DEF AuthzNext, AuthzRequestForward, RequestBegin

-----------------------------------------------------------------------------
(* proxy, pacer and typed. *)
(* The upstream answers are numbered; one that is held by a call has not   *)
(* been given yet, and two calls hold different ones.                      *)
ProxyHeld(c) == calls[c].pc = "answer"

ProxyInv ==
  /\ st = [closed |-> st.closed, number |-> st.number] /\ st.number \in Nat
  /\ calls = [c \in Callers |-> calls[c]]
  /\ \A c \in Callers : ProxyHeld(c) =>
       /\ calls[c].resp.body \in 1..st.number
       /\ \A s \in seen : s.got.body # calls[c].resp.body
  /\ \A c, d \in Callers : ProxyHeld(c) /\ ProxyHeld(d) /\ c # d => calls[c].resp.body # calls[d].resp.body
  /\ \A s \in seen : s.got.addr = s.req.addr /\ s.got.number = s.req.number /\ s.got.body \in 1..st.number
  /\ \A s, t \in seen : s.got.body = t.got.body => s = t

LEMMA ProxyInitial == ProxyInit => ProxyInv
BY SMTT(30) DEF ProxyInit, ProxyInv, ProxyHeld, CallsInit, Idle

LEMMA ProxySound == ProxyInv => AnswerFitsRequest
BY SMTT(30) DEF ProxyInv, AnswerFitsRequest

(* A call that holds no answer afterwards. *)
LEMMA ProxyLets ==
  ASSUME ProxyInv, NEW c \in Callers, NEW k, goes(c, k), k.pc # "answer", UNCHANGED <<st, seen>>
  PROVE  ProxyInv'
<1>1. /\ calls' = [d \in Callers |-> calls'[d]]
      /\ calls'[c] = k /\ \A d \in Callers : d # c => calls'[d] = calls[d]
  BY GoesOne DEF ProxyInv
<1>2. \A d \in Callers : ProxyHeld(d)' => d # c /\ ProxyHeld(d) /\ calls'[d] = calls[d]
  BY <1>1 DEF ProxyHeld
<1> QED
  BY SMTT(30), <1>1, <1>2 DEF ProxyInv

LEMMA ProxyStep == ProxyInv /\ ProxyNext => ProxyInv'
<1> SUFFICES ASSUME ProxyInv, ProxyNext PROVE ProxyInv'
  OBVIOUS
<1>1. ASSUME NEW c \in Callers, NEW a \in Proxied, NEW n \in 1..MaxNumber, ProxyHandleRequest(c, a, n) PROVE ProxyInv'
  BY <1>1, ProxyLets DEF ProxyHandleRequest
<1>2. ASSUME NEW c \in Callers, Upstream(c) PROVE ProxyInv'
  <2>1. CASE returns(c) /\ UNCHANGED <<st, seen>>
    BY <2>1, ProxyLets DEF returns, Idle
  <2>2. ASSUME st' = [st EXCEPT !.number = @ + 1], NEW q, NEW a,
               goes(c, [pc |-> "answer", req |-> q, resp |-> [addr |-> a, number |-> st.number + 1, body |-> st.number + 1]]),
               seen' = seen
        PROVE  ProxyInv'
    <3> DEFINE k == [pc |-> "answer", req |-> q, resp |-> [addr |-> a, number |-> st.number + 1, body |-> st.number + 1]]
    <3>1. k.pc = "answer" /\ k.resp.body = st.number + 1
      OBVIOUS
    <3> HIDE DEF k
    <3>2. /\ calls' = [d \in Callers |-> calls'[d]]
          /\ calls'[c] = k /\ \A d \in Callers : d # c => calls'[d] = calls[d]
      BY <2>2, GoesOne DEF ProxyInv, k
    <3>3. st' = [closed |-> st.closed, number |-> st.number + 1] /\ st'.number = st.number + 1 /\ st.number \in Nat
      BY <2>2 DEF ProxyInv
    <3>4. \A d \in Callers : ProxyHeld(d)' =>
            \/ d # c /\ ProxyHeld(d) /\ calls'[d].resp.body = calls[d].resp.body
            \/ d = c /\ calls'[d].resp.body = st.number + 1
      BY <3>1, <3>2 DEF ProxyHeld
    <3>5. \A d \in Callers : ProxyHeld(d) => calls[d].resp.body \in 1..st.number
      BY DEF ProxyInv
    <3> QED
      BY <2>2, <3>2, <3>3, <3>4, <3>5 DEF ProxyInv
  <2> QED
    BY <1>2, <2>1, <2>2 DEF Upstream
<1>3. ASSUME NEW c \in Callers, Answer(c) PROVE ProxyInv'
  <2> DEFINE x == [req |-> calls[c].req, got |-> answer(calls[c].req, calls[c].resp)]
  <2>1. goes(c, Idle) /\ st' = st /\ seen' = seen \cup {x} /\ ProxyHeld(c)
    BY SMTT(30), <1>3 DEF Answer, returns, at, ProxyHeld
  <2>2. /\ calls' = [d \in Callers |-> calls'[d]]
        /\ calls'[c] = Idle /\ \A d \in Callers : d # c => calls'[d] = calls[d]
    BY SMTT(30), <2>1, GoesOne DEF ProxyInv
  <2>3. \A d \in Callers : ProxyHeld(d)' => d # c /\ ProxyHeld(d) /\ calls'[d].resp.body = calls[d].resp.body
    BY <2>2 DEF ProxyHeld, Idle
  <2>4. x.got.addr = x.req.addr /\ x.got.number = x.req.number /\ x.got.body = calls[c].resp.body
    BY SMTT(30) DEF answer
  <2> HIDE DEF x
  <2> QED
    BY SMTT(30), <2>1, <2>2, <2>3, <2>4 DEF ProxyInv
<1>4. CASE ProxyClose
  <2>1. st' = [closed |-> TRUE, number |-> st.number] /\ calls' = calls /\ seen' = seen
    BY Zenon, <1>4 DEF ProxyClose, ProxyInv
  <2> QED
    BY SMTT(30), <2>1 DEF ProxyInv, ProxyHeld
<1> QED
  BY <1>1, <1>2, <1>3, <1>4 DEF ProxyNext

-----------------------------------------------------------------------------
(* sim.Pacer. *)
PacerInv ==
  /\ st = [last |-> st.last, armed |-> st.armed, now |-> st.now] /\ st.now \in Nat
  /\ seen.last \in Int /\ seen.gap >= Interval
  /\ seen.last < 0 \/ (st.armed /\ st.last = seen.last)

LEMMA PacerInitial == PacerInit => PacerInv
<1> SUFFICES ASSUME PacerInit PROVE PacerInv
  OBVIOUS
<1>1. st = [last |-> 0, armed |-> FALSE, now |-> 0]
  BY DEF PacerInit
<1>2. seen.last = -1 /\ seen.gap = Interval
  BY DEF PacerInit
<1>3. seen.last \in Int /\ seen.last < 0 /\ seen.gap >= Interval
  BY <1>2, PacerAssumption
<1>4. st = [last |-> st.last, armed |-> st.armed, now |-> st.now]
  BY Zenon, <1>1
<1>5. st.now \in Nat
  BY <1>1
<1> QED
  BY Zenon, <1>3, <1>4, <1>5 DEF PacerInv

LEMMA PacerSound == PacerInv => FiringsSpaced
BY DEF PacerInv, FiringsSpaced

LEMMA PacerStep == PacerInv /\ PacerNext => PacerInv'
<1> SUFFICES ASSUME PacerInv, PacerNext PROVE PacerInv'
  OBVIOUS
<1>1. ASSUME NEW c \in Callers, Pump(c) PROVE PacerInv'
  <2>1. st' = [last |-> st.now, armed |-> TRUE, now |-> st.now] /\ st'.armed = TRUE
    BY Zenon, <1>1 DEF Pump, due, PacerInv
  <2> QED
    BY <1>1, <2>1, PacerAssumption DEF Pump, PacerInv
<1>2. ASSUME NEW c \in Callers, Fire(c) PROVE PacerInv'
  BY <1>2 DEF Fire, PacerInv
<1>3. CASE Tick
  <2>1. st' = [last |-> st.last, armed |-> st.armed, now |-> st.now + 1] /\ seen' = seen
    BY <1>3 DEF Tick, PacerInv
  <2> QED
    BY <2>1 DEF PacerInv
<1>4. CASE Reset
  <2>1. st' = [last |-> st.last, armed |-> FALSE, now |-> st.now] /\ seen' = [last |-> -1, gap |-> Interval]
    BY Zenon, <1>4 DEF Reset, PacerInv
  <2>2. seen'.last = -1 /\ seen'.gap = Interval
    BY <2>1
  <2>3. seen'.last \in Int /\ seen'.last < 0 /\ seen'.gap >= Interval
    BY <2>2, PacerAssumption
  <2>4. st' = [last |-> st'.last, armed |-> st'.armed, now |-> st'.now] /\ st'.now = st.now
    BY Zenon, <2>1
  <2> QED
    BY Zenon, <2>3, <2>4 DEF PacerInv
<1> QED
  BY <1>1, <1>2, <1>3, <1>4 DEF PacerNext

-----------------------------------------------------------------------------
(* dyndata. *)
TypedInv ==
  /\ st = [schemas |-> st.schemas, closed |-> st.closed]
  /\ seen = [sent |-> seen.sent, n |-> seen.n]
  /\ calls = [c \in Callers |-> calls[c]]
  /\ \A n \in DOMAIN st.schemas : st.schemas[n] \in Schemas /\ st.schemas[n].name = n
  /\ \A c \in Callers : calls[c].pc = "encode" =>
       calls[c].s.name \in DOMAIN st.schemas /\ st.schemas[calls[c].s.name] = calls[c].s
  /\ \A x \in seen.sent : x.s \in DOMAIN st.schemas /\ Encodes(st.schemas[x.s], x.p)

(* json.Marshal and json.Unmarshal leave every kind a kind that checkKind  *)
(* takes.                                                                  *)
LEMMA JsonKeepsKind ==
  ASSUME NEW k \in {"string", "int", "float", "bool", "bytes"}, NEW t \in goTypes(k)
  PROVE  jsonType(t) \in goTypes(k)
<1>1. CASE k = "string"
  BY <1>1 DEF goTypes, jsonType
<1>2. CASE k = "int"
  BY <1>2 DEF goTypes, jsonType
<1>3. CASE k = "float"
  BY <1>3 DEF goTypes, jsonType
<1>4. CASE k = "bool"
  BY <1>4 DEF goTypes, jsonType
<1>5. CASE k = "bytes"
  BY <1>5 DEF goTypes, jsonType
<1> QED
  BY <1>1, <1>2, <1>3, <1>4, <1>5

LEMMA DecodedEncodes ==
  ASSUME NEW s \in Schemas, NEW p, Encodes(s, p)
  PROVE  Encodes(s, Decode(p))
<1>1. DOMAIN Decode(p) = DOMAIN p /\ \A n \in DOMAIN p : Decode(p)[n] = jsonType(p[n])
  BY DEF Decode
<1>2. ASSUME NEW f \in s.fields, f.name \in DOMAIN p PROVE Decode(p)[f.name] \in goTypes(f.kind)
  <2>1. p[f.name] \in goTypes(f.kind)
    BY <1>2 DEF Encodes
  <2>2. f.kind \in {"string", "int", "float", "bool", "bytes"}
    BY TypedAssumption
  <2>3. jsonType(p[f.name]) \in goTypes(f.kind)
    BY <2>1, <2>2, JsonKeepsKind
  <2> QED
    BY <1>1, <1>2, <2>3
<1> QED
  BY SMTT(30), <1>1, <1>2 DEF Encodes

LEMMA TypedInitial == TypedInit => TypedInv
BY DEF TypedInit, TypedInv, CallsInit, Idle

LEMMA TypedSound == TypedInv => DecodedFitsSchema
BY DecodedEncodes DEF TypedInv, DecodedFitsSchema

LEMMA TypedStep == TypedInv /\ TypedNext => TypedInv'
<1> SUFFICES ASSUME TypedInv, TypedNext PROVE TypedInv'
  OBVIOUS
<1>1. ASSUME NEW s \in Schemas, RegisterSchema(s) PROVE TypedInv'
  <2>1. CASE s.name \in DOMAIN st.schemas
    BY <1>1, <2>1 DEF RegisterSchema, TypedInv
  <2>2. CASE s.name \notin DOMAIN st.schemas
    <3>1. st' = [schemas |-> put(st.schemas, s.name, s), closed |-> st.closed] /\ calls' = calls /\ seen' = seen
      BY <1>1, <2>2 DEF RegisterSchema, TypedInv
    <3>2. /\ DOMAIN st'.schemas = DOMAIN st.schemas \cup {s.name}
          /\ st'.schemas[s.name] = s
          /\ \A n \in DOMAIN st.schemas : st'.schemas[n] = st.schemas[n]
      BY SMTT(30), <2>2, <3>1 DEF put
    <3> QED
      BY SMTT(30), <3>1, <3>2 DEF TypedInv
  <2> QED
    BY <2>1, <2>2
<1>2. ASSUME NEW c \in Callers, NEW n, SendTypedBegin(c, n) PROVE TypedInv'
  <2> DEFINE k == [pc |-> "encode", s |-> st.schemas[n]]
  <2>1. goes(c, k) /\ st' = st /\ seen' = [sent |-> seen.sent, n |-> seen.n + 1] /\ n \in DOMAIN st.schemas
    BY <1>2 DEF SendTypedBegin, TypedInv
  <2>2. k.s = st.schemas[n]
    OBVIOUS
  <2> HIDE DEF k
  <2>3. /\ calls' = [d \in Callers |-> calls'[d]]
        /\ calls'[c] = k /\ \A d \in Callers : d # c => calls'[d] = calls[d]
    BY SMTT(30), <2>1, GoesOne DEF TypedInv
  <2> QED
    BY SMTT(30), <2>1, <2>2, <2>3 DEF TypedInv
<1>3. ASSUME NEW c \in Callers, NEW p \in Payloads, SendTypedEnd(c, p) PROVE TypedInv'
  <2>1. goes(c, Idle) /\ st' = st /\ calls[c].pc = "encode"
    BY <1>3 DEF SendTypedEnd, returns, at
  <2>2. /\ calls' = [d \in Callers |-> calls'[d]]
        /\ calls'[c] = Idle /\ \A d \in Callers : d # c => calls'[d] = calls[d]
    BY SMTT(30), <2>1, GoesOne DEF TypedInv
  <2>3. Idle.pc # "encode"
    BY DEF Idle
  <2>4. CASE seen' = seen
    BY SMTT(30), <2>1, <2>2, <2>3, <2>4 DEF TypedInv
  <2>5. CASE Encodes(calls[c].s, p) /\ seen' = [seen EXCEPT !.sent = @ \cup {[s |-> calls[c].s.name, p |-> p]}]
    <3> DEFINE x == [s |-> calls[c].s.name, p |-> p]
    <3>1. x.s \in DOMAIN st.schemas /\ Encodes(st.schemas[x.s], x.p)
      BY <2>1, <2>5 DEF TypedInv
    <3>2. seen' = [sent |-> seen.sent \cup {x}, n |-> seen.n]
      BY Zenon, <2>5 DEF TypedInv
    <3> HIDE DEF x
    <3> QED
      BY SMTT(30), <2>1, <2>2, <2>3, <3>1, <3>2 DEF TypedInv
  <2> QED
    BY <1>3, <2>4, <2>5 DEF SendTypedEnd
<1>4. CASE TypedClose
  <2>1. st' = [schemas |-> st.schemas, closed |-> 1] /\ calls' = calls /\ seen' = seen
    BY <1>4 DEF TypedClose, TypedInv
  <2> QED
    BY SMTT(30), <2>1 DEF TypedInv
<1> QED
  BY <1>1, <1>2, <1>3, <1>4 DEF TypedNext

-----------------------------------------------------------------------------
(* The packages together. *)
HandlersInv ==
  /\ kind \in {"recording", "router", "authz", "proxy", "pacer", "typed"}
  /\ kind = "recording" => RecordingInv
  /\ kind = "router" => RouterInv
  /\ kind = "authz" => AuthzInv
  /\ kind = "proxy" => ProxyInv
  /\ kind = "pacer" => PacerInv
  /\ kind = "typed" => TypedInv

(* At every moment of every behaviour the handlers' promises hold: an      *)
(* answer that proxy.Handler passes on is the one to the request, a fault  *)
(* rule fires as often as asked and the recorder's snapshot is the newest  *)
(* of its log, authz forwards what the first matching entry allows, a      *)
(* pacer's firings are apart, typed decodes what fits the schema, and      *)
(* udp.Router answers through a registered handler and is silent only      *)
(* where TC18 asks for it.                                                 *)
THEOREM HandlersAreSafe == HandlersSpec => []HandlersSafe
<1>1. HandlersInit => HandlersInv
  BY RecordingInitial, RouterInitial, AuthzInitial, ProxyInitial, PacerInitial, TypedInitial DEF HandlersInit, HandlersInv
<1>2. HandlersInv /\ [HandlersNext]_vars => HandlersInv'
  <2> SUFFICES ASSUME HandlersInv, [HandlersNext]_vars PROVE HandlersInv'
    OBVIOUS
  <2>1. CASE kind = "recording" /\ RecordingNext /\ UNCHANGED kind
    BY <2>1, RecordingStep DEF HandlersInv
  <2>2. CASE kind = "router" /\ RouterNext /\ UNCHANGED kind
    BY <2>2, RouterStep DEF HandlersInv
  <2>3. CASE kind = "authz" /\ AuthzNext /\ UNCHANGED kind
    BY <2>3, AuthzStep DEF HandlersInv
  <2>4. CASE kind = "proxy" /\ ProxyNext /\ UNCHANGED kind
    BY <2>4, ProxyStep DEF HandlersInv
  <2>5. CASE kind = "pacer" /\ PacerNext /\ UNCHANGED kind
    BY <2>5, PacerStep DEF HandlersInv
  <2>6. CASE kind = "typed" /\ TypedNext /\ UNCHANGED kind
    BY <2>6, TypedStep DEF HandlersInv
  <2>7. CASE UNCHANGED vars
    <3>1. kind' = kind /\ st' = st /\ calls' = calls /\ seen' = seen
      BY <2>7 DEF vars
    <3>2. RecordingInv => RecordingInv'
      BY <3>1 DEF RecordingInv
    <3>3. RouterInv => RouterInv'
      BY SMTT(30), <3>1 DEF RouterInv, RouterTable, RouterCalls, RouterRight, ReplyRight
    <3>4. AuthzInv => AuthzInv'
      BY <3>1 DEF AuthzInv
    <3>5. ProxyInv => ProxyInv'
      BY SMTT(30), <3>1 DEF ProxyInv, ProxyHeld
    <3>6. PacerInv => PacerInv'
      BY <3>1 DEF PacerInv
    <3>7. TypedInv => TypedInv'
      BY SMTT(30), <3>1 DEF TypedInv
    <3> QED
      BY <3>1, <3>2, <3>3, <3>4, <3>5, <3>6, <3>7 DEF HandlersInv
  <2> QED
    BY <2>1, <2>2, <2>3, <2>4, <2>5, <2>6, <2>7 DEF HandlersNext
<1>3. HandlersInv => HandlersSafe
  BY RecordingSound, RouterSound, AuthzSound, ProxySound, PacerSound, TypedSound DEF HandlersInv, HandlersSafe
<1> QED
  BY <1>1, <1>2, <1>3, PTL DEF HandlersSpec

(* Route calls a handler only for an address it was registered for during  *)
(* the Route, and never reports a registered endpoint as unknown.          *)
THEOREM HandlersAreRegistered == HandlersSpec => [](kind = "router" => AnsweredByRegistered)
<1>1. HandlersSafe => (kind = "router" => AnsweredByRegistered)
  BY Zenon DEF HandlersSafe
<1> QED
  BY <1>1, HandlersAreSafe, PTL

(* Route answers every request but those TC18 wants unanswered, and every  *)
(* error has a code of the table.                                          *)
THEOREM SilenceIsSpecified == HandlersSpec => [](kind = "router" => SilentOnlyAsSpecified)
<1>1. HandlersSafe => (kind = "router" => SilentOnlyAsSpecified)
  BY Zenon DEF HandlersSafe
<1> QED
  BY <1>1, HandlersAreSafe, PTL
=============================================================================
