----------------------------- MODULE EventKeys -----------------------------
(***************************************************************************)
(* The keys of the simulator's events: their time and, among the events of *)
(* one time, their uid, which grows with every event scheduled.            *)
(***************************************************************************)
EXTENDS Integers, Sequences, FiniteSets

Key == [ts : Nat, uid : Nat]

\* operator < on EventKey.
Earlier(a, b) == a.ts < b.ts \/ (a.ts = b.ts /\ a.uid < b.uid)

\* k in a sorted std::list of keys: before the first one it is earlier than.
Inserted(s, k) ==
  LET n == Cardinality({i \in DOMAIN s : \A j \in 1..i : ~Earlier(k, s[j])})
  IN  SubSeq(s, 1, n) \o <<k>> \o SubSeq(s, n + 1, Len(s))

\* Where Remove finds the event of uid e.uid.
Position(s, e) == CHOOSE i \in DOMAIN s : s[i].uid = e.uid

\* The list that inserting a set of keys one by one makes of them: at position
\* i is the key that i of them are not later than.
Sorted(keys) ==
  [i \in 1..Cardinality(keys) |->
     CHOOSE k \in keys : Cardinality({l \in keys : ~Earlier(k, l)}) = i]
============================================================================
