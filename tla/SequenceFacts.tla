--------------------------- MODULE SequenceFacts ---------------------------
(***************************************************************************)
(* Facts about positions: what the erase of the first occurrence of an     *)
(* element (the loops of NetChart::RemoveSub and RemoveRouting) returns,   *)
(* and that a loop over a list, written as a recursive function of the     *)
(* position, is defined and keeps what each of its turns keeps.            *)
(***************************************************************************)
EXTENDS SequencesExt, WellFoundedInduction, TLAPS

\* Positions of e in s.
Positions(s, e) == {i \in 1..Len(s) : s[i] = e}

\* Min of a set of positions is its least element.
LEMMA LeastPosition ==
  ASSUME NEW I \in SUBSET Nat, I # {}
  PROVE  Min(I) \in I /\ \A i \in I : Min(I) <= i
<1> DEFINE R == {ss \in Nat \X Nat : ss[1] < ss[2]}
<1>1. IsWellFoundedOn(R, Nat)
  BY NatLessThanWellFounded DEF OpToRel
<1>2. \E n \in I : \A i \in I : ~(<<i, n>> \in R)
  <2> HIDE DEF R
  <2> QED
    BY <1>1, WFMin
<1>3. PICK n \in I : \A i \in I : <<i, n>> \notin R
  BY <1>2
<1>4. \A i \in I : n <= i
  <2> TAKE i \in I
  <2>1. i \in Nat /\ n \in Nat /\ <<i, n>> \in Nat \X Nat
    OBVIOUS
  <2>2. ~(i < n)
    <3> SUFFICES ASSUME i < n PROVE FALSE
      OBVIOUS
    <3>1. <<i, n>>[1] < <<i, n>>[2]
      OBVIOUS
    <3> QED
      BY <2>1, <3>1, <1>3, Zenon
  <2> QED
    BY <2>1, <2>2
<1>5. \E m \in I : \A i \in I : m <= i
  BY <1>4
<1> QED
  BY <1>5 DEF Min

\* RemoveFirst without the higher-order SelectInSeq.
LEMMA RemoveFirstMeans ==
  ASSUME NEW S, NEW s \in Seq(S), NEW e
  PROVE  RemoveFirst(s, e) = IF Positions(s, e) = {} THEN s
                             ELSE RemoveAt(s, Min(Positions(s, e)))
BY DEF RemoveFirst, SelectInSeq, Positions

\* Erasing the element at a position keeps the rest in order.
LEMMA RemoveAtProperties ==
  ASSUME NEW S, NEW s \in Seq(S), NEW m \in 1..Len(s)
  PROVE  /\ RemoveAt(s, m) \in Seq(S)
         /\ Len(RemoveAt(s, m)) = Len(s) - 1
         /\ \A i \in 1..Len(s) - 1 :
              RemoveAt(s, m)[i] = IF i < m THEN s[i] ELSE s[i + 1]
<1>1. PICK l : l = SubSeq(s, 1, m - 1)
  OBVIOUS
<1>2. PICK r : r = SubSeq(s, m + 1, Len(s))
  OBVIOUS
<1>3. l \in Seq(S) /\ Len(l) = m - 1 /\ \A i \in 1..m - 1 : l[i] = s[i]
  BY <1>1
<1>4. /\ r \in Seq(S) /\ Len(r) = Len(s) - m
      /\ \A i \in 1..Len(s) - m : r[i] = s[m + i]
  BY <1>2
<1>5. /\ l \o r \in Seq(S) /\ Len(l \o r) = Len(s) - 1
      /\ \A i \in 1..Len(s) - 1 :
           (l \o r)[i] = IF i < m THEN l[i] ELSE r[i - (m - 1)]
  BY <1>3, <1>4, SMTT(30)
<1>6. \A i \in 1..Len(s) - 1 : (l \o r)[i] = IF i < m THEN s[i] ELSE s[i + 1]
  <2> TAKE i \in 1..Len(s) - 1
  <2>1. CASE i < m
    BY <2>1, <1>3, <1>5
  <2>2. CASE ~(i < m)
    <3>1. i - (m - 1) \in 1..Len(s) - m /\ m + (i - (m - 1)) = i + 1
      BY <2>2
    <3> QED
      BY <2>2, <3>1, <1>4, <1>5
  <2> QED
    BY <2>1, <2>2
<1> QED
  BY <1>1, <1>2, <1>5, <1>6 DEF RemoveAt

\* Erasing the first occurrence keeps a sequence over its set.
LEMMA RemoveFirstType ==
  ASSUME NEW S, NEW s \in Seq(S), NEW e
  PROVE  RemoveFirst(s, e) \in Seq(S)
<1>1. CASE Positions(s, e) = {}
  BY <1>1, RemoveFirstMeans
<1>2. CASE Positions(s, e) # {}
  <2>0. Positions(s, e) \in SUBSET Nat /\ Positions(s, e) \subseteq 1..Len(s)
    BY DEF Positions
  <2>1. Min(Positions(s, e)) \in 1..Len(s)
    BY <1>2, <2>0, LeastPosition
  <2> QED
    BY <1>2, <2>1, RemoveFirstMeans, RemoveAtProperties
<1> QED
  BY <1>1, <1>2

\* e is in s exactly once, or not at all.
Once(s, e) == \E k \in DOMAIN s : \A j \in DOMAIN s : s[j] = e <=> j = k
Absent(s, e) == \A k \in DOMAIN s : s[k] # e

\* Erasing an element that is there once takes it away and leaves the others
\* as often as they were.
LEMMA RemoveFirstCounts ==
  ASSUME NEW S, NEW s \in Seq(S), NEW d
  PROVE  /\ Len(RemoveFirst(s, d)) <= Len(s)
         /\ Absent(s, d) => RemoveFirst(s, d) = s
         /\ Once(s, d) => Absent(RemoveFirst(s, d), d)
         /\ \A e : e # d /\ Once(s, e) => Once(RemoveFirst(s, d), e)
         /\ \A e : e # d /\ Absent(s, e) => Absent(RemoveFirst(s, d), e)
<1>0. DOMAIN s = 1..Len(s) /\ Len(s) \in Nat
  OBVIOUS
<1>1. CASE Positions(s, d) = {}
  <2>1. RemoveFirst(s, d) = s
    BY <1>1, RemoveFirstMeans
  <2>2. ~Once(s, d)
    BY <1>0, <1>1 DEF Positions, Once
  <2> QED
    BY <1>0, <2>1, <2>2
<1>2. CASE Positions(s, d) # {}
  <2>0. Positions(s, d) \in SUBSET Nat /\ Positions(s, d) \subseteq 1..Len(s)
    BY DEF Positions
  <2>1. PICK m \in Positions(s, d) : RemoveFirst(s, d) = RemoveAt(s, m)
    BY <1>2, <2>0, LeastPosition, RemoveFirstMeans
  <2>2. m \in 1..Len(s) /\ s[m] = d
    BY <2>1 DEF Positions
  <2>3. PICK u : u = RemoveFirst(s, d)
    OBVIOUS
  <2>4. /\ u \in Seq(S) /\ Len(u) = Len(s) - 1
        /\ \A i \in 1..Len(s) - 1 : u[i] = IF i < m THEN s[i] ELSE s[i + 1]
    BY <2>1, <2>2, <2>3, RemoveAtProperties
  <2>5. DOMAIN u = 1..Len(s) - 1
    BY <2>4
  <2> DEFINE old(i) == IF i < m THEN i ELSE i + 1
             new(j) == IF j < m THEN j ELSE j - 1
  <2>6. \A i \in DOMAIN u : old(i) \in DOMAIN s /\ old(i) # m /\ new(old(i)) = i /\ u[i] = s[old(i)]
    BY <1>0, <2>2, <2>4, <2>5
  <2>7. \A j \in DOMAIN s : j # m => new(j) \in DOMAIN u /\ old(new(j)) = j
    BY <1>0, <2>2, <2>5
  <2> HIDE DEF old, new
  <2>8. ASSUME Once(s, d) PROVE Absent(u, d)
    BY <1>0, <2>2, <2>6, <2>8 DEF Once, Absent
  <2>9. ASSUME NEW e, e # d, Once(s, e) PROVE Once(u, e)
    <3>1. PICK k \in DOMAIN s : \A j \in DOMAIN s : s[j] = e <=> j = k
      BY <2>9 DEF Once
    <3>2. k # m
      BY <2>2, <2>9, <3>1
    <3>3. new(k) \in DOMAIN u /\ \A i \in DOMAIN u : u[i] = e <=> i = new(k)
      BY <2>6, <2>7, <3>1, <3>2
    <3> QED
      BY <3>3 DEF Once
  <2>10. ASSUME NEW e, Absent(s, e) PROVE Absent(u, e)
    BY <2>6, <2>10 DEF Absent
  <2>11. ~Absent(s, d)
    BY <1>0, <2>2 DEF Absent
  <2> QED
    BY <1>0, <2>3, <2>4, <2>8, <2>9, <2>10, <2>11
<1> QED
  BY <1>1, <1>2

\* Appending an element that is not there, and leaving the others.
LEMMA AppendCounts ==
  ASSUME NEW S, NEW s \in Seq(S), NEW d \in S
  PROVE  /\ Len(Append(s, d)) = Len(s) + 1
         /\ Absent(s, d) => Once(Append(s, d), d)
         /\ \A e : e # d /\ Once(s, e) => Once(Append(s, d), e)
         /\ \A e : e # d /\ Absent(s, e) => Absent(Append(s, d), e)
<1>1. PICK u : u = Append(s, d)
  OBVIOUS
<1>2. /\ u \in Seq(S) /\ Len(u) = Len(s) + 1 /\ Len(s) \in Nat
      /\ DOMAIN u = 1..Len(s) + 1 /\ DOMAIN s = 1..Len(s)
      /\ \A k \in DOMAIN s : k \in DOMAIN u /\ k # Len(s) + 1 /\ u[k] = s[k]
      /\ Len(s) + 1 \in DOMAIN u /\ u[Len(s) + 1] = d
  BY <1>1
<1>3. \A k \in DOMAIN u : k \in DOMAIN s \/ k = Len(s) + 1
  BY <1>2
<1>4. ASSUME Absent(s, d) PROVE Once(u, d)
  <2>1. \A j \in DOMAIN u : u[j] = d <=> j = Len(s) + 1
    BY <1>2, <1>3, <1>4 DEF Absent
  <2> QED
    BY <1>2, <2>1 DEF Once
<1>5. ASSUME NEW e, e # d, Once(s, e) PROVE Once(u, e)
  <2>1. PICK k \in DOMAIN s : \A j \in DOMAIN s : s[j] = e <=> j = k
    BY <1>5 DEF Once
  <2>2. k \in DOMAIN u /\ \A j \in DOMAIN u : u[j] = e <=> j = k
    BY <1>2, <1>3, <1>5, <2>1
  <2> QED
    BY <2>2 DEF Once
<1>6. ASSUME NEW e, e # d, Absent(s, e) PROVE Absent(u, e)
  BY <1>2, <1>3, <1>6 DEF Absent
<1> QED
  BY <1>1, <1>2, <1>4, <1>5, <1>6

\* What holds at 0 and is kept from each number to the next holds up to N.
LEMMA PrefixInduction ==
  ASSUME NEW N \in Nat, NEW G, 0 \in G,
         \A k \in 1..N : k - 1 \in G => k \in G
  PROVE  0..N \subseteq G
<1> DEFINE Bad == (0..N) \ G
<1> SUFFICES ASSUME Bad # {} PROVE FALSE
  OBVIOUS
<1>1. Bad \in SUBSET Nat
  OBVIOUS
<1>2. Min(Bad) \in Bad /\ \A i \in Bad : Min(Bad) <= i
  <2> HIDE DEF Bad
  <2> QED
    BY <1>1, LeastPosition
<1>3. PICK m \in Bad : \A i \in Bad : m <= i
  BY <1>2
<1>4. m \in 1..N /\ m - 1 \in 0..N /\ m - 1 \notin Bad
  BY <1>3
<1> QED
  BY <1>3, <1>4

\* f holds what a loop of N turns has computed after each of them.
Runs(f, N, init, turn) ==
  f[0] = init /\ \A k \in 1..N : f[k] = turn[<<k, f[k - 1]>>]

\* A loop of N turns computes something: its recursive definition is satisfied.
LEMMA LoopIsDefined ==
  ASSUME NEW N \in Nat, NEW S, NEW init \in S, NEW turn \in [(1..N) \X S -> S]
  PROVE  \E f \in [0..N -> S] : Runs(f, N, init, turn)
<1> DEFINE G == {n \in 0..N : \E f \in [0..n -> S] : Runs(f, n, init, turn)}
<1>1. 0 \in G
  <2>1. PICK f : f = [k \in 0..0 |-> init]
    OBVIOUS
  <2>2. f \in [0..0 -> S] /\ f[0] = init /\ \A k \in 1..0 : FALSE
    BY <2>1
  <2>3. Runs(f, 0, init, turn)
    BY <2>2 DEF Runs
  <2> QED
    BY <2>2, <2>3
<1>2. ASSUME NEW n \in 1..N, n - 1 \in G
      PROVE  n \in G
  <2>1. PICK f \in [0..n - 1 -> S] : Runs(f, n - 1, init, turn)
    BY <1>2
  <2>2. PICK last \in S : last = turn[<<n, f[n - 1]>>]
    OBVIOUS
  <2>3. PICK g : g = [k \in 0..n |-> IF k = n THEN last ELSE f[k]]
    OBVIOUS
  <2>4. g \in [0..n -> S] /\ g[0] = init
    BY <2>1, <2>3 DEF Runs
  <2>5. \A k \in 0..n - 1 : g[k] = f[k]
    BY <2>3
  <2>6. \A k \in 1..n : g[k] = turn[<<k, g[k - 1]>>]
    <3> TAKE k \in 1..n
    <3>1. k - 1 \in 0..n - 1 /\ g[k - 1] = f[k - 1]
      BY <2>5
    <3>2. CASE k = n
      BY <3>1, <3>2, <2>2, <2>3
    <3>3. CASE k # n
      <4>1. k \in 1..n - 1 /\ k \in 0..n - 1
        BY <3>3
      <4> QED
        BY <3>1, <4>1, <2>1, <2>5 DEF Runs
    <3> QED
      BY <3>2, <3>3
  <2>7. Runs(g, n, init, turn)
    BY <2>4, <2>6 DEF Runs
  <2>8. \E h \in [0..n -> S] : Runs(h, n, init, turn)
    BY <2>4, <2>7
  <2> QED
    BY <2>8
<1>3. N \in G
  <2> HIDE DEF G
  <2> QED
    BY <1>1, <1>2, PrefixInduction
<1> QED
  BY <1>3
============================================================================
