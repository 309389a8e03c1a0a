-------------------------- MODULE SchedulersProofs --------------------------
(***************************************************************************)
(* Proofs about Schedulers: whatever is scheduled, run and removed, in     *)
(* whatever order and with whatever exchange of one scheduler for another, *)
(* the list, the heap and the calendar keep their structure and implement  *)
(* EventList.                                                              *)
(***************************************************************************)
EXTENDS Schedulers, SequenceFacts, SequenceTheorems, FiniteSetTheorems

----------------------------------------------------------------------------
(* Keys and sorted lists.                                                  *)

\* Earlier is a strict total order on the keys.
LEMMA EarlierIsOrder ==
  ASSUME NEW a \in Key, NEW b \in Key, NEW c \in Key
  PROVE  /\ ~Earlier(a, a)
         /\ Earlier(a, b) => ~Earlier(b, a) /\ a # b
         /\ Earlier(a, b) \/ Earlier(b, a) \/ a = b
         /\ Earlier(a, b) /\ Earlier(b, c) => Earlier(a, c)
         /\ ~Earlier(b, a) /\ ~Earlier(c, b) => ~Earlier(c, a)
BY DEF Earlier, Key

Ordered(s) == \A i, j \in DOMAIN s : i < j => Earlier(s[i], s[j])

\* What is in a sequence.
LEMMA InSequence ==
  ASSUME NEW s \in Seq(Key)
  PROVE  /\ ToSet(s) \subseteq Key
         /\ \A e : e \in ToSet(s) <=> \E i \in 1..Len(s) : s[i] = e
         /\ ToSet(s) = {} <=> s = <<>>
BY DEF ToSet

\* A set of positions that holds all those before each of its own is an
\* interval.
LEMMA PrefixOfPositions ==
  ASSUME NEW m \in Nat, NEW I \in SUBSET (1..m),
         \A i \in I : \A j \in 1..i : j \in I
  PROVE  Cardinality(I) \in 0..m /\ I = 1..Cardinality(I)
<1> DEFINE Out == (1..m + 1) \ I
<1>1. Out \in SUBSET Nat /\ m + 1 \in Out
  OBVIOUS
<1>2. PICK k \in Out : \A i \in Out : k <= i
  <2> HIDE DEF Out
  <2> QED
    BY <1>1, LeastPosition
<1>3. k \in 1..m + 1 /\ k \notin I /\ \A i \in 1..k - 1 : i \in I
  BY <1>2
<1>4. I = 1..k - 1
  <2>1. ASSUME NEW i \in I PROVE i \in 1..k - 1
    <3>1. ~(k <= i)
      BY <1>3
    <3> QED
      BY <1>3, <3>1
  <2> QED
    BY <1>3, <2>1
<1>5. Cardinality(1..k - 1) = k - 1
  <2>1. 1 \in Int /\ k - 1 \in Int
    BY <1>3
  <2> QED
    BY <1>3, <2>1, FS_Interval
<1> QED
  BY <1>3, <1>4, <1>5

\* The list scheduler's insert: a sorted list stays sorted, and holds the new
\* key besides the others.
LEMMA InsertedIsSorted ==
  ASSUME NEW s \in Seq(Key), Ordered(s), NEW k \in Key, k \notin ToSet(s)
  PROVE  /\ Inserted(s, k) \in Seq(Key) /\ Ordered(Inserted(s, k))
         /\ ToSet(Inserted(s, k)) = ToSet(s) \cup {k}
<1> DEFINE I == {i \in DOMAIN s : \A j \in 1..i : ~Earlier(k, s[j])}
<1>1. DOMAIN s = 1..Len(s) /\ Len(s) \in Nat /\ \A i \in 1..Len(s) : s[i] \in Key /\ s[i] # k
  BY InSequence
<1>2. PICK n \in 0..Len(s) : I = 1..n /\ n = Cardinality(I)
  <2>1. I \in SUBSET (1..Len(s)) /\ \A i \in I : \A j \in 1..i : j \in I
    BY <1>1
  <2> HIDE DEF I
  <2> QED
    BY <1>1, <2>1, PrefixOfPositions
<1>3. \A i \in 1..n : Earlier(s[i], k)
  <2> TAKE i \in 1..n
  <2>1. i \in I /\ i \in 1..i
    BY <1>2
  <2>2. ~Earlier(k, s[i]) /\ i \in 1..Len(s)
    BY <1>1, <2>1
  <2> QED
    BY <1>1, <2>2, EarlierIsOrder
<1>4. \A i \in n + 1..Len(s) : Earlier(k, s[i])
  <2> TAKE i \in n + 1..Len(s)
  <2>1. n + 1 \in 1..Len(s) /\ n + 1 \notin I
    <3> HIDE DEF I
    <3> QED
      BY <1>1, <1>2
  <2>2. PICK j \in 1..n + 1 : Earlier(k, s[j])
    BY <1>1, <2>1
  <2>3. j = i \/ Earlier(s[j], s[i])
    <3>1. j \in DOMAIN s /\ i \in DOMAIN s /\ (j = i \/ j < i)
      BY <1>1, <2>1
    <3> QED
      BY <3>1 DEF Ordered
  <2>4. s[j] \in Key /\ s[i] \in Key
    BY <1>1, <2>1
  <2> QED
    BY <2>2, <2>3, <2>4, EarlierIsOrder
<1>5. PICK l : l = SubSeq(s, 1, n)
  OBVIOUS
<1>6. PICK r : r = SubSeq(s, n + 1, Len(s))
  OBVIOUS
<1>7. l \in Seq(Key) /\ Len(l) = n /\ \A i \in 1..n : l[i] = s[i]
  BY <1>1, <1>5
<1>8. r \in Seq(Key) /\ Len(r) = Len(s) - n /\ \A i \in 1..Len(s) - n : r[i] = s[n + i]
  <2>1. n + 1 \in Int /\ Len(s) \in Int /\ \A i \in n + 1..Len(s) : s[i] \in Key
    BY <1>1
  <2>2. /\ r \in Seq(Key)
        /\ Len(r) = IF n + 1 <= Len(s) THEN Len(s) - (n + 1) + 1 ELSE 0
        /\ \A i \in 1..Len(s) - (n + 1) + 1 : r[i] = s[(n + 1) + i - 1]
    BY <1>6, <2>1, SubSeqProperties
  <2>3. Len(r) = Len(s) - n
    <3>1. n \in 0..Len(s)
      BY <1>2
    <3>2. PICK m \in Nat : m = Len(s)
      BY <1>1
    <3>3. n \in 0..m /\ (n + 1 <= m \/ n = m)
      BY <3>1, <3>2
    <3>4. Len(r) = IF n + 1 <= m THEN m - (n + 1) + 1 ELSE 0
      BY <2>2, <3>2
    <3> QED
      BY <3>2, <3>3, <3>4
  <2>4. ASSUME NEW i \in 1..Len(s) - n PROVE r[i] = s[n + i]
    <3>1. i \in 1..Len(s) - (n + 1) + 1 /\ (n + 1) + i - 1 = n + i
      BY <1>1
    <3> QED
      BY <2>2, <3>1
  <2> QED
    BY <2>2, <2>3, <2>4
<1>9. PICK one : one = <<k>>
  OBVIOUS
<1>10. one \in Seq(Key) /\ Len(one) = 1 /\ one[1] = k
  BY <1>9
<1>11. PICK lk : lk = l \o one
  OBVIOUS
<1>12. /\ lk \in Seq(Key) /\ Len(lk) = n + 1
       /\ \A i \in 1..n + 1 : lk[i] = IF i <= n THEN l[i] ELSE one[i - n]
  <2>1. /\ lk \in Seq(Key) /\ Len(lk) = Len(l) + Len(one)
        /\ \A i \in 1..Len(l) + Len(one) :
             lk[i] = IF i <= Len(l) THEN l[i] ELSE one[i - Len(l)]
    BY <1>7, <1>10, <1>11, ConcatProperties
  <2> QED
    BY <1>7, <1>10, <2>1
<1>13. PICK t : t = lk \o r
  OBVIOUS
<1>14. /\ t \in Seq(Key) /\ Len(t) = Len(s) + 1
       /\ \A i \in 1..Len(s) + 1 : t[i] = IF i <= n + 1 THEN lk[i] ELSE r[i - (n + 1)]
  <2>1. (n + 1) + (Len(s) - n) = Len(s) + 1
    BY <1>1
  <2>2. /\ t \in Seq(Key) /\ Len(t) = Len(lk) + Len(r)
        /\ \A i \in 1..Len(lk) + Len(r) :
             t[i] = IF i <= Len(lk) THEN lk[i] ELSE r[i - Len(lk)]
    BY <1>8, <1>12, <1>13, ConcatProperties
  <2> QED
    BY <1>8, <1>12, <2>1, <2>2
<1>15. Inserted(s, k) = t
  BY <1>2, <1>5, <1>6, <1>9, <1>11, <1>13 DEF Inserted
<1>16. /\ \A i \in 1..n : t[i] = s[i]
       /\ t[n + 1] = k
       /\ \A i \in n + 2..Len(s) + 1 : t[i] = s[i - 1]
  <2>1. ASSUME NEW i \in 1..n PROVE t[i] = s[i]
    <3>1. i \in 1..Len(s) + 1 /\ i <= n + 1 /\ i <= n /\ i \in 1..n + 1
      BY <1>1
    <3> QED
      BY <3>1, <1>7, <1>12, <1>14
  <2>2. t[n + 1] = k
    <3>1. n + 1 \in 1..Len(s) + 1 /\ n + 1 <= n + 1 /\ ~(n + 1 <= n) /\ n + 1 \in 1..n + 1
          /\ (n + 1) - n = 1
      BY <1>1
    <3> QED
      BY <3>1, <1>10, <1>12, <1>14
  <2>3. ASSUME NEW i \in n + 2..Len(s) + 1 PROVE t[i] = s[i - 1]
    <3>1. i \in 1..Len(s) + 1 /\ ~(i <= n + 1) /\ i - (n + 1) \in 1..Len(s) - n
          /\ n + (i - (n + 1)) = i - 1
      BY <1>1
    <3> QED
      BY <3>1, <1>8, <1>14
  <2> QED
    BY <2>1, <2>2, <2>3
<1>17. Ordered(t)
  <2> SUFFICES ASSUME NEW i \in 1..Len(s) + 1, NEW j \in 1..Len(s) + 1, i < j
               PROVE  Earlier(t[i], t[j])
    BY <1>14 DEF Ordered
  <2>1. CASE j <= n
    BY <1>1, <1>16, <2>1 DEF Ordered
  <2>2. CASE j = n + 1
    BY <1>3, <1>16, <2>2
  <2>3. CASE j > n + 1 /\ i <= n
    BY <1>1, <1>16, <2>3 DEF Ordered
  <2>4. CASE j > n + 1 /\ i = n + 1
    <3>1. t[j] = s[j - 1] /\ j - 1 \in n + 1..Len(s)
      BY <1>1, <1>16, <2>4
    <3> QED
      BY <1>4, <1>16, <2>4, <3>1
  <2>5. CASE i > n + 1
    <3>1. i - 1 \in DOMAIN s /\ j - 1 \in DOMAIN s /\ i - 1 < j - 1
      BY <1>1, <2>5
    <3>2. t[i] = s[i - 1] /\ t[j] = s[j - 1]
      BY <1>1, <1>16, <2>5
    <3> QED
      BY <3>1, <3>2 DEF Ordered
  <2> QED
    BY <2>1, <2>2, <2>3, <2>4, <2>5
<1>18. ToSet(t) = ToSet(s) \cup {k}
  <2>1. ASSUME NEW i \in 1..Len(s) + 1 PROVE t[i] = k \/ \E j \in 1..Len(s) : s[j] = t[i]
    <3>1. CASE i <= n
      BY <3>1, <1>16
    <3>2. CASE i = n + 1
      BY <3>2, <1>16
    <3>3. CASE i > n + 1
      <4>1. i - 1 \in 1..Len(s) /\ t[i] = s[i - 1]
        BY <3>3, <1>1, <1>16
      <4> QED
        BY <4>1
    <3> QED
      BY <3>1, <3>2, <3>3
  <2>2. ASSUME NEW j \in 1..Len(s) PROVE \E i \in 1..Len(s) + 1 : t[i] = s[j]
    <3>1. CASE j <= n
      BY <3>1, <1>16
    <3>2. CASE j > n
      <4>1. j + 1 \in n + 2..Len(s) + 1 /\ j + 1 \in 1..Len(s) + 1 /\ (j + 1) - 1 = j
        BY <3>2, <1>1
      <4>2. t[j + 1] = s[(j + 1) - 1]
        BY <4>1, <1>16
      <4> QED
        BY <4>1, <4>2
    <3> QED
      BY <3>1, <3>2
  <2>3. n + 1 \in 1..Len(s) + 1
    BY <1>1
  <2>4. \A e : e \in ToSet(t) <=> \E i \in 1..Len(s) + 1 : t[i] = e
    BY <1>14, InSequence
  <2>5. \A e : e \in ToSet(s) <=> \E i \in 1..Len(s) : s[i] = e
    BY InSequence
  <2>6. ASSUME NEW e PROVE e \in ToSet(t) <=> e \in ToSet(s) \cup {k}
    BY <1>16, <2>1, <2>2, <2>3, <2>4, <2>5
  <2> QED
    BY <2>6
<1> QED
  BY <1>14, <1>15, <1>17, <1>18

\* What a list does for PeekNext and RemoveNext: the first key of a sorted list
\* is the earliest one, and the others follow in order.
LEMMA HeadIsEarliest ==
  ASSUME NEW s \in Seq(Key), Ordered(s), s # <<>>
  PROVE  /\ Head(s) \in ToSet(s) /\ Head(s) \in Key
         /\ \A e \in ToSet(s) : e = Head(s) \/ Earlier(Head(s), e)
         /\ Tail(s) \in Seq(Key) /\ Ordered(Tail(s))
         /\ ToSet(Tail(s)) = ToSet(s) \ {Head(s)}
<1>1. PICK m \in Nat : m = Len(s)
  OBVIOUS
<1>2. m >= 1 /\ DOMAIN s = 1..m /\ \A i \in 1..m : s[i] \in Key
  BY <1>1
<1>3. PICK t : t = Tail(s)
  OBVIOUS
<1>4. t \in Seq(Key) /\ Len(t) = m - 1 /\ \A i \in 1..m - 1 : t[i] = s[i + 1]
  <2>1. t \in Seq(Key) /\ Len(t) = Len(s) - 1 /\ \A i \in 1..Len(t) : t[i] = s[i + 1]
    BY <1>3, HeadTailProperties
  <2> QED
    BY <1>1, <2>1
<1>5. Head(s) = s[1] /\ s[1] \in Key
  BY <1>2
<1>6. \A i, j \in 1..m : i < j => Earlier(s[i], s[j])
  BY <1>2 DEF Ordered
<1>7. Ordered(t)
  <2>1. \A i \in 1..m - 1 : i + 1 \in 1..m
    OBVIOUS
  <2>2. \A i, j \in 1..m - 1 : i < j => Earlier(s[i + 1], s[j + 1])
    BY <1>6, <2>1
  <2>3. DOMAIN t = 1..m - 1
    BY <1>4
  <2> QED
    BY <1>4, <2>2, <2>3 DEF Ordered
<1>8. \A e : e \in ToSet(s) <=> \E i \in 1..m : s[i] = e
  BY <1>1, InSequence
<1>9. \A e : e \in ToSet(t) <=> \E i \in 1..m - 1 : t[i] = e
  BY <1>4, InSequence
<1>10. \A i \in 2..m : Earlier(s[1], s[i]) /\ s[i] # s[1]
  <2> TAKE i \in 2..m
  <2>1. Earlier(s[1], s[i]) /\ s[i] \in Key /\ i \in 1..m
    BY <1>2, <1>6
  <2> QED
    BY <1>5, <2>1, EarlierIsOrder
<1>11. \A i \in 1..m : i = 1 \/ i \in 2..m
  OBVIOUS
<1>12. \A e \in ToSet(s) : e = Head(s) \/ Earlier(Head(s), e)
  BY <1>5, <1>8, <1>10, <1>11
<1>13. \A e : e \in ToSet(t) <=> \E i \in 2..m : s[i] = e
  <2> TAKE e
  <2>1. ASSUME NEW i \in 1..m - 1, t[i] = e PROVE \E j \in 2..m : s[j] = e
    <3>1. i + 1 \in 2..m /\ s[i + 1] = e
      BY <1>4, <2>1
    <3> QED
      BY <3>1
  <2>2. ASSUME NEW j \in 2..m, s[j] = e PROVE \E i \in 1..m - 1 : t[i] = e
    <3>1. j - 1 \in 1..m - 1 /\ (j - 1) + 1 = j
      OBVIOUS
    <3>2. t[j - 1] = s[(j - 1) + 1]
      BY <1>4, <3>1
    <3> QED
      BY <3>1, <3>2, <2>2
  <2> QED
    BY <1>9, <2>1, <2>2
<1>14. ToSet(t) = ToSet(s) \ {Head(s)}
  <2>1. ASSUME NEW e PROVE e \in ToSet(t) <=> e \in ToSet(s) /\ e # s[1]
    <3>1. 2..m \subseteq 1..m
      BY <1>1
    <3> QED
      BY <1>8, <1>10, <1>11, <1>13, <3>1
  <2> QED
    BY <1>5, <2>1
<1>15. Head(s) \in ToSet(s)
  <2>1. 1 \in 1..m
    BY <1>2
  <2> QED
    BY <1>5, <1>8, <2>1
<1> QED
  BY <1>3, <1>4, <1>5, <1>7, <1>12, <1>14, <1>15

UniqueUids(A) == \A e, f \in A : e.uid = f.uid => e = f

\* Remove finds the event it is called for.
LEMMA PositionFound ==
  ASSUME NEW s \in Seq(Key), UniqueUids(ToSet(s)), NEW e \in ToSet(s)
  PROVE  Position(s, e) \in 1..Len(s) /\ s[Position(s, e)] = e
<1>1. DOMAIN s = 1..Len(s)
  OBVIOUS
<1>2. \E i \in DOMAIN s : s[i].uid = e.uid
  BY <1>1, InSequence
<1>3. PICK p : p = Position(s, e)
  OBVIOUS
<1>4. p \in DOMAIN s /\ s[p].uid = e.uid
  BY <1>2, <1>3 DEF Position
<1>5. s[p] \in ToSet(s)
  BY <1>1, <1>4, InSequence
<1> QED
  BY <1>1, <1>3, <1>4, <1>5 DEF UniqueUids

\* Erasing that event from a sorted list leaves the others, in order.
LEMMA RemovedIsSorted ==
  ASSUME NEW s \in Seq(Key), Ordered(s), UniqueUids(ToSet(s)), NEW e \in ToSet(s)
  PROVE  /\ RemoveAt(s, Position(s, e)) \in Seq(Key)
         /\ Ordered(RemoveAt(s, Position(s, e)))
         /\ ToSet(RemoveAt(s, Position(s, e))) = ToSet(s) \ {e}
<1>1. PICK m \in Nat : m = Len(s)
  OBVIOUS
<1>2. DOMAIN s = 1..m /\ \A i \in 1..m : s[i] \in Key
  BY <1>1
<1>3. PICK p \in 1..m : p = Position(s, e) /\ s[p] = e
  BY <1>1, PositionFound
<1>4. PICK t : t = RemoveAt(s, Position(s, e))
  OBVIOUS
<1>5. /\ t \in Seq(Key) /\ Len(t) = m - 1
      /\ \A i \in 1..m - 1 : t[i] = IF i < p THEN s[i] ELSE s[i + 1]
  BY <1>1, <1>3, <1>4, RemoveAtProperties
<1> DEFINE old(i) == IF i < p THEN i ELSE i + 1
           new(j) == IF j < p THEN j ELSE j - 1
<1>6. /\ \A i \in 1..m - 1 : old(i) \in 1..m /\ old(i) # p /\ t[i] = s[old(i)]
      /\ \A i, j \in 1..m - 1 : i < j => old(i) < old(j)
  BY <1>3, <1>5
<1>7. \A j \in 1..m : j # p => new(j) \in 1..m - 1 /\ old(new(j)) = j
  BY <1>3
<1> HIDE DEF old, new
<1>8. \A i, j \in 1..m : i < j => Earlier(s[i], s[j])
  BY <1>2 DEF Ordered
<1>9. Ordered(t)
  <2>1. DOMAIN t = 1..m - 1
    BY <1>5
  <2> QED
    BY <1>6, <1>8, <2>1 DEF Ordered
<1>10. \A j \in 1..m : j # p => s[j] # e
  <2> TAKE j \in 1..m
  <2>1. j < p \/ p < j \/ j = p
    BY <1>3
  <2>2. s[j] \in Key /\ e \in Key /\ s[p] = e
    BY <1>2, <1>3
  <2> QED
    BY <1>3, <1>8, <2>1, <2>2, EarlierIsOrder
<1>11. \A d : d \in ToSet(s) <=> \E i \in 1..m : s[i] = d
  BY <1>1, InSequence
<1>12. \A d : d \in ToSet(t) <=> \E i \in 1..m - 1 : t[i] = d
  BY <1>5, InSequence
<1>13. ToSet(t) = ToSet(s) \ {e}
  <2>1. ASSUME NEW d \in ToSet(t) PROVE d \in ToSet(s) /\ d # e
    BY <1>6, <1>10, <1>11, <1>12, <2>1
  <2>2. ASSUME NEW d \in ToSet(s), d # e PROVE d \in ToSet(t)
    <3>1. PICK j \in 1..m : s[j] = d
      BY <1>11
    <3>2. j # p
      BY <1>3, <3>1, <2>2
    <3> QED
      BY <1>6, <1>7, <1>12, <3>1, <3>2
  <2> QED
    BY <2>1, <2>2
<1> QED
  BY <1>4, <1>5, <1>9, <1>13

\* Sorted lists each key of a finite set once, in order.
LEMMA SortedLists ==
  ASSUME NEW A \in SUBSET Key, IsFiniteSet(A)
  PROVE  Sorted(A) \in Seq(Key) /\ Ordered(Sorted(A)) /\ ToSet(Sorted(A)) = A
<1> DEFINE Upto(k) == {l \in A : ~Earlier(k, l)}
           rank == [k \in A |-> Cardinality(Upto(k))]
<1>1. PICK n \in Nat : n = Cardinality(A)
  BY FS_CardinalityType
<1>2. ASSUME NEW k \in A
      PROVE  IsFiniteSet(Upto(k)) /\ rank[k] = Cardinality(Upto(k)) /\ rank[k] \in 1..n
  <2>1. Upto(k) \in SUBSET A /\ k \in Upto(k) /\ rank[k] = Cardinality(Upto(k))
    BY EarlierIsOrder
  <2> HIDE DEF Upto, rank
  <2>2. IsFiniteSet(Upto(k)) /\ Cardinality(Upto(k)) <= n
    BY <1>1, <2>1, FS_Subset
  <2>3. Cardinality(Upto(k)) \in Nat
    BY <2>2, FS_CardinalityType
  <2>4. Cardinality(Upto(k)) # 0
    BY <2>1, <2>2, FS_EmptySet
  <2> QED
    BY <2>1, <2>2, <2>3, <2>4
<1>3. ASSUME NEW a \in A, NEW b \in A, Earlier(a, b)
      PROVE  rank[a] < rank[b]
  <2>1. ASSUME NEW l \in Upto(a) PROVE l \in Upto(b) /\ l # b
    <3>1. l \in Key /\ a \in Key /\ b \in Key /\ ~Earlier(a, l) /\ l \in A
      OBVIOUS
    <3>2. ~Earlier(b, l) /\ l # b
      BY <1>3, <3>1, EarlierIsOrder
    <3> QED
      BY <3>1, <3>2
  <2>2. b \in Upto(b)
    BY EarlierIsOrder
  <2>3. IsFiniteSet(Upto(b)) /\ rank[b] = Cardinality(Upto(b)) /\ rank[b] \in 1..n
        /\ rank[a] = Cardinality(Upto(a)) /\ rank[a] \in 1..n
    BY <1>2
  <2> HIDE DEF Upto, rank
  <2>4. Upto(a) \in SUBSET Upto(b) /\ Upto(a) # Upto(b)
    BY <2>1, <2>2
  <2>5. Cardinality(Upto(a)) <= Cardinality(Upto(b)) /\ Cardinality(Upto(a)) # Cardinality(Upto(b))
    BY <2>3, <2>4, FS_Subset
  <2> QED
    BY <2>3, <2>5
<1>4. rank \in [A -> 1..n]
  <2>1. \A k \in A : Cardinality(Upto(k)) \in 1..n
    BY <1>2
  <2> HIDE DEF Upto
  <2> QED
    BY <2>1
<1> HIDE DEF rank
<1>5. \A a, b \in A : rank[a] = rank[b] => a = b
  <2> TAKE a \in A, b \in A
  <2>1. Earlier(a, b) \/ Earlier(b, a) \/ a = b
    BY EarlierIsOrder
  <2>2. rank[a] \in 1..n /\ rank[b] \in 1..n
    BY <1>4
  <2> QED
    BY <1>3, <2>1, <2>2
<1>6. rank \in Injection(A, 1..n)
  BY <1>4, <1>5 DEF Injection, IsInjective
<1>7. rank \in Surjection(A, 1..n)
  <2>1. IsFiniteSet(1..n) /\ Cardinality(1..n) = n
    <3>1. 1 \in Int /\ n \in Int
      OBVIOUS
    <3> QED
      BY <3>1, FS_Interval
  <2>2. Cardinality(A) = Cardinality(1..n)
    BY <1>1, <2>1
  <2> QED
    BY <1>6, <2>1, <2>2, FS_Injection
<1>8. \A i \in 1..n : \E k \in A : rank[k] = i
  BY <1>7 DEF Surjection
<1>9. PICK t : t = Sorted(A)
  OBVIOUS
<1> DEFINE at(i) == CHOOSE k \in A : Cardinality(Upto(k)) = i
<1>10. DOMAIN t = 1..n /\ t = [i \in 1..n |-> t[i]] /\ \A i \in 1..n : t[i] = at(i)
  <2>1. t = [i \in 1..n |-> at(i)]
    BY <1>1, <1>9 DEF Sorted
  <2> HIDE DEF at
  <2> QED
    BY <2>1
<1>11. \A i \in 1..n : t[i] \in A /\ rank[t[i]] = i
  <2> TAKE i \in 1..n
  <2>1. \E k \in A : Cardinality(Upto(k)) = i
    BY <1>2, <1>8
  <2>2. t[i] \in A /\ Cardinality(Upto(t[i])) = i
    BY <1>10, <2>1
  <2> QED
    BY <1>2, <2>2
<1>12. t \in Seq(Key) /\ Len(t) = n /\ DOMAIN t = 1..n
  <2> HIDE DEF Upto, at
  <2>1. \A i \in 1..n : t[i] \in Key
    BY <1>11
  <2>2. t \in [1..n -> Key]
    BY <1>10, <2>1
  <2> QED
    BY <2>2
<1>13. Ordered(t)
  <2> SUFFICES ASSUME NEW i \in 1..n, NEW j \in 1..n, i < j PROVE Earlier(t[i], t[j])
    BY <1>12 DEF Ordered
  <2>1. t[i] \in A /\ t[j] \in A /\ rank[t[i]] = i /\ rank[t[j]] = j
    BY <1>11
  <2>2. ~(rank[t[j]] < rank[t[i]]) /\ t[i] # t[j]
    BY <2>1
  <2>3. ~Earlier(t[j], t[i])
    BY <1>3, <2>1, <2>2
  <2> QED
    BY <2>1, <2>2, <2>3, EarlierIsOrder
<1>14. ToSet(t) = A
  <2>1. ASSUME NEW k \in A PROVE \E i \in 1..n : t[i] = k
    <3>1. rank[k] \in 1..n
      BY <1>4
    <3> QED
      BY <1>5, <1>11, <3>1
  <2>2. \A e : e \in ToSet(t) <=> \E i \in 1..n : t[i] = e
    BY <1>12, InSequence
  <2> QED
    BY <1>11, <2>1, <2>2
<1> QED
  BY <1>9, <1>12, <1>13, <1>14

----------------------------------------------------------------------------
(* Heaps.                                                                  *)

Injective(h) == \A i, j \in DOMAIN h : h[i] = h[j] => i = j

\* h holds the keys of A, each one once, in n places.
Arrays(A, n) == {h \in Seq(Key) : Len(h) = n /\ Injective(h) /\ ToSet(h) = A}

LEMMA ArrayProperties ==
  ASSUME NEW A, NEW n \in Nat, NEW h \in Arrays(A, n)
  PROVE  /\ h \in Seq(Key) /\ Len(h) = n /\ DOMAIN h = 1..n
         /\ \A i \in 1..n : h[i] \in Key /\ h[i] \in A
         /\ \A i, j \in 1..n : h[i] = h[j] => i = j
         /\ \A e \in A : e \in Key /\ \E i \in 1..n : h[i] = e
<1>1. h \in Seq(Key) /\ Len(h) = n /\ DOMAIN h = 1..n /\ Injective(h) /\ ToSet(h) = A
  BY DEF Arrays
<1>2. \A e : e \in A <=> \E i \in 1..n : h[i] = e
  BY <1>1, InSequence
<1>3. A \subseteq Key /\ \A i \in 1..n : h[i] \in A
  BY <1>1, <1>2, InSequence
<1> QED
  BY <1>1, <1>2, <1>3 DEF Injective

\* Exchanging two elements changes nothing else.
LEMMA ExchKeeps ==
  ASSUME NEW A, NEW n \in Nat, NEW h \in Arrays(A, n), NEW a \in 1..n, NEW b \in 1..n
  PROVE  /\ Exch(h, a, b) \in Arrays(A, n)
         /\ Exch(h, a, b)[a] = h[b] /\ Exch(h, a, b)[b] = h[a]
         /\ \A i \in 1..n : i # a /\ i # b => Exch(h, a, b)[i] = h[i]
<1>1. /\ h \in Seq(Key) /\ Len(h) = n /\ DOMAIN h = 1..n
      /\ \A i \in 1..n : h[i] \in Key /\ h[i] \in A
      /\ \A i, j \in 1..n : h[i] = h[j] => i = j
      /\ \A e \in A : e \in Key /\ \E i \in 1..n : h[i] = e
  BY ArrayProperties
<1>2. PICK g : g = Exch(h, a, b)
  OBVIOUS
<1> DEFINE other(i) == IF i = b THEN a ELSE IF i = a THEN b ELSE i
<1>3. g = [i \in 1..n |-> h[other(i)]]
  BY <1>1, <1>2 DEF Exch
<1>4. \A i \in 1..n : other(i) \in 1..n /\ other(other(i)) = i /\ g[i] = h[other(i)]
  BY <1>3
<1>5. other(a) = b /\ other(b) = a /\ \A i \in 1..n : i # a /\ i # b => other(i) = i
  OBVIOUS
<1> HIDE DEF other
<1>6. g \in Seq(Key) /\ Len(g) = n /\ DOMAIN g = 1..n
  <2>1. g \in [1..n -> Key]
    BY <1>1, <1>3, <1>4
  <2> QED
    BY <2>1
<1>7. Injective(g)
  BY <1>1, <1>4, <1>6 DEF Injective
<1>8. ToSet(g) = A
  <2>1. \A e : e \in ToSet(g) <=> \E i \in 1..n : g[i] = e
    BY <1>6, InSequence
  <2>2. \A i \in 1..n : g[i] \in A
    BY <1>1, <1>4
  <2>3. ASSUME NEW e \in A PROVE \E i \in 1..n : g[i] = e
    <3>1. PICK i \in 1..n : h[i] = e
      BY <1>1
    <3>2. other(i) \in 1..n /\ g[other(i)] = h[i]
      BY <1>4
    <3> QED
      BY <3>1, <3>2
  <2> QED
    BY <2>1, <2>2, <2>3
<1> QED
  BY <1>2, <1>4, <1>5, <1>6, <1>7, <1>8 DEF Arrays

\* The first element of a heap is the earliest.
LEMMA RootIsEarliest ==
  ASSUME NEW A, NEW n \in Nat, NEW h \in Arrays(A, n), IsHeap(h), n # 0
  PROVE  h[1] \in A /\ \A e \in A : e = h[1] \/ Earlier(h[1], e)
<1>1. /\ h \in Seq(Key) /\ Len(h) = n
      /\ \A i \in 1..n : h[i] \in Key /\ h[i] \in A
      /\ \A e \in A : e \in Key /\ \E i \in 1..n : h[i] = e
  BY ArrayProperties
<1>2. \A i \in 2..n : ~Earlier(h[i], h[i \div 2])
  BY <1>1 DEF IsHeap, Less
<1> DEFINE Bad == {i \in 1..n : Earlier(h[i], h[1])}
<1>3. Bad = {}
  <2> SUFFICES ASSUME Bad # {} PROVE FALSE
    OBVIOUS
  <2>1. Bad \in SUBSET Nat
    OBVIOUS
  <2>2. PICK i \in Bad : \A j \in Bad : i <= j
    <3> HIDE DEF Bad
    <3> QED
      BY <2>1, LeastPosition
  <2>3. 1 \in 1..n /\ h[1] \in Key
    BY <1>1
  <2>4. i \in 1..n /\ i # 1 /\ h[i] \in Key /\ Earlier(h[i], h[1])
    BY <1>1, <2>2, <2>3, EarlierIsOrder
  <2>5. i \in 2..n /\ i \div 2 \in 1..n /\ i \div 2 < i
    BY <2>4
  <2>6. ~Earlier(h[i \div 2], h[1]) /\ h[i \div 2] \in Key
    BY <1>1, <2>2, <2>5
  <2> QED
    BY <1>2, <2>3, <2>4, <2>5, <2>6, EarlierIsOrder
<1>4. \A i \in 1..n : ~Earlier(h[i], h[1])
  BY <1>3
<1>5. 1 \in 1..n
  OBVIOUS
<1> QED
  BY <1>1, <1>4, <1>5, EarlierIsOrder

\* In the middle of BottomUp: all is in order but, perhaps, the element at s.at
\* and its parent, and its children are not less than that parent.
Rising(A, n) ==
  {s \in [at : 1..n, heap : Arrays(A, n)] :
     /\ \A i \in 2..n : i # s.at => ~Less(s.heap, i, i \div 2)
     /\ \A i \in 2..n : i \div 2 = s.at /\ s.at # 1 => ~Less(s.heap, i, s.at \div 2)}

\* A turn of the loop brings the element nearer to the root, or the heap is in
\* order.
LEMMA RiseKeeps ==
  ASSUME NEW A, NEW n \in Nat, NEW s \in Rising(A, n)
  PROVE  /\ Rise(s) \in Rising(A, n)
         /\ Rise(s).at < s.at \/ (Rise(s) = s /\ IsHeap(s.heap))
<1>1. PICK h \in Arrays(A, n) : h = s.heap
  BY DEF Rising
<1>2. PICK i \in 1..n : i = s.at
  BY DEF Rising
<1>3. /\ h \in Seq(Key) /\ Len(h) = n
      /\ \A j \in 1..n : h[j] \in Key
  BY ArrayProperties
<1>4. \A j \in 2..n : j # i => ~Earlier(h[j], h[j \div 2])
  BY <1>1, <1>2 DEF Rising, Less
<1>5. \A j \in 2..n : j \div 2 = i /\ i # 1 => ~Earlier(h[j], h[i \div 2])
  BY <1>1, <1>2 DEF Rising, Less
<1>6. CASE i = 1 \/ ~Less(h, i, i \div 2)
  <2>1. Rise(s) = s
    BY <1>1, <1>2, <1>6 DEF Rise
  <2>2. \A j \in 2..n : ~Less(h, j, j \div 2)
    BY <1>4, <1>6 DEF Less
  <2> QED
    BY <1>1, <1>3, <2>1, <2>2 DEF IsHeap
<1>7. CASE i # 1 /\ Less(h, i, i \div 2)
  <2>1. PICK p \in 1..n : p = i \div 2 /\ p < i /\ i \in 2..n
    BY <1>7
  <2>2. Earlier(h[i], h[p])
    BY <1>7, <2>1 DEF Less
  <2>3. PICK g \in Arrays(A, n) : g = Exch(h, i, p)
    BY ExchKeeps
  <2>4. g[i] = h[p] /\ g[p] = h[i] /\ \A j \in 1..n : j # i /\ j # p => g[j] = h[j]
    BY SMTT(40), <2>3, ExchKeeps
  <2>5. Rise(s) = [at |-> p, heap |-> g]
    BY <1>1, <1>2, <1>7, <2>1, <2>3 DEF Rise
  <2>6. ASSUME NEW j \in 2..n, j # p PROVE ~Earlier(g[j], g[j \div 2])
    <3>1. /\ j \div 2 \in 1..n /\ j \div 2 # j /\ j \in 1..n
          /\ h[j] \in Key /\ h[j \div 2] \in Key /\ h[i] \in Key /\ h[p] \in Key
      BY <1>3, <2>1
    <3>2. CASE j = i
      BY <2>1, <2>2, <2>4, <3>1, <3>2, EarlierIsOrder
    <3>3. CASE j # i /\ j \div 2 = p
      <4>1. g[j] = h[j] /\ g[j \div 2] = h[i] /\ ~Earlier(h[j], h[p])
        BY <1>4, <2>4, <2>6, <3>1, <3>3
      <4> QED
        BY <2>2, <3>1, <4>1, EarlierIsOrder
    <3>4. CASE j # i /\ j \div 2 = i
      <4>1. g[j] = h[j] /\ g[j \div 2] = h[p] /\ ~Earlier(h[j], h[p])
        BY <1>5, <1>7, <2>1, <2>4, <2>6, <3>1, <3>4
      <4> QED
        BY <4>1
    <3>5. CASE j # i /\ j \div 2 # p /\ j \div 2 # i
      BY <1>4, <2>4, <2>6, <3>1, <3>5
    <3> QED
      BY <3>2, <3>3, <3>4, <3>5
  <2>7. ASSUME NEW j \in 2..n, j \div 2 = p, p # 1 PROVE ~Earlier(g[j], g[p \div 2])
    <3>1. PICK q \in 1..n : q = p \div 2 /\ p \in 2..n /\ q # p /\ q # i /\ q < p
      BY <2>1, <2>7
    <3>2. j \in 1..n /\ h[j] \in Key /\ h[q] \in Key /\ h[i] \in Key /\ h[p] \in Key /\ j # p
      BY <1>3, <2>1, <2>7, <3>1
    <3>3. ~Earlier(h[p], h[q]) /\ g[q] = h[q]
      BY <1>4, <2>1, <2>4, <3>1
    <3>4. CASE j = i
      BY <2>4, <3>1, <3>3, <3>4
    <3>5. CASE j # i
      <4>1. g[j] = h[j] /\ ~Earlier(h[j], h[p])
        BY <1>4, <2>4, <2>7, <3>2, <3>5
      <4> QED
        BY <3>1, <3>2, <3>3, <4>1, EarlierIsOrder
    <3> QED
      BY <3>4, <3>5
  <2>8. Rise(s) \in [at : 1..n, heap : Arrays(A, n)] /\ Rise(s).at = p /\ Rise(s).heap = g
    BY <2>5
  <2>9. Rise(s) \in Rising(A, n)
    BY <2>6, <2>7, <2>8 DEF Rising, Less
  <2> QED
    BY <1>2, <2>1, <2>8, <2>9
<1> QED
  BY <1>6, <1>7

\* The loop of BottomUp is defined, and ends with a heap of the same keys.
LEMMA RaisedIsHeap ==
  ASSUME NEW A, NEW n \in Nat \ {0}, NEW h \in Arrays(A, n),
         [at |-> n, heap |-> h] \in Rising(A, n)
  PROVE  Raised(h) \in Arrays(A, n) /\ IsHeap(Raised(h))
<1>1. PICK S : S = Rising(A, n)
  OBVIOUS
<1>2. PICK init \in S : init = [at |-> n, heap |-> h]
  BY <1>1
<1>3. \A s \in S : Rise(s) \in S
  BY <1>1, RiseKeeps
<1>4. PICK turn \in [(1..n) \X S -> S] : \A k \in 1..n : \A s \in S : turn[<<k, s>>] = Rise(s)
  <2> DEFINE t == [p \in (1..n) \X S |-> Rise(p[2])]
  <2>1. t \in [(1..n) \X S -> S]
    BY <1>3
  <2>2. \A k \in 1..n : \A s \in S : t[<<k, s>>] = Rise(s)
    OBVIOUS
  <2> HIDE DEF t
  <2> QED
    BY <2>1, <2>2
<1>5. PICK f \in [0..n -> S] : Runs(f, n, init, turn)
  BY <1>2, <1>4, LoopIsDefined
<1>6. f[0] = init /\ \A k \in 1..n : f[k] = Rise(f[k - 1])
  <2>1. \A k \in 1..n : k - 1 \in 0..n /\ f[k - 1] \in S
    OBVIOUS
  <2> QED
    BY <2>1, <1>4, <1>5 DEF Runs
<1> DEFINE Defines(g) ==
             g = [k \in 0..Len(h) |->
                    IF k = 0 THEN [at |-> Len(h), heap |-> h] ELSE Rise(g[k - 1])]
<1>7. Len(h) = n
  BY ArrayProperties
<1>8. Defines(f)
  <2>1. \A k \in 0..n : f[k] = IF k = 0 THEN init ELSE Rise(f[k - 1])
    <3> TAKE k \in 0..n
    <3>1. k = 0 \/ k \in 1..n
      OBVIOUS
    <3> QED
      BY <3>1, <1>6
  <2> QED
    BY <1>2, <1>7, <2>1
<1>9. PICK up : up = CHOOSE g : Defines(g)
  OBVIOUS
<1>10. Defines(up)
  <2> HIDE DEF Defines
  <2> QED
    BY <1>8, <1>9
<1>11. Raised(h) = up[n].heap
  <2>1. Raised(h) = up[Len(h)].heap
    BY <1>9 DEF Raised
  <2> QED
    BY <1>7, <2>1
<1>12. up[0] = init /\ \A k \in 1..n : up[k] = Rise(up[k - 1])
  <2>1. \A k \in 0..n : up[k] = IF k = 0 THEN init ELSE Rise(up[k - 1])
    BY <1>2, <1>7, <1>10
  <2>2. \A k \in 1..n : k \in 0..n /\ k # 0
    OBVIOUS
  <2> QED
    BY <2>1, <2>2
<1> HIDE DEF Defines
<1> DEFINE G == {k \in 0..n : up[k] \in S /\ (up[k].at <= n - k \/ (IsHeap(up[k].heap) /\ Rise(up[k]) = up[k]))}
<1>13. 0 \in G
  BY <1>2, <1>12
<1>14. ASSUME NEW k \in 1..n, k - 1 \in G PROVE k \in G
  <2>1. PICK s \in S : s = up[k - 1] /\ (s.at <= n - (k - 1) \/ (IsHeap(s.heap) /\ Rise(s) = s))
    BY <1>14
  <2>2. up[k] = Rise(s) /\ Rise(s) \in S
    BY <1>3, <1>12, <2>1
  <2>3. s.at \in 1..n /\ Rise(s).at \in 1..n
    BY <1>1, <2>2 DEF Rising
  <2>4. Rise(s).at < s.at \/ (Rise(s) = s /\ IsHeap(s.heap))
    BY <1>1, RiseKeeps
  <2>5. CASE IsHeap(s.heap) /\ Rise(s) = s
    BY <2>2, <2>5
  <2>6. CASE Rise(s).at < s.at /\ s.at <= n - (k - 1)
    <3>1. Rise(s).at <= n - k
      BY <2>3, <2>6
    <3> QED
      BY <2>2, <3>1
  <2> QED
    BY <2>1, <2>4, <2>5, <2>6
<1>15. n \in G
  <2>1. 0..n \subseteq G
    <3> HIDE DEF G
    <3> QED
      BY <1>13, <1>14, PrefixInduction
  <2>2. n \in 0..n
    OBVIOUS
  <2> HIDE DEF G
  <2> QED
    BY <2>1, <2>2
<1>16. up[n] \in S /\ (up[n].at <= n - n \/ IsHeap(up[n].heap))
  BY <1>15
<1>17. up[n].at \in 1..n /\ up[n].heap \in Arrays(A, n)
  BY <1>1, <1>16 DEF Rising
<1> QED
  BY <1>11, <1>16, <1>17

\* Insert: the heap holds the new key besides the others.
LEMMA HeapInsertKeeps ==
  ASSUME NEW A, NEW n \in Nat, NEW h \in Arrays(A, n), IsHeap(h),
         NEW e \in Key, e \notin A
  PROVE  HeapInsert(h, e) \in Arrays(A \cup {e}, n + 1) /\ IsHeap(HeapInsert(h, e))
<1>1. /\ h \in Seq(Key) /\ Len(h) = n /\ DOMAIN h = 1..n
      /\ \A i \in 1..n : h[i] \in Key /\ h[i] \in A
      /\ \A i, j \in 1..n : h[i] = h[j] => i = j
      /\ \A d \in A : d \in Key /\ \E i \in 1..n : h[i] = d
  BY ArrayProperties
<1>2. PICK g : g = Append(h, e)
  OBVIOUS
<1>3. /\ g \in Seq(Key) /\ Len(g) = n + 1 /\ DOMAIN g = 1..n + 1
      /\ \A i \in 1..n : g[i] = h[i]
      /\ g[n + 1] = e
  BY <1>1, <1>2
<1>4. \A i \in 1..n + 1 : i \in 1..n \/ i = n + 1
  OBVIOUS
<1>5. Injective(g)
  BY <1>1, <1>3, <1>4 DEF Injective
<1>6. ToSet(g) = A \cup {e}
  <2>1. \A d : d \in ToSet(g) <=> \E i \in 1..n + 1 : g[i] = d
    BY <1>3, InSequence
  <2>2. n + 1 \in 1..n + 1 /\ \A i \in 1..n : i \in 1..n + 1
    OBVIOUS
  <2>3. ASSUME NEW d PROVE d \in ToSet(g) <=> d \in A \cup {e}
    BY <1>1, <1>3, <1>4, <2>1, <2>2
  <2> QED
    BY <2>3
<1>7. g \in Arrays(A \cup {e}, n + 1)
  BY <1>3, <1>5, <1>6 DEF Arrays
<1>8. \A i \in 2..n : ~Less(h, i, i \div 2)
  BY <1>1 DEF IsHeap
<1>9. ASSUME NEW i \in 2..n + 1, i # n + 1 PROVE ~Less(g, i, i \div 2)
  <2>1. i \in 2..n /\ i \in 1..n /\ i \div 2 \in 1..n
    BY <1>9
  <2> QED
    BY <1>3, <1>8, <2>1 DEF Less
<1>10. \A i \in 2..n + 1 : i \div 2 # n + 1
  OBVIOUS
<1>11. [at |-> n + 1, heap |-> g] \in Rising(A \cup {e}, n + 1)
  <2>1. PICK s \in [at : 1..n + 1, heap : Arrays(A \cup {e}, n + 1)] :
           s = [at |-> n + 1, heap |-> g]
    <3>1. n + 1 \in 1..n + 1
      OBVIOUS
    <3>2. [at |-> n + 1, heap |-> g] \in [at : 1..n + 1, heap : Arrays(A \cup {e}, n + 1)]
      BY <1>7, <3>1
    <3> QED
      BY <3>2
  <2>2. s.at = n + 1 /\ s.heap = g
    BY <2>1
  <2>3. s \in Rising(A \cup {e}, n + 1)
    BY <1>9, <1>10, <2>2 DEF Rising
  <2> QED
    BY <2>1, <2>3
<1>12. n + 1 \in Nat \ {0}
  OBVIOUS
<1>13. Raised(g) \in Arrays(A \cup {e}, n + 1) /\ IsHeap(Raised(g))
  BY <1>7, <1>11, <1>12, RaisedIsHeap
<1> QED
  BY <1>2, <1>13 DEF HeapInsert

\* In the middle of TopDown: all is in order but, perhaps, the element at s.at
\* and its children, and these are not less than its parent.
Sinking(A, n) ==
  {s \in [at : Nat \ {0}, heap : Arrays(A, n)] :
     /\ \A i \in 2..n : i \div 2 # s.at => ~Less(s.heap, i, i \div 2)
     /\ \A i \in 2..n : i \div 2 = s.at /\ s.at # 1 => ~Less(s.heap, i, s.at \div 2)}

\* An element with children has a smallest one.
LEMMA SmallestIsLeast ==
  ASSUME NEW A, NEW n \in Nat, NEW h \in Arrays(A, n), NEW i \in Nat \ {0}
  PROVE  /\ Children(h, i) = {} <=> 2 * i > n
         /\ \A j \in 2..n : j \div 2 = i <=> j \in Children(h, i)
         /\ Children(h, i) # {} =>
              /\ Smallest(h, i) \in 2..n /\ Smallest(h, i) \div 2 = i
              /\ \A j \in 2..n : j \div 2 = i => ~Earlier(h[j], h[Smallest(h, i)])
<1>1. /\ DOMAIN h = 1..n /\ \A j \in 1..n : h[j] \in Key
  BY ArrayProperties
<1>2. Children(h, i) = {2 * i, 2 * i + 1} \cap (1..n)
  BY <1>1 DEF Children
<1>3. \A j \in 2..n : j \div 2 = i <=> j \in Children(h, i)
  BY <1>2
<1>4. Children(h, i) = {} <=> 2 * i > n
  BY <1>2
<1>5. ASSUME Children(h, i) # {}
      PROVE  /\ Smallest(h, i) \in 2..n /\ Smallest(h, i) \div 2 = i
             /\ \A j \in 2..n : j \div 2 = i => ~Earlier(h[j], h[Smallest(h, i)])
  <2>1. 2 * i \in 1..n /\ 2 * i \in Children(h, i)
    BY <1>2, <1>4, <1>5
  <2>2. \E c \in Children(h, i) : \A d \in Children(h, i) : ~Less(h, d, c)
    <3>1. h[2 * i] \in Key /\ ~Less(h, 2 * i, 2 * i)
      BY <1>1, <2>1, EarlierIsOrder DEF Less
    <3>2. CASE 2 * i + 1 \notin 1..n
      <4>1. \A d \in Children(h, i) : d = 2 * i
        BY <1>2, <3>2
      <4> QED
        BY <2>1, <3>1, <4>1
    <3>3. CASE 2 * i + 1 \in 1..n
      <4>1. 2 * i + 1 \in Children(h, i) /\ \A d \in Children(h, i) : d = 2 * i \/ d = 2 * i + 1
        BY <1>2, <3>3
      <4>2. h[2 * i + 1] \in Key
        BY <1>1, <3>3
      <4>3. /\ ~Less(h, 2 * i + 1, 2 * i + 1)
            /\ ~Less(h, 2 * i, 2 * i + 1) \/ ~Less(h, 2 * i + 1, 2 * i)
        BY <3>1, <4>2, EarlierIsOrder DEF Less
      <4> QED
        BY <2>1, <3>1, <4>1, <4>3
    <3> QED
      BY <3>2, <3>3
  <2>3. PICK c : c = Smallest(h, i)
    OBVIOUS
  <2>4. c \in Children(h, i) /\ \A d \in Children(h, i) : ~Less(h, d, c)
    BY <2>2, <2>3 DEF Smallest
  <2>5. c \in 2..n
    BY <1>2, <2>4
  <2> QED
    BY <1>3, <2>3, <2>4, <2>5 DEF Less
<1> QED
  BY <1>3, <1>4, <1>5

\* A turn of the loop brings the element farther from the root, or the heap is
\* in order.
LEMMA SinkKeeps ==
  ASSUME NEW A, NEW n \in Nat, NEW s \in Sinking(A, n)
  PROVE  /\ Sink(s) \in Sinking(A, n)
         /\ (Sink(s).at > s.at /\ Sink(s).at <= n) \/ (Sink(s) = s /\ IsHeap(s.heap))
<1>1. PICK h \in Arrays(A, n) : h = s.heap
  BY DEF Sinking
<1>2. PICK i \in Nat \ {0} : i = s.at
  BY DEF Sinking
<1>3. /\ h \in Seq(Key) /\ Len(h) = n
      /\ \A j \in 1..n : h[j] \in Key
  BY ArrayProperties
<1>4. \A j \in 2..n : j \div 2 # i => ~Earlier(h[j], h[j \div 2])
  BY <1>1, <1>2 DEF Sinking, Less
<1>5. \A j \in 2..n : j \div 2 = i /\ i # 1 => ~Earlier(h[j], h[i \div 2])
  BY <1>1, <1>2 DEF Sinking, Less
<1>6. \A j \in 2..n : j \div 2 \in 1..n /\ j \in 1..n /\ j \div 2 # j
  OBVIOUS
<1>7. CASE Children(h, i) = {}
  <2>1. Sink(s) = s
    BY <1>1, <1>2, <1>7 DEF Sink
  <2>2. \A j \in 2..n : j \div 2 # i
    BY <1>7, SmallestIsLeast
  <2> QED
    BY <1>1, <1>3, <1>4, <2>1, <2>2 DEF IsHeap, Less
<1>8. CASE Children(h, i) # {}
  <2>1. PICK c : c = Smallest(h, i)
    OBVIOUS
  <2>2. /\ c \in 2..n /\ c \div 2 = i /\ i \in 1..n /\ c \in 1..n /\ i < c
        /\ \A j \in 2..n : j \div 2 = i => ~Earlier(h[j], h[c])
    BY <1>6, <1>8, <2>1, SmallestIsLeast
  <2>3. h[i] \in Key /\ h[c] \in Key
    BY <1>3, <2>2
  <2>4. CASE Less(h, i, c)
    <3>1. Sink(s) = s
      BY <1>1, <1>2, <2>1, <2>4 DEF Sink
    <3>2. ASSUME NEW j \in 2..n, j \div 2 = i PROVE ~Earlier(h[j], h[i])
      <4>1. h[j] \in Key /\ ~Earlier(h[j], h[c]) /\ Earlier(h[i], h[c])
        BY <1>3, <1>6, <2>2, <2>4, <3>2 DEF Less
      <4> QED
        BY <2>3, <4>1, EarlierIsOrder
    <3> QED
      BY <1>1, <1>3, <1>4, <3>1, <3>2 DEF IsHeap, Less
  <2>5. CASE ~Less(h, i, c)
    <3>1. ~Earlier(h[i], h[c])
      BY <2>5 DEF Less
    <3>2. PICK g \in Arrays(A, n) : g = Exch(h, i, c)
      BY <2>2, ExchKeeps
    <3>3. g[i] = h[c] /\ g[c] = h[i] /\ \A j \in 1..n : j # i /\ j # c => g[j] = h[j]
      <4>1. i \in 1..n /\ c \in 1..n
        BY <2>2
      <4> QED
        BY SMTT(40), <3>2, <4>1, ExchKeeps
    <3>4. Sink(s) = [at |-> c, heap |-> g]
      BY <1>1, <1>2, <1>8, <2>1, <2>5, <3>2 DEF Sink
    <3>5. ASSUME NEW j \in 2..n, j \div 2 # c PROVE ~Earlier(g[j], g[j \div 2])
      <4>1. h[j] \in Key /\ h[j \div 2] \in Key
        BY <1>3, <1>6
      <4>2. CASE j = c
        BY <2>2, <3>1, <3>3, <4>2
      <4>3. CASE j # c /\ j \div 2 = i
        <5>1. g[j] = h[j] /\ g[j \div 2] = h[c]
          BY <1>6, <3>3, <4>3
        <5> QED
          BY <2>2, <4>3, <5>1
      <4>4. CASE j = i
        <5>1. i # 1 /\ c \in 2..n /\ c \div 2 = i /\ i \div 2 \in 1..n /\ i \div 2 # i /\ i \div 2 # c
          BY <1>6, <2>2, <3>5, <4>4
        <5>2. g[j] = h[c] /\ g[j \div 2] = h[i \div 2]
          BY <3>3, <4>4, <5>1
        <5> QED
          BY <1>5, <5>1, <5>2
      <4>5. CASE j # c /\ j \div 2 # i /\ j # i
        <5>1. g[j] = h[j] /\ g[j \div 2] = h[j \div 2]
          BY <1>6, <3>3, <3>5, <4>5
        <5> QED
          BY <1>4, <4>5, <5>1
      <4> QED
        BY <4>2, <4>3, <4>4, <4>5
    <3>6. ASSUME NEW j \in 2..n, j \div 2 = c PROVE ~Earlier(g[j], g[c \div 2])
      <4>1. j \in 1..n /\ j # c /\ j # i /\ j \div 2 # i
        BY <1>6, <2>2, <3>6
      <4>2. g[j] = h[j] /\ g[c \div 2] = h[c] /\ ~Earlier(h[j], h[c])
        BY <1>4, <2>2, <3>3, <3>6, <4>1
      <4> QED
        BY <4>2
    <3>7. Sink(s) \in [at : Nat \ {0}, heap : Arrays(A, n)] /\ Sink(s).at = c /\ Sink(s).heap = g
      BY <2>2, <3>4
    <3>8. Sink(s) \in Sinking(A, n)
      BY <3>5, <3>6, <3>7 DEF Sinking, Less
    <3> QED
      BY <1>2, <2>2, <3>7, <3>8
  <2> QED
    BY <2>4, <2>5
<1> QED
  BY <1>7, <1>8

\* The loop of TopDown is defined, and ends with a heap of the same keys.
LEMMA SunkIsHeap ==
  ASSUME NEW A, NEW n \in Nat, NEW h \in Arrays(A, n), NEW start \in Nat \ {0},
         [at |-> start, heap |-> h] \in Sinking(A, n)
  PROVE  Sunk(h, start) \in Arrays(A, n) /\ IsHeap(Sunk(h, start))
<1>1. PICK S : S = Sinking(A, n)
  OBVIOUS
<1>2. PICK init \in S : init = [at |-> start, heap |-> h]
  BY <1>1
<1>3. \A s \in S : Sink(s) \in S
  BY <1>1, SinkKeeps
<1>4. PICK turn \in [(1..n) \X S -> S] : \A k \in 1..n : \A s \in S : turn[<<k, s>>] = Sink(s)
  <2> DEFINE t == [p \in (1..n) \X S |-> Sink(p[2])]
  <2>1. t \in [(1..n) \X S -> S]
    BY <1>3
  <2>2. \A k \in 1..n : \A s \in S : t[<<k, s>>] = Sink(s)
    OBVIOUS
  <2> HIDE DEF t
  <2> QED
    BY <2>1, <2>2
<1>5. PICK f \in [0..n -> S] : Runs(f, n, init, turn)
  BY <1>2, <1>4, LoopIsDefined
<1>6. f[0] = init /\ \A k \in 1..n : f[k] = Sink(f[k - 1])
  <2>1. \A k \in 1..n : k - 1 \in 0..n /\ f[k - 1] \in S
    OBVIOUS
  <2> QED
    BY <2>1, <1>4, <1>5 DEF Runs
<1> DEFINE Defines(g) ==
             g = [k \in 0..Len(h) |->
                    IF k = 0 THEN [at |-> start, heap |-> h] ELSE Sink(g[k - 1])]
<1>7. Len(h) = n
  BY ArrayProperties
<1>8. Defines(f)
  <2>1. \A k \in 0..n : f[k] = IF k = 0 THEN init ELSE Sink(f[k - 1])
    <3> TAKE k \in 0..n
    <3>1. k = 0 \/ k \in 1..n
      OBVIOUS
    <3> QED
      BY <3>1, <1>6
  <2> QED
    BY <1>2, <1>7, <2>1
<1>9. PICK down : down = CHOOSE g : Defines(g)
  OBVIOUS
<1>10. Defines(down)
  <2> HIDE DEF Defines
  <2> QED
    BY <1>8, <1>9
<1>11. Sunk(h, start) = down[n].heap
  <2>1. Sunk(h, start) = down[Len(h)].heap
    BY <1>9 DEF Sunk
  <2> QED
    BY <1>7, <2>1
<1>12. down[0] = init /\ \A k \in 1..n : down[k] = Sink(down[k - 1])
  <2>1. \A k \in 0..n : down[k] = IF k = 0 THEN init ELSE Sink(down[k - 1])
    BY <1>2, <1>7, <1>10
  <2>2. \A k \in 1..n : k \in 0..n /\ k # 0
    OBVIOUS
  <2> QED
    BY <2>1, <2>2
<1> HIDE DEF Defines
<1> DEFINE G == {k \in 0..n : down[k] \in S /\ (down[k].at > k \/ (IsHeap(down[k].heap) /\ Sink(down[k]) = down[k]))}
<1>13. 0 \in G
  BY <1>2, <1>12
<1>14. ASSUME NEW k \in 1..n, k - 1 \in G PROVE k \in G
  <2>1. PICK s \in S : s = down[k - 1] /\ (s.at > k - 1 \/ (IsHeap(s.heap) /\ Sink(s) = s))
    BY <1>14
  <2>2. down[k] = Sink(s) /\ Sink(s) \in S
    BY <1>3, <1>12, <2>1
  <2>3. s.at \in Nat /\ Sink(s).at \in Nat
    BY <1>1, <2>2 DEF Sinking
  <2>4. Sink(s).at > s.at \/ (Sink(s) = s /\ IsHeap(s.heap))
    BY <1>1, SinkKeeps
  <2>5. CASE IsHeap(s.heap) /\ Sink(s) = s
    BY <2>2, <2>5
  <2>6. CASE Sink(s).at > s.at /\ s.at > k - 1
    <3>1. Sink(s).at > k
      BY <2>3, <2>6
    <3> QED
      BY <2>2, <3>1
  <2> QED
    BY <2>1, <2>4, <2>5, <2>6
<1>15. n \in G
  <2>1. 0..n \subseteq G
    <3> HIDE DEF G
    <3> QED
      BY <1>13, <1>14, PrefixInduction
  <2>2. n \in 0..n
    OBVIOUS
  <2> HIDE DEF G
  <2> QED
    BY <2>1, <2>2
<1>16. PICK s \in Sinking(A, n) : s = down[n] /\ (s.at > n \/ IsHeap(s.heap))
  BY <1>1, <1>15
<1>17. s.heap \in Arrays(A, n) /\ s.at \in Nat /\ Sink(s).at \in Nat
  BY <1>1, <1>3 DEF Sinking
<1>18. IsHeap(s.heap)
  BY <1>16, <1>17, SinkKeeps
<1> QED
  BY <1>11, <1>16, <1>17, <1>18

\* RemoveNext, and Remove from a heap of up to five events: the last element,
\* which takes the place of the one removed, is not less than its new parent.
\* (In a larger heap it may be: see NextIsEarliest.)
LEMMA HeapWithoutKeeps ==
  ASSUME NEW A, NEW n \in Nat \ {0}, NEW h \in Arrays(A, n), IsHeap(h),
         NEW i \in 1..n, i = 1 \/ n <= 5
  PROVE  /\ HeapWithout(h, i) \in Arrays(A \ {h[i]}, n - 1)
         /\ IsHeap(HeapWithout(h, i))
<1>1. /\ h \in Seq(Key) /\ Len(h) = n /\ \A j \in 1..n : h[j] \in Key
  BY ArrayProperties
<1>2. \A j \in 2..n : ~Earlier(h[j], h[j \div 2])
  BY <1>1 DEF IsHeap, Less
<1>3. PICK x \in Arrays(A, n) : x = Exch(h, i, n)
  BY ExchKeeps
<1>4. x[i] = h[n] /\ x[n] = h[i] /\ \A j \in 1..n : j # i /\ j # n => x[j] = h[j]
  BY SMTT(40), <1>3, ExchKeeps
<1>5. /\ x \in Seq(Key) /\ Len(x) = n
      /\ \A j \in 1..n : x[j] \in Key /\ x[j] \in A
      /\ \A j, k \in 1..n : x[j] = x[k] => j = k
      /\ \A d \in A : d \in Key /\ \E j \in 1..n : x[j] = d
  BY ArrayProperties
<1>6. PICK g : g = Front(x)
  OBVIOUS
<1>7. PICK m \in Nat : m = n - 1
  OBVIOUS
<1>8. g \in Seq(Key) /\ Len(g) = m /\ DOMAIN g = 1..m /\ \A j \in 1..m : g[j] = x[j]
  <2>1. g = SubSeq(x, 1, m)
    BY <1>5, <1>6, <1>7 DEF Front
  <2>2. 1 \in Int /\ m \in Int /\ \A j \in 1..m : x[j] \in Key
    BY <1>5, <1>7
  <2>3. /\ g \in Seq(Key) /\ Len(g) = (IF 1 <= m THEN m - 1 + 1 ELSE 0)
        /\ \A j \in 1..m - 1 + 1 : g[j] = x[1 + j - 1]
    BY <2>1, <2>2, SubSeqProperties
  <2>4. Len(g) = m
    BY <2>3
  <2>5. \A j \in 1..m : j \in 1..m - 1 + 1 /\ 1 + j - 1 = j
    OBVIOUS
  <2> QED
    BY <2>3, <2>4, <2>5
<1>9. \A j \in 1..n : j \in 1..m \/ j = n
  BY <1>7
<1>10. g \in Arrays(A \ {h[i]}, m)
  <2>1. Injective(g)
    BY <1>5, <1>7, <1>8 DEF Injective
  <2>2. \A d : d \in ToSet(g) <=> \E j \in 1..m : g[j] = d
    BY <1>8, InSequence
  <2>3. \A j \in 1..m : j \in 1..n /\ n \in 1..n /\ j # n
    BY <1>7
  <2>4. ASSUME NEW d PROVE d \in ToSet(g) <=> d \in A /\ d # x[n]
    BY <1>5, <1>8, <1>9, <2>2, <2>3
  <2>5. ToSet(g) = A \ {h[i]}
    BY <1>4, <2>4
  <2> QED
    BY <1>8, <2>1, <2>5 DEF Arrays
<1>11. \A j \in 2..m : /\ j \in 2..n /\ j \in 1..n /\ j # n /\ j \in 1..m
                       /\ j \div 2 \in 1..n /\ j \div 2 # n /\ j \div 2 \in 1..m
                       /\ j \div 2 # j
  BY <1>7
<1>12. ASSUME NEW j \in 2..m, j \div 2 # i PROVE ~Earlier(g[j], g[j \div 2])
  <2>1. g[j] = x[j] /\ g[j \div 2] = h[j \div 2]
    BY <1>4, <1>8, <1>11, <1>12
  <2>2. CASE j # i
    BY <1>2, <1>4, <1>11, <2>1, <2>2
  <2>3. CASE j = i
    <3>1. g[j] = h[n] /\ n <= 5 /\ i \in 2..4 /\ n \in 3..5 /\ i < n
      BY <1>4, <1>7, <2>1, <2>3
    <3>2. h[n] \in Key /\ h[1] \in Key /\ 2 \in 2..n /\ h[2] \in Key
      BY <1>1, <3>1
    <3>3. n # 0
      OBVIOUS
    <3>4. h[1] \in A /\ \A e \in A : e = h[1] \/ Earlier(h[1], e)
      BY <3>3, RootIsEarliest
    <3>5. h[n] \in A
      BY ArrayProperties
    <3>6. ~Earlier(h[n], h[1])
      BY <3>2, <3>4, <3>5, EarlierIsOrder
    <3>7. CASE i \in 2..3
      <4>1. j \div 2 = 1
        BY <2>3, <3>7
      <4> QED
        BY <2>1, <3>1, <3>6, <4>1
    <3>8. CASE i = 4
      <4>1. n = 5 /\ j \div 2 = 2 /\ 5 \div 2 = 2 /\ 5 \in 2..n
        BY <2>3, <3>1, <3>8
      <4>2. ~Earlier(h[n], h[2])
        BY <1>2, <4>1
      <4> QED
        BY <2>1, <3>1, <4>1, <4>2
    <3> QED
      BY <3>1, <3>7, <3>8
  <2> QED
    BY <2>2, <2>3
<1>13. ASSUME NEW j \in 2..m, j \div 2 = i, i # 1 PROVE ~Earlier(g[j], g[i \div 2])
  <2>1. /\ i \in 2..n /\ i # n /\ i \div 2 \in 1..n /\ i \div 2 # n /\ i \div 2 # i
        /\ i \div 2 \in 1..m /\ j # i
    BY <1>7, <1>11, <1>13
  <2>2. g[j] = h[j] /\ g[i \div 2] = h[i \div 2]
    BY <1>4, <1>8, <1>11, <2>1
  <2>3. ~Earlier(h[j], h[i]) /\ ~Earlier(h[i], h[i \div 2])
    BY <1>2, <1>11, <1>13, <2>1
  <2>4. h[j] \in Key /\ h[i] \in Key /\ h[i \div 2] \in Key
    BY <1>1, <1>11, <2>1
  <2> QED
    BY <2>2, <2>3, <2>4, EarlierIsOrder
<1>14. [at |-> i, heap |-> g] \in Sinking(A \ {h[i]}, m)
  <2>1. PICK s \in [at : Nat \ {0}, heap : Arrays(A \ {h[i]}, m)] : s = [at |-> i, heap |-> g]
    <3>1. g \in Arrays(A \ {h[i]}, m) /\ i \in Nat \ {0}
      BY <1>10
    <3>2. [at |-> i, heap |-> g] \in [at : Nat \ {0}, heap : Arrays(A \ {h[i]}, m)]
      BY <3>1
    <3> QED
      BY <3>2
  <2>2. s.at = i /\ s.heap = g
    BY <2>1
  <2>3. s \in Sinking(A \ {h[i]}, m)
    BY <1>12, <1>13, <2>2 DEF Sinking, Less
  <2> QED
    BY <2>1, <2>3
<1>15. i \in Nat \ {0}
  OBVIOUS
<1>16. Sunk(g, i) \in Arrays(A \ {h[i]}, m) /\ IsHeap(Sunk(g, i))
  BY <1>10, <1>14, <1>15, SunkIsHeap
<1>17. HeapWithout(h, i) = Sunk(g, i)
  BY <1>1, <1>3, <1>6 DEF HeapWithout
<1> QED
  BY <1>7, <1>16, <1>17

----------------------------------------------------------------------------
(* Days: quotients and remainders.                                         *)

LEMMA DivBounds ==
  ASSUME NEW a \in Nat, NEW w \in Nat \ {0}
  PROVE  a \div w \in Nat /\ (a \div w) * w <= a /\ a < (a \div w + 1) * w
OBVIOUS

LEMMA ProductMonotone ==
  ASSUME NEW p \in Nat, NEW q \in Nat, p <= q, NEW w \in Nat
  PROVE  p * w <= q * w
OBVIOUS

\* A time is before the end of day q iff its own day is not after q.
LEMMA DayEnds ==
  ASSUME NEW a \in Nat, NEW w \in Nat \ {0}, NEW q \in Nat
  PROVE  a < (q + 1) * w <=> a \div w <= q
<1>1. PICK d \in Nat : d = a \div w /\ d * w <= a /\ a < (d + 1) * w
  BY DivBounds
<1>2. CASE d <= q
  <2>1. (d + 1) * w <= (q + 1) * w
    BY <1>2, ProductMonotone
  <2>2. (d + 1) * w \in Nat /\ (q + 1) * w \in Nat
    OBVIOUS
  <2> QED
    BY <1>1, <1>2, <2>1, <2>2
<1>3. CASE q + 1 <= d
  <2>1. (q + 1) * w <= d * w
    BY <1>3, ProductMonotone
  <2>2. d * w \in Nat /\ (q + 1) * w \in Nat
    OBVIOUS
  <2> QED
    BY <1>1, <1>3, <2>1, <2>2
<1> QED
  BY <1>1, <1>2, <1>3

LEMMA DayMonotone ==
  ASSUME NEW a \in Nat, NEW b \in Nat, a <= b, NEW w \in Nat \ {0}
  PROVE  a \div w <= b \div w
<1>1. b \div w \in Nat /\ b < (b \div w + 1) * w
  BY DivBounds
<1>2. PICK t \in Nat : t = (b \div w + 1) * w
  BY <1>1
<1>3. a < t
  BY <1>1, <1>2
<1> QED
  BY <1>1, <1>2, <1>3, DayEnds

LEMMA ModRange ==
  ASSUME NEW a \in Nat, NEW n \in Nat \ {0}
  PROVE  a % n \in 0..n - 1
OBVIOUS

LEMMA DivMod ==
  ASSUME NEW a \in Nat, NEW n \in Nat \ {0}
  PROVE  \E p \in Nat : p = a \div n /\ a = p * n + (a % n)
OBVIOUS

LEMMA NextProduct ==
  ASSUME NEW p \in Nat, NEW n \in Nat
  PROVE  (p + 1) * n = p * n + n /\ p * n \in Nat
OBVIOUS

\* Quotient and remainder are the only ones.
LEMMA DivModUnique ==
  ASSUME NEW a \in Nat, NEW n \in Nat \ {0}, NEW p \in Nat, NEW r \in 0..n - 1, a = p * n + r
  PROVE  a % n = r
<1>1. PICK q \in Nat : q = a \div n /\ a = q * n + (a % n)
  BY DivMod
<1>2. PICK s \in 0..n - 1 : s = a % n
  BY ModRange
<1>3. PICK x \in Nat, y \in Nat : x = p * n /\ y = q * n
  BY NextProduct
<1>4. a = x + r /\ a = y + s
  BY <1>1, <1>2, <1>3
<1>5. CASE p + 1 <= q
  <2>1. (p + 1) * n <= q * n
    BY <1>5, ProductMonotone
  <2>2. x + n <= y
    BY <1>3, <2>1, NextProduct
  <2> QED
    BY <1>4, <2>2
<1>6. CASE q + 1 <= p
  <2>1. (q + 1) * n <= p * n
    BY <1>6, ProductMonotone
  <2>2. y + n <= x
    BY <1>3, <2>1, NextProduct
  <2> QED
    BY <1>4, <2>2
<1>7. CASE p = q
  BY <1>2, <1>3, <1>4, <1>7
<1> QED
  BY <1>5, <1>6, <1>7

\* Remainders agree only every n numbers.
LEMMA ModUnique ==
  ASSUME NEW a \in Nat, NEW b \in Nat, NEW n \in Nat \ {0},
         a % n = b % n, a <= b, b < a + n
  PROVE  a = b
<1>1. PICK p \in Nat : p = a \div n /\ a = p * n + (a % n)
  BY DivMod
<1>2. PICK q \in Nat : q = b \div n /\ b = q * n + (b % n)
  BY DivMod
<1>3. PICK r \in 0..n - 1 : r = a % n
  BY ModRange
<1>4. PICK x \in Nat, y \in Nat : x = p * n /\ y = q * n
  BY NextProduct
<1>5. a = x + r /\ b = y + r
  BY <1>1, <1>2, <1>3, <1>4
<1>6. p <= q
  BY <1>1, <1>2, DayMonotone
<1>7. CASE p + 1 <= q
  <2>1. (p + 1) * n <= q * n
    BY <1>7, ProductMonotone
  <2>2. x + n <= y
    BY <1>4, <2>1, NextProduct
  <2> QED
    BY <1>5, <2>2
<1>8. CASE p = q
  BY <1>4, <1>5, <1>8
<1> QED
  BY <1>6, <1>7, <1>8

LEMMA ModShift ==
  ASSUME NEW a \in Nat, NEW j \in Nat, NEW n \in Nat \ {0}
  PROVE  ((a % n) + j) % n = (a + j) % n
<1>1. PICK p \in Nat : a = p * n + (a % n)
  BY DivMod
<1>2. PICK r \in 0..n - 1 : r = a % n
  BY ModRange
<1>3. PICK q \in Nat : r + j = q * n + ((r + j) % n)
  <2>1. r + j \in Nat
    OBVIOUS
  <2> QED
    BY <2>1, DivMod
<1>4. PICK s \in 0..n - 1 : s = (r + j) % n
  BY ModRange
<1>5. a + j = (p + q) * n + s
  <2>1. PICK x \in Nat, y \in Nat : x = p * n /\ y = q * n
    BY NextProduct
  <2>2. (p + q) * n = x + y
    BY <2>1
  <2>3. a = x + r /\ r + j = y + s
    BY <1>1, <1>2, <1>3, <1>4, <2>1
  <2> QED
    BY <2>2, <2>3
<1>6. (a + j) % n = s
  <2>1. p + q \in Nat /\ a + j \in Nat
    OBVIOUS
  <2> QED
    BY <1>5, <2>1, DivModUnique
<1> QED
  BY <1>2, <1>4, <1>6

LEMMA TopOfDay ==
  ASSUME NEW d \in Nat, NEW j \in Nat, NEW w \in Nat
  PROVE  (d + 1) * w + j * w = (d + j + 1) * w
OBVIOUS


----------------------------------------------------------------------------
(* Calendars.                                                              *)

Calendars ==
  [buckets : UNION {[0..n - 1 -> Seq(Key)] : n \in Nat \ {0}},
   width : Nat \ {0}, lastPrio : Nat, lastBucket : Nat, bucketTop : Nat, qSize : Nat]

\* Every event is in the bucket of its day, no event is earlier than the last
\* one, and the buckets are sorted.
Filed(c) ==
  \A b \in DOMAIN c.buckets :
    /\ Ordered(c.buckets[b])
    /\ \A k \in ToSet(c.buckets[b]) : Hash(c, k.ts) = b /\ k.ts >= c.lastPrio

\* The search starts on the day of the last event.
Standing(c) ==
  /\ c.lastBucket = Hash(c, c.lastPrio)
  /\ c.bucketTop = (c.lastPrio \div c.width + 1) * c.width

Arranged == {c \in Calendars : Filed(c) /\ Standing(c)}

LEMMA CalendarShape ==
  ASSUME NEW c \in Calendars
  PROVE  /\ NumBuckets(c) \in Nat \ {0} /\ DOMAIN c.buckets = 0..NumBuckets(c) - 1
         /\ c.buckets \in [0..NumBuckets(c) - 1 -> Seq(Key)]
         /\ \A b \in DOMAIN c.buckets : c.buckets[b] \in Seq(Key)
         /\ \A ts \in Nat : Hash(c, ts) \in DOMAIN c.buckets
         /\ \A ts \in Nat : Hash(c, ts) = (ts \div c.width) % NumBuckets(c)
<1>1. PICK n \in Nat \ {0} : c.buckets \in [0..n - 1 -> Seq(Key)]
  BY DEF Calendars
<1>2. Cardinality(0..n - 1) = n
  <2>1. 0 \in Int /\ n - 1 \in Int
    OBVIOUS
  <2> QED
    BY <2>1, FS_Interval
<1>3. NumBuckets(c) = n /\ DOMAIN c.buckets = 0..n - 1
  BY <1>1, <1>2 DEF NumBuckets
<1>4. \A ts \in Nat : Hash(c, ts) \in 0..n - 1
  <2> TAKE ts \in Nat
  <2>1. c.width \in Nat \ {0}
    BY DEF Calendars
  <2>2. PICK d \in Nat : d = ts \div c.width
    BY <2>1, DivBounds
  <2>3. d % n \in 0..n - 1
    BY ModRange
  <2> QED
    BY <1>3, <2>2, <2>3 DEF Hash
<1> QED
  BY <1>1, <1>3, <1>4 DEF Hash

LEMMA ListedMeans ==
  ASSUME NEW c \in Calendars
  PROVE  /\ Listed(c) \subseteq Key
         /\ \A e : e \in Listed(c) <=> \E b \in DOMAIN c.buckets : e \in ToSet(c.buckets[b])
<1>1. \A b \in DOMAIN c.buckets : ToSet(c.buckets[b]) \subseteq Key
  BY CalendarShape, InSequence
<1>2. \A e : e \in Listed(c) <=> \E b \in DOMAIN c.buckets : e \in ToSet(c.buckets[b])
  BY DEF Listed
<1> QED
  BY <1>1, <1>2

\* An event of the calendar is in the bucket of its time, and in no other.
LEMMA BucketOf ==
  ASSUME NEW c \in Arranged, NEW e \in Key
  PROVE  /\ Hash(c, e.ts) \in DOMAIN c.buckets /\ c.buckets[Hash(c, e.ts)] \in Seq(Key)
         /\ Ordered(c.buckets[Hash(c, e.ts)])
         /\ e \in Listed(c) <=> e \in ToSet(c.buckets[Hash(c, e.ts)])
         /\ e \in Listed(c) => e.ts >= c.lastPrio
<1>1. c \in Calendars /\ Filed(c)
  BY DEF Arranged
<1>2. e.ts \in Nat
  BY DEF Key
<1>3. Hash(c, e.ts) \in DOMAIN c.buckets /\ c.buckets[Hash(c, e.ts)] \in Seq(Key)
  BY <1>1, <1>2, CalendarShape
<1>4. \A b \in DOMAIN c.buckets :
        e \in ToSet(c.buckets[b]) => Hash(c, e.ts) = b /\ e.ts >= c.lastPrio
  BY <1>1 DEF Filed
<1>5. e \in Listed(c) <=> \E b \in DOMAIN c.buckets : e \in ToSet(c.buckets[b])
  BY <1>1, ListedMeans
<1>6. Ordered(c.buckets[Hash(c, e.ts)])
  BY <1>1, <1>3 DEF Filed
<1> QED
  BY <1>3, <1>4, <1>5, <1>6

\* Another list of events of its days in the place of a bucket.
LEMMA BucketReplaced ==
  ASSUME NEW c \in Arranged, NEW b \in DOMAIN c.buckets, NEW t \in Seq(Key), Ordered(t),
         \A k \in ToSet(t) : Hash(c, k.ts) = b,
         NEW d \in [buckets : {[c.buckets EXCEPT ![b] = t]}, width : {c.width},
                   lastPrio : Nat, lastBucket : Nat, bucketTop : Nat, qSize : Nat],
         \A k \in (Listed(c) \ ToSet(c.buckets[b])) \cup ToSet(t) : k.ts >= d.lastPrio
  PROVE  /\ d \in Calendars /\ Filed(d)
         /\ \A ts : Hash(d, ts) = Hash(c, ts)
         /\ Listed(d) = (Listed(c) \ ToSet(c.buckets[b])) \cup ToSet(t)
<1>1. c \in Calendars /\ Filed(c)
  BY DEF Arranged
<1>2. PICK n \in Nat \ {0} : n = NumBuckets(c) /\ c.buckets \in [0..n - 1 -> Seq(Key)]
  BY <1>1, CalendarShape
<1>3. d.buckets \in [0..n - 1 -> Seq(Key)] /\ c.width \in Nat \ {0}
  BY <1>1, <1>2 DEF Calendars
<1>4. d \in Calendars
  <2>1. d.buckets \in UNION {[0..m - 1 -> Seq(Key)] : m \in Nat \ {0}}
    BY <1>3
  <2> QED
    BY <1>3, <2>1 DEF Calendars
<1>5. DOMAIN d.buckets = DOMAIN c.buckets /\ DOMAIN d.buckets = 0..n - 1
  BY <1>2, <1>3
<1>6. \A ts : Hash(d, ts) = Hash(c, ts)
  BY <1>5 DEF Hash, NumBuckets
<1>7. d.buckets[b] = t /\ \A a \in DOMAIN c.buckets : a # b => d.buckets[a] = c.buckets[a]
  BY <1>2
<1>8. \A a \in DOMAIN c.buckets : a # b =>
        \A k \in ToSet(c.buckets[a]) : k \notin ToSet(c.buckets[b])
  BY <1>1 DEF Filed
<1>9. \A e : e \in Listed(c) <=> \E a \in DOMAIN c.buckets : e \in ToSet(c.buckets[a])
  BY <1>1, ListedMeans
<1>10. \A e : e \in Listed(d) <=> \E a \in DOMAIN c.buckets : e \in ToSet(d.buckets[a])
  BY <1>4, <1>5, ListedMeans
<1>11. Listed(d) = (Listed(c) \ ToSet(c.buckets[b])) \cup ToSet(t)
  <2>1. ASSUME NEW e \in Listed(d) PROVE e \in (Listed(c) \ ToSet(c.buckets[b])) \cup ToSet(t)
    <3>1. PICK a \in DOMAIN c.buckets : e \in ToSet(d.buckets[a])
      BY <1>10
    <3> QED
      BY <1>7, <1>8, <1>9, <3>1
  <2>2. ASSUME NEW e \in Listed(c), e \notin ToSet(c.buckets[b]) PROVE e \in Listed(d)
    <3>1. PICK a \in DOMAIN c.buckets : e \in ToSet(c.buckets[a]) /\ a # b
      BY <1>9, <2>2
    <3> QED
      BY <1>7, <1>10, <3>1
  <2>3. ASSUME NEW e \in ToSet(t) PROVE e \in Listed(d)
    BY <1>7, <1>10
  <2> QED
    BY <2>1, <2>2, <2>3
<1>12. Filed(d)
  <2> SUFFICES ASSUME NEW a \in DOMAIN c.buckets
               PROVE  /\ Ordered(d.buckets[a])
                      /\ \A k \in ToSet(d.buckets[a]) : Hash(d, k.ts) = a /\ k.ts >= d.lastPrio
    BY <1>5 DEF Filed
  <2>1. Ordered(c.buckets[a]) /\ \A k \in ToSet(c.buckets[a]) : Hash(c, k.ts) = a
    BY <1>1 DEF Filed
  <2>2. \A k \in ToSet(d.buckets[a]) : k \in Listed(d)
    BY <1>10
  <2>3. \A k \in ToSet(d.buckets[a]) : k.ts >= d.lastPrio
    BY <1>11, <2>2
  <2>4. CASE a = b
    BY <1>6, <1>7, <2>3, <2>4
  <2>5. CASE a # b
    BY <1>6, <1>7, <2>1, <2>3, <2>5
  <2> QED
    BY <2>4, <2>5
<1> QED
  BY <1>4, <1>6, <1>11, <1>12

\* DoInsert adds the event, in its bucket.
LEMMA DoInsertKeeps ==
  ASSUME NEW c \in Arranged, NEW e \in Key, e \notin Listed(c), e.ts >= c.lastPrio
  PROVE  /\ DoInsert(c, e) \in Arranged
         /\ Listed(DoInsert(c, e)) = Listed(c) \cup {e}
         /\ DoInsert(c, e).lastPrio = c.lastPrio /\ DoInsert(c, e).qSize = c.qSize
<1>1. c \in Calendars
  BY DEF Arranged
<1>2. PICK b \in DOMAIN c.buckets : b = Hash(c, e.ts)
  BY BucketOf
<1>3. /\ c.buckets[b] \in Seq(Key) /\ Ordered(c.buckets[b]) /\ e \notin ToSet(c.buckets[b])
      /\ ToSet(c.buckets[b]) \subseteq Listed(c)
      /\ \A k \in ToSet(c.buckets[b]) : Hash(c, k.ts) = b
  BY <1>1, <1>2, BucketOf, ListedMeans DEF Arranged, Filed
<1>4. PICK t \in Seq(Key) : t = Inserted(c.buckets[b], e)
  BY <1>3, InsertedIsSorted
<1>5. Ordered(t) /\ ToSet(t) = ToSet(c.buckets[b]) \cup {e}
  BY <1>3, <1>4, InsertedIsSorted
<1>6. PICK d : d = DoInsert(c, e)
  OBVIOUS
<1>7. d = [c EXCEPT !.buckets = [c.buckets EXCEPT ![b] = t]]
  BY <1>1, <1>2, <1>4, <1>6 DEF DoInsert
<1>8. /\ d \in [buckets : {[c.buckets EXCEPT ![b] = t]}, width : {c.width},
                lastPrio : Nat, lastBucket : Nat, bucketTop : Nat, qSize : Nat]
      /\ d.lastPrio = c.lastPrio /\ d.lastBucket = c.lastBucket
      /\ d.bucketTop = c.bucketTop /\ d.qSize = c.qSize /\ d.width = c.width
  BY <1>1, <1>7 DEF Calendars
<1>9. \A k \in ToSet(t) : Hash(c, k.ts) = b
  BY <1>2, <1>3, <1>5
<1>10. (Listed(c) \ ToSet(c.buckets[b])) \cup ToSet(t) = Listed(c) \cup {e}
  BY <1>3, <1>5
<1>11. \A k \in Listed(c) \cup {e} : k.ts >= d.lastPrio
  BY <1>1, <1>8, BucketOf, ListedMeans
<1>12. /\ d \in Calendars /\ Filed(d) /\ \A ts : Hash(d, ts) = Hash(c, ts)
       /\ Listed(d) = Listed(c) \cup {e}
  BY <1>5, <1>8, <1>9, <1>10, <1>11, BucketReplaced
<1>13. Standing(d)
  BY <1>8, <1>12 DEF Arranged, Standing
<1> QED
  BY <1>6, <1>8, <1>12, <1>13 DEF Arranged

\* Any set of keys that is not empty has an earliest one.
LEMMA EarliestExists ==
  ASSUME NEW F \in SUBSET Key, F # {}
  PROVE  /\ Earliest(F) \in F
         /\ \A l \in F : l = Earliest(F) \/ Earlier(Earliest(F), l)
<1> DEFINE T == {k.ts : k \in F}
<1>1. T \in SUBSET Nat /\ T # {}
  BY DEF Key
<1>2. PICK m \in T : \A x \in T : m <= x
  <2> HIDE DEF T
  <2> QED
    BY <1>1, LeastPosition
<1> DEFINE U == {k.uid : k \in {l \in F : l.ts = m}}
<1>3. U \in SUBSET Nat /\ U # {}
  BY <1>2 DEF Key
<1>4. PICK u \in U : \A x \in U : u <= x
  <2> HIDE DEF U
  <2> QED
    BY <1>3, LeastPosition
<1>5. PICK k \in F : k.ts = m /\ k.uid = u
  BY <1>4
<1>6. \A l \in F : l = k \/ Earlier(k, l)
  <2> TAKE l \in F
  <2>1. l \in Key /\ k \in Key /\ l.ts \in Nat /\ k.ts \in Nat /\ l.uid \in Nat /\ k.uid \in Nat
    BY DEF Key
  <2>2. k.ts <= l.ts
    BY <1>2, <1>5
  <2>3. l.ts = k.ts => k.uid <= l.uid
    BY <1>4, <1>5
  <2>4. l.ts = k.ts /\ l.uid = k.uid => l = k
    BY <2>1 DEF Key
  <2> QED
    BY <2>1, <2>2, <2>3, <2>4 DEF Earlier
<1>7. \E e \in F : \A l \in F : l = e \/ Earlier(e, l)
  BY <1>6
<1> QED
  BY <1>7 DEF Earliest

\* It is the only one.
LEMMA EarliestIs ==
  ASSUME NEW F \in SUBSET Key, NEW k \in F, \A l \in F : l = k \/ Earlier(k, l)
  PROVE  Earliest(F) = k
<1>1. /\ Earliest(F) \in F
      /\ \A l \in F : l = Earliest(F) \/ Earlier(Earliest(F), l)
  BY EarliestExists
<1>2. Earliest(F) \in Key /\ k \in Key
  BY <1>1
<1> QED
  BY <1>1, <1>2, EarlierIsOrder

\* Step j of the search looks at the bucket of the j-th day from the last
\* event's, and for events of up to that day.
LEMMA SearchDays ==
  ASSUME NEW c \in Arranged, NEW j \in 0..NumBuckets(c) - 1
  PROVE  /\ c.lastPrio \div c.width \in Nat
         /\ At(c, j) = (c.lastPrio \div c.width + j) % NumBuckets(c)
         /\ Top(c, j) = (c.lastPrio \div c.width + j + 1) * c.width
         /\ At(c, j) \in DOMAIN c.buckets
<1>1. c \in Calendars /\ Standing(c)
  BY DEF Arranged
<1>2. PICK w \in Nat \ {0} : w = c.width
  BY <1>1 DEF Calendars
<1>3. PICK n \in Nat \ {0} : n = NumBuckets(c) /\ DOMAIN c.buckets = 0..n - 1
  BY <1>1, CalendarShape
<1>4. c.lastPrio \in Nat
  BY <1>1 DEF Calendars
<1>5. PICK d \in Nat : d = c.lastPrio \div w
  BY <1>4, DivBounds
<1>6. c.lastBucket = d % n /\ c.bucketTop = (d + 1) * w
  BY <1>1, <1>2, <1>3, <1>5 DEF Standing, Hash
<1>7. j \in Nat
  BY <1>3
<1>8. At(c, j) = (d + j) % n
  BY <1>3, <1>6, <1>7, ModShift DEF At
<1>9. Top(c, j) = (d + j + 1) * w
  BY <1>2, <1>6, <1>7, TopOfDay DEF Top
<1>10. (d + j) % n \in 0..n - 1
  <2>1. d + j \in Nat
    BY <1>7
  <2> QED
    BY <2>1, ModRange
<1> QED
  BY <1>2, <1>3, <1>5, <1>8, <1>9, <1>10

\* The first event of a bucket is its earliest.
LEMMA FirstOfBucket ==
  ASSUME NEW c \in Arranged, NEW b \in Filled(c)
  PROVE  /\ b \in DOMAIN c.buckets /\ c.buckets[b] \in Seq(Key) /\ c.buckets[b] # <<>>
         /\ Ordered(c.buckets[b])
         /\ First(c, b) \in Key /\ First(c, b) \in Listed(c)
         /\ Hash(c, First(c, b).ts) = b
         /\ \A e \in ToSet(c.buckets[b]) : e = First(c, b) \/ Earlier(First(c, b), e)
<1>1. c \in Calendars /\ Filed(c) /\ b \in DOMAIN c.buckets /\ c.buckets[b] # <<>>
  BY DEF Arranged, Filled
<1>2. c.buckets[b] \in Seq(Key) /\ Ordered(c.buckets[b])
  BY <1>1, CalendarShape DEF Filed
<1>3. /\ First(c, b) \in ToSet(c.buckets[b]) /\ First(c, b) \in Key
      /\ \A e \in ToSet(c.buckets[b]) : e = First(c, b) \/ Earlier(First(c, b), e)
  BY <1>1, <1>2, HeadIsEarliest DEF First
<1>4. First(c, b) \in Listed(c) /\ Hash(c, First(c, b).ts) = b
  BY <1>1, <1>3, ListedMeans DEF Filed
<1> QED
  BY <1>1, <1>2, <1>3, <1>4

\* An event's day is not before the last event's, and deals it its bucket.
LEMMA DayOfEvent ==
  ASSUME NEW c \in Arranged, NEW e \in Listed(c)
  PROVE  /\ e \in Key /\ e.ts \in Nat /\ e.ts \div c.width \in Nat
         /\ c.lastPrio \div c.width <= e.ts \div c.width
         /\ Hash(c, e.ts) = (e.ts \div c.width) % NumBuckets(c)
         /\ Hash(c, e.ts) \in Filled(c)
         /\ e \in ToSet(c.buckets[Hash(c, e.ts)])
<1>1. c \in Calendars /\ e \in Key
  BY ListedMeans DEF Arranged
<1>2. e.ts \in Nat /\ c.width \in Nat \ {0} /\ c.lastPrio \in Nat
  BY <1>1 DEF Calendars, Key
<1>3. /\ e \in ToSet(c.buckets[Hash(c, e.ts)]) /\ c.lastPrio <= e.ts
      /\ Hash(c, e.ts) \in DOMAIN c.buckets /\ c.buckets[Hash(c, e.ts)] \in Seq(Key)
  BY <1>1, <1>2, BucketOf
<1>4. Hash(c, e.ts) \in Filled(c)
  BY <1>3, InSequence DEF Filled
<1> QED
  BY <1>1, <1>2, <1>3, <1>4, DivBounds, DayMonotone DEF Hash

\* The search finds the events of the days it looks for, and no others.
LEMMA HitsAreDays ==
  ASSUME NEW c \in Arranged, NEW j \in 0..NumBuckets(c) - 1
  PROVE  /\ j \in Hits(c) =>
              /\ At(c, j) \in Filled(c)
              /\ First(c, At(c, j)).ts < Top(c, j)
              /\ First(c, At(c, j)).ts \div c.width = c.lastPrio \div c.width + j
         /\ \A e \in Listed(c) :
              e.ts \div c.width = c.lastPrio \div c.width + j => j \in Hits(c)
<1>1. c \in Calendars
  BY DEF Arranged
<1>2. PICK w \in Nat \ {0} : w = c.width
  BY <1>1 DEF Calendars
<1>3. PICK n \in Nat \ {0} : n = NumBuckets(c)
  BY <1>1, CalendarShape
<1>4. PICK d \in Nat : /\ d = c.lastPrio \div w
                       /\ At(c, j) = (d + j) % n /\ Top(c, j) = (d + j + 1) * w
  BY <1>2, <1>3, SearchDays
<1>5. j \in Nat /\ j < n
  BY <1>3
<1>6. ASSUME j \in Hits(c)
      PROVE  /\ At(c, j) \in Filled(c) /\ First(c, At(c, j)).ts < Top(c, j)
             /\ First(c, At(c, j)).ts \div w = d + j
  <2>1. At(c, j) \in Filled(c) /\ First(c, At(c, j)).ts < Top(c, j)
    BY <1>6 DEF Hits
  <2>2. PICK f : f = First(c, At(c, j))
    OBVIOUS
  <2>3. f \in Listed(c) /\ Hash(c, f.ts) = At(c, j)
    BY <2>1, <2>2, FirstOfBucket
  <2>4. PICK q \in Nat : q = f.ts \div w /\ d <= q /\ q % n = (d + j) % n
    BY <1>2, <1>3, <1>4, <2>3, DayOfEvent
  <2>5. d + j \in Nat /\ f.ts \in Nat /\ f.ts < (d + j + 1) * w
    BY <1>4, <1>5, <2>1, <2>2, <2>3, DayOfEvent
  <2>6. q <= d + j
    BY <2>4, <2>5, DayEnds
  <2>7. d + j < q + n
    <3>1. j \in Nat /\ j < n /\ d <= q
      BY <1>5, <2>4
    <3> QED
      BY <3>1
  <2>8. q = d + j
    BY <2>4, <2>5, <2>6, <2>7, ModUnique
  <2> QED
    BY <2>1, <2>2, <2>4, <2>8
<1>7. ASSUME NEW e \in Listed(c), e.ts \div w = d + j PROVE j \in Hits(c)
  <2>1. Hash(c, e.ts) = At(c, j) /\ At(c, j) \in Filled(c) /\ e \in ToSet(c.buckets[At(c, j)])
        /\ e.ts \in Nat /\ e \in Key
    BY <1>2, <1>3, <1>4, <1>7, DayOfEvent
  <2>2. PICK f : f = First(c, At(c, j))
    OBVIOUS
  <2>3. f \in Key /\ (e = f \/ Earlier(f, e))
    BY <2>1, <2>2, FirstOfBucket
  <2>4. f.ts \in Nat /\ f.ts <= e.ts
    BY <2>1, <2>3 DEF Key, Earlier
  <2>5. f.ts \div w <= d + j /\ d + j \in Nat
    BY <1>5, <1>7, <2>1, <2>4, DayMonotone
  <2>6. f.ts < (d + j + 1) * w
    BY <2>4, <2>5, DayEnds
  <2> QED
    BY <1>4, <2>1, <2>2, <2>6 DEF Hits
<1> QED
  BY <1>2, <1>4, <1>6, <1>7

\* What the search returns is the earliest event of the calendar, the first of
\* its bucket; after a hit the search stands on its day.
LEMMA NextKeyIsEarliest ==
  ASSUME NEW c \in Arranged, Listed(c) # {}
  PROVE  /\ NextKey(c) \in Listed(c)
         /\ \A e \in Listed(c) : e = NextKey(c) \/ Earlier(NextKey(c), e)
         /\ Hash(c, NextKey(c).ts) \in Filled(c)
         /\ NextKey(c) = First(c, Hash(c, NextKey(c).ts))
         /\ Hits(c) # {} =>
              /\ At(c, FirstHit(c)) = Hash(c, NextKey(c).ts)
              /\ Top(c, FirstHit(c)) = (NextKey(c).ts \div c.width + 1) * c.width
<1>1. PICK n \in Nat \ {0} : n = NumBuckets(c)
  BY CalendarShape DEF Arranged
<1>2. PICK w \in Nat \ {0} : w = c.width
  BY DEF Arranged, Calendars
<1>3. CASE Hits(c) # {}
  <2>1. Hits(c) \in SUBSET Nat /\ Hits(c) \subseteq 0..n - 1
    BY <1>1 DEF Hits
  <2>2. \E j \in Hits(c) : \A h \in Hits(c) : j <= h
    BY <1>3, <2>1, LeastPosition
  <2>3. PICK j \in Hits(c) : j = FirstHit(c) /\ \A h \in Hits(c) : j <= h
    BY <2>2 DEF FirstHit
  <2>4. j \in 0..n - 1 /\ j \in 0..NumBuckets(c) - 1 /\ j \in Nat
    BY <1>1, <2>1
  <2>5. PICK d \in Nat : d = c.lastPrio \div w /\ Top(c, j) = (d + j + 1) * w
    BY <1>2, <2>4, SearchDays
  <2>6. PICK f : f = First(c, At(c, j))
    OBVIOUS
  <2>7. At(c, j) \in Filled(c) /\ f.ts < Top(c, j) /\ f.ts \div w = d + j
    BY <1>2, <2>3, <2>4, <2>5, <2>6, HitsAreDays
  <2>8. NextKey(c) = f
    BY <1>3, <2>3, <2>6 DEF NextKey
  <2>9. /\ f \in Key /\ f \in Listed(c) /\ Hash(c, f.ts) = At(c, j)
        /\ \A e \in ToSet(c.buckets[At(c, j)]) : e = f \/ Earlier(f, e)
    BY <2>6, <2>7, FirstOfBucket
  <2>10. ASSUME NEW e \in Listed(c) PROVE e = f \/ Earlier(f, e)
    <3>1. PICK q \in Nat : q = e.ts \div w /\ d <= q
      BY <1>2, <2>5, DayOfEvent
    <3>2. e \in Key /\ e.ts \in Nat /\ f.ts \in Nat
      BY <2>9, DayOfEvent
    <3>3. CASE q < d + j
      <4>1. PICK h \in Nat : h = q - d /\ q = d + h /\ h < j /\ h \in 0..NumBuckets(c) - 1
        BY <1>1, <2>4, <3>1, <3>3
      <4>2. h \in Hits(c)
        BY <1>2, <2>5, <3>1, <4>1, HitsAreDays
      <4> QED
        BY <2>3, <2>4, <4>1, <4>2
    <3>4. CASE q = d + j
      <4>1. Hash(c, e.ts) = q % n /\ e \in ToSet(c.buckets[Hash(c, e.ts)])
        BY <1>1, <1>2, <3>1, DayOfEvent
      <4>2. Hash(c, f.ts) = q % n
        BY <1>1, <1>2, <2>7, <2>9, <3>4, DayOfEvent
      <4> QED
        BY <2>9, <4>1, <4>2
    <3>5. CASE q > d + j
      <4>1. d + j \in Nat
        BY <2>4, <2>5
      <4>2. ~(e.ts < (d + j + 1) * w)
        BY SMTT(40), <3>1, <3>2, <3>5, <4>1, DayEnds
      <4>3. PICK t \in Nat : t = (d + j + 1) * w
        BY <4>1
      <4>4. f.ts < t /\ ~(e.ts < t)
        BY <2>5, <2>7, <4>2, <4>3
      <4>5. f.ts < e.ts
        BY <3>2, <4>4
      <4> QED
        BY <4>5 DEF Earlier
    <3>6. d + j \in Nat
      BY <2>4
    <3> QED
      BY <3>1, <3>3, <3>4, <3>5, <3>6
  <2>11. Top(c, FirstHit(c)) = (f.ts \div c.width + 1) * c.width
    BY <1>2, <2>3, <2>5, <2>7
  <2> QED
    BY <2>3, <2>6, <2>7, <2>8, <2>9, <2>10, <2>11
<1>4. CASE Hits(c) = {}
  <2> DEFINE F == {First(c, b) : b \in Filled(c)}
  <2>1. F \in SUBSET Key
    BY FirstOfBucket
  <2>2. ASSUME NEW e \in Listed(c)
        PROVE  /\ First(c, Hash(c, e.ts)) \in F
               /\ e \in Key /\ (e = First(c, Hash(c, e.ts)) \/ Earlier(First(c, Hash(c, e.ts)), e))
    BY DayOfEvent, FirstOfBucket
  <2>3. F # {}
    BY <2>2
  <2>4. PICK k \in F : k = NextKey(c)
    <3>1. NextKey(c) = Earliest(F)
      BY <1>4 DEF NextKey
    <3> HIDE DEF F
    <3> QED
      BY <2>1, <2>3, <3>1, EarliestExists
  <2>5. \A l \in F : l = k \/ Earlier(k, l)
    <3>1. NextKey(c) = Earliest(F)
      BY <1>4 DEF NextKey
    <3> HIDE DEF F
    <3> QED
      BY <2>1, <2>3, <2>4, <3>1, EarliestExists
  <2>6. PICK b \in Filled(c) : k = First(c, b)
    BY <2>4
  <2>7. k \in Listed(c) /\ k \in Key /\ Hash(c, k.ts) = b
    BY <2>6, FirstOfBucket
  <2>8. ASSUME NEW e \in Listed(c) PROVE e = k \/ Earlier(k, e)
    <3>1. PICK f \in F : e \in Key /\ (e = f \/ Earlier(f, e))
      BY <2>2
    <3>2. f \in Key /\ (f = k \/ Earlier(k, f))
      <4> HIDE DEF F
      <4> QED
        BY <2>1, <2>5
    <3> QED
      BY <2>7, <3>1, <3>2, EarlierIsOrder
  <2> QED
    BY <1>4, <2>4, <2>6, <2>7, <2>8
<1> QED
  BY <1>3, <1>4

\* DoRemoveNext takes that event out, and the calendar stands on its day.
LEMMA TakenKeeps ==
  ASSUME NEW c \in Arranged, Listed(c) # {}
  PROVE  /\ Taken(c) \in Arranged
         /\ Listed(Taken(c)) = Listed(c) \ {NextKey(c)}
         /\ Taken(c).lastPrio = NextKey(c).ts /\ Taken(c).qSize = c.qSize
<1>1. c \in Calendars
  BY DEF Arranged
<1>2. PICK k \in Listed(c) : k = NextKey(c) /\ \A e \in Listed(c) : e = k \/ Earlier(k, e)
  BY NextKeyIsEarliest
<1>3. PICK b \in Filled(c) : b = Hash(c, k.ts) /\ k = First(c, b)
  BY <1>2, NextKeyIsEarliest
<1>4. Hits(c) # {} => /\ At(c, FirstHit(c)) = b
                      /\ Top(c, FirstHit(c)) = (k.ts \div c.width + 1) * c.width
  BY <1>2, <1>3, NextKeyIsEarliest
<1>5. /\ b \in DOMAIN c.buckets /\ c.buckets[b] \in Seq(Key) /\ c.buckets[b] # <<>>
      /\ Ordered(c.buckets[b]) /\ k \in Key /\ k = Head(c.buckets[b])
  BY <1>3, FirstOfBucket DEF First
<1>6. PICK t \in Seq(Key) : /\ t = Tail(c.buckets[b]) /\ Ordered(t)
                            /\ ToSet(t) = ToSet(c.buckets[b]) \ {k}
  BY <1>5, HeadIsEarliest
<1>7. PICK top : top = (k.ts \div c.width + 1) * c.width
  OBVIOUS
<1>8. PICK d : d = Taken(c)
  OBVIOUS
<1>9. d = [c EXCEPT !.lastPrio = k.ts, !.buckets = [c.buckets EXCEPT ![b] = t],
                    !.lastBucket = b, !.bucketTop = top]
  BY <1>1, <1>2, <1>3, <1>4, <1>5, <1>6, <1>7, <1>8 DEF Taken
<1>10. k.ts \in Nat /\ b \in Nat /\ top \in Nat
  <2>1. k.ts \in Nat /\ c.width \in Nat \ {0}
    BY <1>1, <1>5 DEF Key, Calendars
  <2>2. k.ts \div c.width \in Nat
    BY <2>1, DivBounds
  <2>3. top \in Nat
    BY <1>7, <2>1, <2>2
  <2>4. PICK n \in Nat \ {0} : DOMAIN c.buckets = 0..n - 1
    BY <1>1, CalendarShape
  <2> QED
    BY <1>5, <2>1, <2>3, <2>4
<1>11. /\ d \in [buckets : {[c.buckets EXCEPT ![b] = t]}, width : {c.width},
                 lastPrio : Nat, lastBucket : Nat, bucketTop : Nat, qSize : Nat]
       /\ d.lastPrio = k.ts /\ d.lastBucket = b /\ d.bucketTop = top
       /\ d.qSize = c.qSize /\ d.width = c.width
  BY <1>1, <1>9, <1>10 DEF Calendars
<1>12. \A e \in ToSet(c.buckets[b]) : Hash(c, e.ts) = b /\ e \in Listed(c)
  BY <1>1, <1>5, ListedMeans DEF Arranged, Filed
<1>13. k \in ToSet(c.buckets[b])
  BY <1>5, HeadIsEarliest
<1>14. (Listed(c) \ ToSet(c.buckets[b])) \cup ToSet(t) = Listed(c) \ {k}
  BY <1>6, <1>12, <1>13
<1>15. \A e \in Listed(c) \ {k} : e.ts >= d.lastPrio
  <2> TAKE e \in Listed(c) \ {k}
  <2>1. Earlier(k, e) /\ e.ts \in Nat
    BY <1>2, DayOfEvent
  <2> QED
    BY <1>10, <1>11, <2>1 DEF Earlier
<1>16. \A e \in ToSet(t) : Hash(c, e.ts) = b
  BY <1>6, <1>12
<1>17. /\ d \in Calendars /\ Filed(d) /\ \A ts : Hash(d, ts) = Hash(c, ts)
       /\ Listed(d) = Listed(c) \ {k}
  <2>1. \A e \in (Listed(c) \ ToSet(c.buckets[b])) \cup ToSet(t) : e.ts >= d.lastPrio
    BY <1>14, <1>15
  <2>2. /\ d \in Calendars /\ Filed(d) /\ \A ts : Hash(d, ts) = Hash(c, ts)
        /\ Listed(d) = (Listed(c) \ ToSet(c.buckets[b])) \cup ToSet(t)
    <3>1. d \in [buckets : {[c.buckets EXCEPT ![b] = t]}, width : {c.width},
                 lastPrio : Nat, lastBucket : Nat, bucketTop : Nat, qSize : Nat]
      BY <1>11
    <3>2. b \in DOMAIN c.buckets /\ t \in Seq(Key) /\ Ordered(t)
      BY <1>5, <1>6
    <3> QED
      BY <1>16, <2>1, <3>1, <3>2, BucketReplaced
  <2> QED
    BY <1>14, <2>2
<1>18. Standing(d)
  BY <1>3, <1>7, <1>11, <1>17 DEF Standing
<1> QED
  BY <1>2, <1>8, <1>11, <1>17, <1>18 DEF Arranged

----------------------------------------------------------------------------
(* The new width of a calendar.                                            *)

\* The sums of the first numbers of a sequence, up to that of all.
LEMMA TotalIsSum ==
  ASSUME NEW s \in Seq(Int)
  PROVE  \E sum : /\ Total(s) = sum[Len(s)] /\ sum[0] = 0
                 /\ \A k \in 1..Len(s) : sum[k] = sum[k - 1] + s[k]
<1>1. PICK N \in Nat : N = Len(s)
  OBVIOUS
<1>2. \A k \in 1..N : s[k] \in Int
  BY <1>1
<1>3. PICK turn \in [(1..N) \X Int -> Int] :
         \A k \in 1..N : \A a \in Int : turn[<<k, a>>] = a + s[k]
  <2> DEFINE t == [p \in (1..N) \X Int |-> p[2] + s[p[1]]]
  <2>1. t \in [(1..N) \X Int -> Int]
    BY <1>2
  <2>2. \A k \in 1..N : \A a \in Int : t[<<k, a>>] = a + s[k]
    OBVIOUS
  <2> HIDE DEF t
  <2> QED
    BY <2>1, <2>2
<1>4. PICK f \in [0..N -> Int] : Runs(f, N, 0, turn)
  <2>1. 0 \in Int
    OBVIOUS
  <2> QED
    BY <2>1, <1>3, LoopIsDefined
<1>5. f[0] = 0 /\ \A k \in 1..N : f[k] = f[k - 1] + s[k]
  <2>1. \A k \in 1..N : k - 1 \in 0..N /\ f[k - 1] \in Int
    OBVIOUS
  <2> QED
    BY <2>1, <1>3, <1>4 DEF Runs
<1> DEFINE Defines(g) == g = [i \in 0..Len(s) |-> IF i = 0 THEN 0 ELSE g[i - 1] + s[i]]
<1>6. Defines(f)
  <2>1. \A k \in 0..N : f[k] = IF k = 0 THEN 0 ELSE f[k - 1] + s[k]
    <3> TAKE k \in 0..N
    <3>1. k = 0 \/ k \in 1..N
      OBVIOUS
    <3> QED
      BY <3>1, <1>5
  <2> QED
    BY <1>1, <2>1
<1>7. PICK sum : sum = CHOOSE g : Defines(g)
  OBVIOUS
<1>8. Defines(sum)
  <2> HIDE DEF Defines
  <2> QED
    BY <1>6, <1>7
<1>9. Total(s) = sum[N]
  BY <1>1, <1>7 DEF Total
<1>10. sum[0] = 0 /\ \A k \in 1..N : sum[k] = sum[k - 1] + s[k]
  <2>1. \A k \in 0..N : sum[k] = IF k = 0 THEN 0 ELSE sum[k - 1] + s[k]
    BY <1>1, <1>8
  <2>2. \A k \in 1..N : k \in 0..N /\ k # 0
    OBVIOUS
  <2> QED
    BY <2>1, <2>2
<1> HIDE DEF Defines
<1> QED
  BY <1>1, <1>9, <1>10

\* The sum of a sequence of numbers is a number.
LEMMA TotalIsNumber ==
  ASSUME NEW s \in Seq(Int)
  PROVE  Total(s) \in Int
<1>1. PICK N \in Nat : N = Len(s)
  OBVIOUS
<1>2. PICK sum : /\ Total(s) = sum[N] /\ sum[0] = 0
                 /\ \A k \in 1..N : sum[k] = sum[k - 1] + s[k]
  BY <1>1, TotalIsSum
<1> DEFINE G == {k \in 0..N : sum[k] \in Int}
<1>3. \A k \in 1..N : s[k] \in Int
  BY <1>1
<1>4. 0 \in G
  BY <1>2
<1>5. ASSUME NEW k \in 1..N, k - 1 \in G PROVE k \in G
  <2>1. PICK a \in Int, b \in Int : a = sum[k - 1] /\ b = s[k]
    BY <1>3, <1>5
  <2>2. sum[k] = a + b /\ k \in 0..N
    BY <1>2, <2>1
  <2> QED
    BY <2>2
<1>6. 0..N \subseteq G
  <2> HIDE DEF G
  <2> QED
    BY <1>4, <1>5, PrefixInduction
<1>7. N \in 0..N /\ N \in G
  BY <1>6
<1> QED
  BY <1>2, <1>7

\* Parts of the distances between times in order sum up to no more than the
\* distance from the first time to the last.
LEMMA TotalIsBounded ==
  ASSUME NEW m \in Nat, NEW ts \in [1..m + 1 -> Nat], NEW s \in [1..m -> Int],
         \A i \in 1..m : 0 <= s[i] /\ s[i] <= ts[i + 1] - ts[i]
  PROVE  Total(s) \in 0..ts[m + 1] - ts[1]
<1>1. s \in Seq(Int) /\ Len(s) = m
  OBVIOUS
<1>2. PICK sum : /\ Total(s) = sum[m] /\ sum[0] = 0
                 /\ \A k \in 1..m : sum[k] = sum[k - 1] + s[k]
  BY <1>1, TotalIsSum
<1> DEFINE G == {k \in 0..m : sum[k] \in Int /\ 0 <= sum[k] /\ sum[k] <= ts[k + 1] - ts[1]}
<1>3. \A k \in 0..m : ts[k + 1] \in Nat
  <2>1. \A k \in 0..m : k + 1 \in 1..m + 1
    OBVIOUS
  <2> QED
    BY <2>1
<1>4. 0 \in G
  BY <1>2, <1>3
<1>5. ASSUME NEW k \in 1..m, k - 1 \in G PROVE k \in G
  <2>1. PICK a \in Int : a = sum[k - 1] /\ 0 <= a /\ a <= ts[(k - 1) + 1] - ts[1]
    BY <1>5
  <2>2. (k - 1) + 1 = k /\ k \in 0..m
    OBVIOUS
  <2>3. PICK b \in Int : b = s[k] /\ 0 <= b /\ b <= ts[k + 1] - ts[k]
    OBVIOUS
  <2>4. PICK x \in Nat, y \in Nat, z \in Nat : x = ts[1] /\ y = ts[k] /\ z = ts[k + 1]
    <3>1. ts[1] \in Nat /\ ts[k] \in Nat /\ ts[k + 1] \in Nat
      BY <1>3, <2>2
    <3> QED
      BY <3>1
  <2>5. sum[k] = a + b
    BY <1>2, <2>1, <2>3
  <2>6. /\ a \in Int /\ b \in Int /\ x \in Nat /\ y \in Nat /\ z \in Nat
        /\ 0 <= a /\ 0 <= b /\ a <= y - x /\ b <= z - y
    BY <2>1, <2>2, <2>3, <2>4
  <2>7. a + b \in Int /\ 0 <= a + b /\ a + b <= z - x
    BY <2>6
  <2> QED
    BY <2>2, <2>4, <2>5, <2>7
<1>6. 0..m \subseteq G
  <2> HIDE DEF G
  <2> QED
    BY <1>4, <1>5, PrefixInduction
<1>7. m \in 0..m /\ m \in G
  BY <1>6
<1> QED
  BY <1>2, <1>3, <1>7

\* The times of the events DoRemoveNext finds next, as long as there are some,
\* are times of events of the calendar, in order.
LEMMA SamplesAreTimes ==
  ASSUME NEW c \in Arranged, IsFiniteSet(Listed(c)),
         NEW n \in Nat, n <= Cardinality(Listed(c))
  PROVE  /\ Samples(c, n) \in [1..n -> Nat]
         /\ \A i \in 1..n : \E e \in Listed(c) : Samples(c, n)[i] = e.ts
         /\ \A i \in 1..n - 1 : Samples(c, n)[i] <= Samples(c, n)[i + 1]
<1>1. PICK q \in Nat : q = Cardinality(Listed(c))
  BY FS_CardinalityType
<1> DEFINE Left(d, k) == /\ IsFiniteSet(Listed(d)) /\ Cardinality(Listed(d)) = q - k
                         /\ Listed(d) \subseteq Listed(c)
<1>2. ASSUME NEW d \in Arranged, NEW k \in 1..n, Left(d, k - 1)
      PROVE  Listed(d) # {} /\ Taken(d) \in Arranged /\ Left(Taken(d), k)
  <2>1. Cardinality(Listed(d)) # 0
    BY <1>1, <1>2
  <2>2. Listed(d) # {}
    BY <1>2, <2>1, FS_EmptySet
  <2>3. Taken(d) \in Arranged /\ Listed(Taken(d)) = Listed(d) \ {NextKey(d)} /\ NextKey(d) \in Listed(d)
    BY <2>2, TakenKeeps, NextKeyIsEarliest
  <2>4. IsFiniteSet(Listed(d) \ {NextKey(d)})
        /\ Cardinality(Listed(d) \ {NextKey(d)}) = Cardinality(Listed(d)) - 1
    BY <1>2, <2>3, FS_RemoveElement
  <2> QED
    BY <1>1, <1>2, <2>2, <2>3, <2>4
<1> HIDE DEF Left
<1>3. PICK S : S = Arranged
  OBVIOUS
<1>4. PICK turn \in [(1..n) \X S -> S] :
         \A k \in 1..n : \A d \in S : Listed(d) # {} => turn[<<k, d>>] = Taken(d)
  <2> DEFINE t == [p \in (1..n) \X S |-> IF Listed(p[2]) = {} THEN p[2] ELSE Taken(p[2])]
  <2>1. \A d \in S : Listed(d) # {} => Taken(d) \in S
    BY <1>3, TakenKeeps
  <2>2. t \in [(1..n) \X S -> S]
    BY <2>1
  <2>3. \A k \in 1..n : \A d \in S : Listed(d) # {} => t[<<k, d>>] = Taken(d)
    OBVIOUS
  <2> HIDE DEF t
  <2> QED
    BY <2>2, <2>3
<1>5. PICK f \in [0..n -> S] : Runs(f, n, c, turn)
  BY <1>3, <1>4, LoopIsDefined
<1> DEFINE G == {k \in 0..n : Left(f[k], k)}
<1>6. 0 \in G
  BY <1>1, <1>5 DEF Runs, Left
<1>7. ASSUME NEW k \in 1..n, k - 1 \in G PROVE k \in G
  <2>1. k - 1 \in 0..n /\ f[k - 1] \in S /\ Left(f[k - 1], k - 1)
    BY <1>7
  <2>2. Listed(f[k - 1]) # {} /\ Left(Taken(f[k - 1]), k)
    BY <1>2, <1>3, <2>1
  <2>3. f[k] = Taken(f[k - 1])
    BY <1>4, <1>5, <2>1, <2>2 DEF Runs
  <2> QED
    BY <2>2, <2>3
<1>8. \A k \in 0..n : Left(f[k], k)
  <2>1. 0..n \subseteq G
    <3> HIDE DEF G
    <3> QED
      BY <1>6, <1>7, PrefixInduction
  <2> QED
    BY <2>1
<1> HIDE DEF G
<1>9. \A k \in 1..n : /\ k - 1 \in 0..n /\ f[k - 1] \in Arranged
                      /\ Listed(f[k - 1]) # {} /\ f[k] = Taken(f[k - 1])
  <2> TAKE k \in 1..n
  <2>1. k - 1 \in 0..n /\ f[k - 1] \in S /\ Left(f[k - 1], k - 1)
    BY <1>8
  <2>2. Listed(f[k - 1]) # {}
    BY <1>2, <1>3, <2>1
  <2> QED
    BY <1>3, <1>4, <1>5, <2>1, <2>2 DEF Runs
<1> DEFINE Defines(g) == g = [i \in 0..n |-> IF i = 0 THEN c ELSE Taken(g[i - 1])]
<1>10. Defines(f)
  <2>1. \A k \in 0..n : f[k] = IF k = 0 THEN c ELSE Taken(f[k - 1])
    <3> TAKE k \in 0..n
    <3>1. k = 0 \/ k \in 1..n
      OBVIOUS
    <3> QED
      BY <3>1, <1>5, <1>9 DEF Runs
  <2> QED
    BY <2>1
<1>11. PICK after : after = CHOOSE g : Defines(g)
  OBVIOUS
<1>12. Defines(after)
  <2> HIDE DEF Defines
  <2> QED
    BY <1>10, <1>11
<1>13. Samples(c, n) = [i \in 1..n |-> NextKey(after[i - 1]).ts]
  BY <1>11 DEF Samples
<1>14. after[0] = c /\ \A k \in 1..n : after[k] = Taken(after[k - 1])
  <2>1. \A k \in 0..n : after[k] = IF k = 0 THEN c ELSE Taken(after[k - 1])
    BY <1>12
  <2>2. \A k \in 1..n : k \in 0..n /\ k # 0
    OBVIOUS
  <2> QED
    BY <2>1, <2>2
<1> HIDE DEF Defines
<1> DEFINE E == {k \in 0..n : after[k] = f[k]}
<1>15. 0 \in E /\ \A k \in 1..n : k - 1 \in E => k \in E
  BY <1>5, <1>9, <1>14 DEF Runs
<1>16. \A k \in 0..n : after[k] = f[k]
  <2>1. 0..n \subseteq E
    <3> HIDE DEF E
    <3> QED
      BY <1>15, PrefixInduction
  <2> QED
    BY <2>1
<1>17. ASSUME NEW i \in 1..n
       PROVE  /\ NextKey(after[i - 1]).ts \in Nat
              /\ \E e \in Listed(c) : NextKey(after[i - 1]).ts = e.ts
  <2>1. PICK d \in Arranged : d = after[i - 1] /\ Listed(d) # {} /\ Listed(d) \subseteq Listed(c)
    <3>1. i - 1 \in 0..n
      OBVIOUS
    <3> QED
      BY <1>8, <1>9, <1>16, <3>1 DEF Left
  <2>2. NextKey(d) \in Listed(d)
    BY <2>1, NextKeyIsEarliest
  <2>3. NextKey(d).ts \in Nat
    BY <2>2, DayOfEvent
  <2> QED
    BY <2>1, <2>2, <2>3
<1>18. ASSUME NEW i \in 1..n - 1
       PROVE  NextKey(after[i - 1]).ts <= NextKey(after[i]).ts
  <2>1. i \in 1..n /\ i + 1 \in 1..n /\ (i + 1) - 1 = i /\ i - 1 \in 0..n /\ i \in 0..n
    OBVIOUS
  <2>2. PICK d \in Arranged : d = after[i - 1] /\ Listed(d) # {}
    BY <1>9, <1>16, <2>1
  <2>3. PICK x \in Arranged : x = after[i] /\ Listed(x) # {}
    BY <1>9, <1>16, <2>1
  <2>4. x = Taken(d)
    BY <1>14, <2>1, <2>2, <2>3
  <2>5. Listed(x) = Listed(d) \ {NextKey(d)}
    BY <2>2, <2>4, TakenKeeps
  <2>6. NextKey(x) \in Listed(x)
    BY <2>3, NextKeyIsEarliest
  <2>7. Earlier(NextKey(d), NextKey(x)) /\ NextKey(d) \in Listed(d) /\ NextKey(x) \in Listed(d)
    BY <2>2, <2>5, <2>6, NextKeyIsEarliest
  <2>8. NextKey(d).ts \in Nat /\ NextKey(x).ts \in Nat
    BY <2>7, DayOfEvent
  <2> QED
    BY <2>2, <2>3, <2>7, <2>8 DEF Earlier
<1>19. \A i \in 1..n - 1 : Samples(c, n)[i] <= Samples(c, n)[i + 1]
  <2> TAKE i \in 1..n - 1
  <2>1. i \in 1..n /\ i + 1 \in 1..n /\ (i + 1) - 1 = i
    OBVIOUS
  <2>2. /\ Samples(c, n)[i] = NextKey(after[i - 1]).ts
        /\ Samples(c, n)[i + 1] = NextKey(after[(i + 1) - 1]).ts
    BY <1>13, <2>1
  <2> QED
    BY <1>18, <2>1, <2>2
<1> QED
  BY <1>13, <1>17, <1>19

\* Events of which three times the distance fits in the 32 bits of a width.
Close(K) == Modulus > 1 /\ \A k, l \in K : 3 * (l.ts - k.ts) < Modulus

\* The width is cut to 32 bits: it may be 0 then, but not for close events.
LEMMA WidthIsNumber ==
  ASSUME NEW c \in Arranged, IsFiniteSet(Listed(c)), c.qSize = Cardinality(Listed(c))
  PROVE  /\ CalculateNewWidth(c) \in Nat
         /\ Close(Listed(c)) => CalculateNewWidth(c) # 0
<1>1. PICK q \in Nat : q = c.qSize
  BY DEF Arranged, Calendars
<1>2. CASE q < 2
  BY <1>1, <1>2 DEF CalculateNewWidth
<1>3. CASE q >= 2
  <2>1. PICK n \in 2..q : n = NumSamples(q)
    BY <1>3 DEF NumSamples
  <2>2. n \in Nat /\ n <= Cardinality(Listed(c)) /\ 1 \in 1..n /\ n \in 1..n
    BY <1>1, <2>1
  <2>3. PICK ts \in [1..n -> Nat] :
          /\ ts = Samples(c, n)
          /\ \A i \in 1..n : \E e \in Listed(c) : ts[i] = e.ts
          /\ \A i \in 1..n - 1 : ts[i] <= ts[i + 1]
    BY <2>2, SamplesAreTimes
  <2>4. PICK m \in Nat : m = n - 1 /\ m + 1 = n
    BY <2>1
  <2>5. PICK distance : distance = [i \in 1..m |-> ts[i + 1] - ts[i]]
    OBVIOUS
  <2>6. \A i \in 1..m : distance[i] \in Int /\ 0 <= distance[i] /\ distance[i] = ts[i + 1] - ts[i]
    <3> TAKE i \in 1..m
    <3>1. i \in 1..n /\ i + 1 \in 1..n /\ i \in 1..n - 1
      BY <2>1, <2>4
    <3>2. ts[i] \in Nat /\ ts[i + 1] \in Nat /\ ts[i] <= ts[i + 1]
      BY <2>3, <3>1
    <3>3. distance[i] = ts[i + 1] - ts[i]
      BY <2>5
    <3> QED
      BY <3>2, <3>3
  <2>7. PICK twice : twice = (Total(distance) \div m) * 2
    OBVIOUS
  <2>8. PICK kept : kept = [i \in 1..m |-> IF distance[i] <= twice THEN distance[i] ELSE 0]
    OBVIOUS
  <2>9. \A i \in 1..m : kept[i] \in Int /\ 0 <= kept[i] /\ kept[i] <= ts[i + 1] - ts[i]
    BY <2>6, <2>8
  <2>10. kept \in [1..m -> Int]
    BY <2>8, <2>9
  <2>11. PICK near \in 0..ts[n] - ts[1] : near = Total(kept)
    <3>1. ts \in [1..m + 1 -> Nat]
      BY <2>3, <2>4
    <3>2. Total(kept) \in 0..ts[m + 1] - ts[1]
      BY <2>9, <2>10, <3>1, TotalIsBounded
    <3> QED
      BY <2>4, <3>2
  <2>12. CalculateNewWidth(c) = (IF near = 0 THEN 1 ELSE 3 * near) % Modulus
    <3>1. ~(c.qSize < 2) /\ NumSamples(c.qSize) = n /\ Samples(c, n) = ts /\ n - 1 = m
      BY <1>1, <1>3, <2>1, <2>3, <2>4
    <3>2. /\ distance = [i \in 1..n - 1 |-> ts[i + 1] - ts[i]]
          /\ kept = [i \in 1..n - 1 |-> IF distance[i] <= twice THEN distance[i] ELSE 0]
          /\ twice = (Total(distance) \div (n - 1)) * 2
      BY <2>5, <2>7, <2>8, <3>1
    <3> QED
      BY <2>11, <3>1, <3>2 DEF CalculateNewWidth
  <2>13. ts[1] \in Nat /\ ts[n] \in Nat
    BY <2>2, <2>3
  <2>14. PICK x \in Nat \ {0} : x = IF near = 0 THEN 1 ELSE 3 * near
    BY <2>11, <2>13
  <2>15. Modulus \in Nat \ {0}
    BY SchedulersAssumption DEF SchedulersAssumption
  <2>16. x % Modulus \in Nat
    BY <2>15
  <2>17. ASSUME Close(Listed(c)) PROVE x % Modulus # 0
    <3>1. Modulus > 1 /\ 3 * (ts[n] - ts[1]) < Modulus
      BY <2>2, <2>3, <2>17 DEF Close
    <3>2. x < Modulus
      BY <2>11, <2>13, <2>14, <2>15, <3>1
    <3>3. x % Modulus = x
      BY <2>15, <3>2
    <3> QED
      BY <3>3
  <2> QED
    BY <2>12, <2>14, <2>16, <2>17
<1> QED
  BY <1>1, <1>2, <1>3

----------------------------------------------------------------------------
(* The operations of a calendar.                                           *)

\* A calendar that counts its events.
Counted == {c \in Arranged : IsFiniteSet(Listed(c)) /\ c.qSize = Cardinality(Listed(c))}

\* Nothing but the count depends on the count.
LEMMA CountChanged ==
  ASSUME NEW c \in Arranged, NEW q \in Nat
  PROVE  /\ [c EXCEPT !.qSize = q] \in Arranged
         /\ Listed([c EXCEPT !.qSize = q]) = Listed(c)
         /\ [c EXCEPT !.qSize = q].lastPrio = c.lastPrio
         /\ [c EXCEPT !.qSize = q].qSize = q
         /\ NumBuckets([c EXCEPT !.qSize = q]) = NumBuckets(c)
<1>1. c \in Calendars /\ Filed(c) /\ Standing(c)
  BY DEF Arranged
<1>2. PICK d \in Calendars : d = [c EXCEPT !.qSize = q]
  BY <1>1 DEF Calendars
<1>3. /\ d.buckets = c.buckets /\ d.width = c.width /\ d.lastPrio = c.lastPrio
      /\ d.lastBucket = c.lastBucket /\ d.bucketTop = c.bucketTop /\ d.qSize = q
  BY <1>1, <1>2 DEF Calendars
<1>4. NumBuckets(d) = NumBuckets(c) /\ \A ts : Hash(d, ts) = Hash(c, ts)
  BY <1>3 DEF Hash, NumBuckets
<1>5. Filed(d) /\ Standing(d) /\ Listed(d) = Listed(c)
  BY <1>1, <1>3, <1>4 DEF Filed, Standing, Listed
<1> QED
  BY <1>2, <1>3, <1>4, <1>5 DEF Arranged

\* A resize to a width that is not 0 files every event again, and changes no
\* other; close events give such a width, here and in what follows.
LEMMA ResizeKeeps ==
  ASSUME NEW c \in Counted, NEW n \in Nat \ {0},
         Resize(c, n).width # 0 \/ Close(Listed(c))
  PROVE  /\ Resize(c, n) \in Arranged
         /\ Listed(Resize(c, n)) = Listed(c)
         /\ Resize(c, n).lastPrio = c.lastPrio /\ Resize(c, n).qSize = c.qSize
<1>1. c \in Arranged /\ c \in Calendars /\ IsFiniteSet(Listed(c)) /\ c.qSize = Cardinality(Listed(c))
  BY DEF Counted, Arranged
<1>2. PICK w \in Nat : w = CalculateNewWidth(c)
  BY <1>1, WidthIsNumber
<1>3. PICK p \in Nat : p = c.lastPrio
  BY <1>1 DEF Calendars
<1>4. PICK new : new = Emptied(n, w, p)
  OBVIOUS
<1> DEFINE keys(b) == {k \in Listed(c) : Hash(new, k.ts) = b}
<1>5. PICK filed : filed = [b \in 0..n - 1 |-> Sorted(keys(b))]
  OBVIOUS
<1>6. PICK d : d = Resize(c, n)
  OBVIOUS
<1>7. /\ new.width = w /\ new.lastPrio = p /\ DOMAIN new.buckets = 0..n - 1
      /\ new.lastBucket = (p \div w) % n /\ new.bucketTop = (p \div w + 1) * w
  BY <1>4 DEF Emptied
<1>8. d = [buckets |-> filed, width |-> w, lastPrio |-> p, lastBucket |-> (p \div w) % n,
           bucketTop |-> (p \div w + 1) * w, qSize |-> c.qSize]
  BY <1>2, <1>3, <1>4, <1>5, <1>6 DEF Resize, Emptied
<1>9. w \in Nat \ {0}
  BY <1>1, <1>2, <1>6, <1>8, WidthIsNumber
<1>10. \A b \in 0..n - 1 : /\ filed[b] \in Seq(Key) /\ Ordered(filed[b])
                           /\ ToSet(filed[b]) = keys(b)
  <2> TAKE b \in 0..n - 1
  <2>1. keys(b) \in SUBSET Key /\ keys(b) \in SUBSET Listed(c)
    BY <1>1, ListedMeans
  <2> HIDE DEF keys
  <2>2. IsFiniteSet(keys(b))
    BY <1>1, <2>1, FS_Subset
  <2> QED
    BY <1>5, <2>1, <2>2, SortedLists
<1>11. d \in Calendars
  <2>1. filed \in [0..n - 1 -> Seq(Key)]
    BY <1>5, <1>10
  <2>2. p \div w \in Nat
    BY <1>9, DivBounds
  <2>3. (p \div w) % n \in Nat
    BY <2>2, ModRange
  <2>4. (p \div w + 1) * w \in Nat
    BY <2>2, <1>9
  <2>5. filed \in UNION {[0..m - 1 -> Seq(Key)] : m \in Nat \ {0}}
    BY <2>1
  <2>6. c.qSize \in Nat
    BY <1>1 DEF Calendars
  <2> HIDE DEF keys
  <2> QED
    BY <1>8, <1>9, <2>3, <2>4, <2>5, <2>6 DEF Calendars
<1>12. /\ d.buckets = filed /\ d.width = w /\ d.lastPrio = p /\ DOMAIN filed = 0..n - 1
       /\ d.lastBucket = (p \div w) % n /\ d.bucketTop = (p \div w + 1) * w /\ d.qSize = c.qSize
  BY <1>5, <1>8
<1>13. NumBuckets(d) = n
  <2>1. 0 \in Int /\ n - 1 \in Int
    OBVIOUS
  <2>2. Cardinality(0..n - 1) = n
    BY <2>1, FS_Interval
  <2> QED
    BY <1>12, <2>2 DEF NumBuckets
<1>14. \A ts : Hash(d, ts) = Hash(new, ts)
  BY <1>7, <1>12 DEF Hash, NumBuckets
<1>15. Standing(d)
  BY <1>12, <1>13 DEF Standing, Hash
<1>16. \A k \in Listed(c) : k.ts >= p /\ k \in Key
  BY <1>1, <1>3, BucketOf, ListedMeans
<1>17. Filed(d)
  BY <1>10, <1>12, <1>14, <1>16 DEF Filed
<1>18. Listed(d) = Listed(c)
  <2>1. \A e : e \in Listed(d) <=> \E b \in 0..n - 1 : e \in keys(b)
    <3> HIDE DEF keys
    <3>1. \A e : e \in Listed(d) <=> \E b \in DOMAIN d.buckets : e \in ToSet(d.buckets[b])
      BY <1>11, ListedMeans
    <3>2. \A e : e \in Listed(d) <=> \E b \in 0..n - 1 : e \in ToSet(filed[b])
      BY <1>12, <3>1
    <3> QED
      BY <1>10, <3>2
  <2>2. ASSUME NEW e \in Listed(c) PROVE Hash(new, e.ts) \in 0..n - 1
    <3>1. e.ts \in Nat
      BY <1>16 DEF Key
    <3> QED
      BY <1>11, <1>12, <1>14, <3>1, CalendarShape
  <2> QED
    BY <2>1, <2>2
<1> QED
  BY <1>3, <1>6, <1>11, <1>12, <1>15, <1>17, <1>18 DEF Arranged

\* Insert, RemoveNext and Remove resize at most once, in the end.
LEMMA GrownKeeps ==
  ASSUME NEW c \in Counted, Grown(c).width # 0 \/ Close(Listed(c))
  PROVE  Grown(c) \in Counted /\ Listed(Grown(c)) = Listed(c) /\ Grown(c).lastPrio = c.lastPrio
<1>1. NumBuckets(c) \in Nat \ {0}
  BY CalendarShape DEF Counted, Arranged
<1>2. PICK n \in Nat \ {0} : n = NumBuckets(c) * 2
  BY <1>1
<1>3. CASE c.qSize > NumBuckets(c) * 2 /\ NumBuckets(c) < MaxBuckets
  <2>1. Grown(c) = Resize(c, n)
    BY <1>2, <1>3 DEF Grown
  <2> QED
    BY <2>1, ResizeKeeps DEF Counted
<1>4. CASE ~(c.qSize > NumBuckets(c) * 2 /\ NumBuckets(c) < MaxBuckets)
  BY <1>4 DEF Grown
<1> QED
  BY <1>3, <1>4

LEMMA ShrunkKeeps ==
  ASSUME NEW c \in Counted, Shrunk(c).width # 0 \/ Close(Listed(c))
  PROVE  Shrunk(c) \in Counted /\ Listed(Shrunk(c)) = Listed(c) /\ Shrunk(c).lastPrio = c.lastPrio
<1>1. NumBuckets(c) \in Nat \ {0} /\ c.qSize \in Nat
  BY CalendarShape DEF Counted, Arranged, Calendars
<1>2. CASE c.qSize < NumBuckets(c) \div 2
  <2>1. PICK n \in Nat \ {0} : n = NumBuckets(c) \div 2
    BY <1>1, <1>2
  <2>2. Shrunk(c) = Resize(c, n)
    BY <1>2, <2>1 DEF Shrunk
  <2> QED
    BY <2>2, ResizeKeeps DEF Counted
<1>3. CASE ~(c.qSize < NumBuckets(c) \div 2)
  BY <1>3 DEF Shrunk
<1> QED
  BY <1>2, <1>3

LEMMA CalendarInsertKeeps ==
  ASSUME NEW c \in Counted, NEW e \in Key, e \notin Listed(c), e.ts >= c.lastPrio,
         CalendarInsert(c, e).width # 0 \/ Close(Listed(c) \cup {e})
  PROVE  /\ CalendarInsert(c, e) \in Counted
         /\ Listed(CalendarInsert(c, e)) = Listed(c) \cup {e}
         /\ CalendarInsert(c, e).lastPrio = c.lastPrio
<1>1. c \in Arranged /\ IsFiniteSet(Listed(c)) /\ c.qSize = Cardinality(Listed(c)) /\ c.qSize \in Nat
  BY DEF Counted, Arranged, Calendars
<1>2. PICK d \in Arranged : /\ d = DoInsert(c, e) /\ Listed(d) = Listed(c) \cup {e}
                            /\ d.lastPrio = c.lastPrio /\ d.qSize = c.qSize
  BY <1>1, DoInsertKeeps
<1>3. PICK x : x = [d EXCEPT !.qSize = d.qSize + 1]
  OBVIOUS
<1>4. /\ x \in Arranged /\ Listed(x) = Listed(c) \cup {e} /\ x.lastPrio = c.lastPrio
      /\ x.qSize = c.qSize + 1
  <2>1. d.qSize + 1 \in Nat
    BY <1>1, <1>2
  <2> QED
    BY <1>2, <1>3, <2>1, CountChanged
<1>5. IsFiniteSet(Listed(c) \cup {e}) /\ Cardinality(Listed(c) \cup {e}) = Cardinality(Listed(c)) + 1
  BY <1>1, FS_AddElement
<1>6. x \in Counted
  BY <1>1, <1>4, <1>5 DEF Counted
<1>7. CalendarInsert(c, e) = Grown(x)
  BY <1>2, <1>3 DEF CalendarInsert
<1> QED
  BY <1>4, <1>6, <1>7, GrownKeeps

LEMMA CalendarRemoveNextKeeps ==
  ASSUME NEW c \in Counted, Listed(c) # {},
         CalendarRemoveNext(c).width # 0 \/ Close(Listed(c) \ {NextKey(c)})
  PROVE  /\ CalendarRemoveNext(c) \in Counted
         /\ Listed(CalendarRemoveNext(c)) = Listed(c) \ {NextKey(c)}
         /\ CalendarRemoveNext(c).lastPrio = NextKey(c).ts
<1>1. c \in Arranged /\ IsFiniteSet(Listed(c)) /\ c.qSize = Cardinality(Listed(c)) /\ c.qSize \in Nat
  BY DEF Counted, Arranged, Calendars
<1>2. PICK k \in Listed(c) : k = NextKey(c)
  BY <1>1, NextKeyIsEarliest
<1>3. PICK d \in Arranged : /\ d = Taken(c) /\ Listed(d) = Listed(c) \ {k}
                            /\ d.lastPrio = k.ts /\ d.qSize = c.qSize
  BY <1>1, <1>2, TakenKeeps
<1>4. /\ IsFiniteSet(Listed(c) \ {k}) /\ Cardinality(Listed(c) \ {k}) = Cardinality(Listed(c)) - 1
      /\ Cardinality(Listed(c) \ {k}) \in Nat
  BY <1>1, FS_RemoveElement, FS_CardinalityType
<1>5. PICK x : x = [d EXCEPT !.qSize = d.qSize - 1]
  OBVIOUS
<1>6. /\ x \in Arranged /\ Listed(x) = Listed(c) \ {k} /\ x.lastPrio = k.ts
      /\ x.qSize = c.qSize - 1
  <2>1. d.qSize - 1 \in Nat
    BY <1>1, <1>3, <1>4
  <2> QED
    BY <1>3, <1>5, <2>1, CountChanged
<1>7. x \in Counted
  BY <1>1, <1>4, <1>6 DEF Counted
<1>8. CalendarRemoveNext(c) = Shrunk(x)
  BY <1>3, <1>5 DEF CalendarRemoveNext
<1> QED
  BY <1>2, <1>6, <1>7, <1>8, ShrunkKeeps

LEMMA CalendarRemoveKeeps ==
  ASSUME NEW c \in Counted, UniqueUids(Listed(c)), NEW e \in Listed(c),
         CalendarRemove(c, e).width # 0 \/ Close(Listed(c) \ {e})
  PROVE  /\ CalendarRemove(c, e) \in Counted
         /\ Listed(CalendarRemove(c, e)) = Listed(c) \ {e}
         /\ CalendarRemove(c, e).lastPrio = c.lastPrio
<1>1. /\ c \in Arranged /\ c \in Calendars /\ IsFiniteSet(Listed(c))
      /\ c.qSize = Cardinality(Listed(c)) /\ c.qSize \in Nat
  BY DEF Counted, Arranged, Calendars
<1>2. e \in Key
  BY <1>1, ListedMeans
<1>3. PICK b \in DOMAIN c.buckets : b = Hash(c, e.ts)
  BY <1>1, <1>2, BucketOf
<1>4. /\ c.buckets[b] \in Seq(Key) /\ Ordered(c.buckets[b]) /\ e \in ToSet(c.buckets[b])
      /\ ToSet(c.buckets[b]) \subseteq Listed(c)
      /\ \A k \in ToSet(c.buckets[b]) : Hash(c, k.ts) = b
  BY <1>1, <1>2, <1>3, BucketOf, ListedMeans DEF Arranged, Filed
<1>5. UniqueUids(ToSet(c.buckets[b]))
  BY <1>4 DEF UniqueUids
<1>6. PICK t \in Seq(Key) : /\ t = RemoveAt(c.buckets[b], Position(c.buckets[b], e))
                            /\ Ordered(t) /\ ToSet(t) = ToSet(c.buckets[b]) \ {e}
  BY <1>4, <1>5, RemovedIsSorted
<1>7. /\ IsFiniteSet(Listed(c) \ {e}) /\ Cardinality(Listed(c) \ {e}) = Cardinality(Listed(c)) - 1
      /\ Cardinality(Listed(c) \ {e}) \in Nat
  BY <1>1, FS_RemoveElement, FS_CardinalityType
<1>8. PICK d : d = [c EXCEPT !.qSize = c.qSize - 1, !.buckets = [c.buckets EXCEPT ![b] = t]]
  OBVIOUS
<1>9. /\ d \in [buckets : {[c.buckets EXCEPT ![b] = t]}, width : {c.width},
                lastPrio : Nat, lastBucket : Nat, bucketTop : Nat, qSize : Nat]
      /\ d.lastPrio = c.lastPrio /\ d.lastBucket = c.lastBucket
      /\ d.bucketTop = c.bucketTop /\ d.qSize = c.qSize - 1 /\ d.width = c.width
  <2>1. c.qSize - 1 \in Nat
    BY <1>1, <1>7
  <2> QED
    BY <1>1, <1>8, <2>1 DEF Calendars
<1>10. \A k \in ToSet(t) : Hash(c, k.ts) = b
  BY <1>4, <1>6
<1>11. (Listed(c) \ ToSet(c.buckets[b])) \cup ToSet(t) = Listed(c) \ {e}
  BY <1>4, <1>6
<1>12. \A k \in Listed(c) \ {e} : k.ts >= d.lastPrio
  BY <1>1, <1>9, BucketOf, ListedMeans
<1>13. /\ d \in Calendars /\ Filed(d) /\ \A ts : Hash(d, ts) = Hash(c, ts)
       /\ Listed(d) = Listed(c) \ {e}
  BY <1>1, <1>6, <1>9, <1>10, <1>11, <1>12, BucketReplaced
<1>14. Standing(d)
  BY <1>1, <1>9, <1>13 DEF Arranged, Standing
<1>15. d \in Counted
  BY <1>1, <1>7, <1>9, <1>13, <1>14 DEF Counted, Arranged
<1>16. CalendarRemove(c, e) = Shrunk(d)
  BY <1>1, <1>3, <1>6, <1>8 DEF CalendarRemove
<1> QED
  BY <1>9, <1>13, <1>15, <1>16, ShrunkKeeps

----------------------------------------------------------------------------
(* The interface of Scheduler, for the three of them together.             *)

AllKinds == {"list", "heap", "calendar"}

\* A scheduler of kind k keeps its structure, and gives each event one uid.
Sound(k, s) ==
  /\ k = "list" => s \in Seq(Key) /\ Ordered(s)
  /\ k = "heap" => s \in Seq(Key) /\ Injective(s) /\ IsHeap(s)
  /\ k = "calendar" => s \in Counted
  /\ IsFiniteSet(Contents(k, s)) /\ UniqueUids(Contents(k, s))

\* What only a calendar has: the time no event is to be earlier than, and the
\* width of a day.
LastPrio(k, s) == IF k = "calendar" THEN s.lastPrio ELSE 0
Width(k, s) == IF k = "calendar" THEN s.width ELSE 1

LEMMA ContentsAreKeys ==
  ASSUME NEW k \in AllKinds, NEW s, Sound(k, s)
  PROVE  /\ Contents(k, s) \subseteq Key
         /\ LastPrio(k, s) \in Nat
         /\ \A e \in Contents(k, s) : e.ts >= LastPrio(k, s)
<1>1. CASE k = "calendar"
  <2>1. s \in Arranged /\ s \in Calendars /\ Contents(k, s) = Listed(s) /\ LastPrio(k, s) = s.lastPrio
    BY <1>1 DEF Sound, Counted, Arranged, Contents, LastPrio
  <2> QED
    BY <2>1, ListedMeans, BucketOf DEF Calendars
<1>2. CASE k # "calendar"
  <2>1. s \in Seq(Key) /\ Contents(k, s) = ToSet(s) /\ LastPrio(k, s) = 0
    BY <1>2 DEF Sound, Contents, LastPrio, AllKinds
  <2>2. ToSet(s) \subseteq Key
    BY <2>1, InSequence
  <2>3. \A e \in ToSet(s) : e.ts \in Nat
    BY <2>2 DEF Key
  <2> QED
    BY <2>1, <2>2, <2>3
<1> QED
  BY <1>1, <1>2

LEMMA SoundIsWide ==
  ASSUME NEW k, NEW s, Sound(k, s)
  PROVE  Width(k, s) # 0
BY DEF Sound, Width, Counted, Arranged, Calendars

\* A heap and its events as an array of them.
LEMMA HeapIsArray ==
  ASSUME NEW s \in Seq(Key), Injective(s)
  PROVE  s \in Arrays(ToSet(s), Len(s)) /\ Len(s) \in Nat
BY DEF Arrays

LEMMA ArrayIsHeap ==
  ASSUME NEW A, NEW n \in Nat, NEW h \in Arrays(A, n)
  PROVE  h \in Seq(Key) /\ Injective(h) /\ ToSet(h) = A
BY DEF Arrays

LEMMA EmptySound ==
  ASSUME NEW k \in AllKinds
  PROVE  Sound(k, Empty(k)) /\ Contents(k, Empty(k)) = {} /\ LastPrio(k, Empty(k)) = 0
<1>1. IsFiniteSet({}) /\ Cardinality({}) = 0 /\ UniqueUids({})
  BY FS_EmptySet DEF UniqueUids
<1>2. CASE k = "calendar"
  <2>1. PICK c : c = Emptied(2, 1, 0)
    OBVIOUS
  <2>2. PICK buckets \in [0..1 -> Seq(Key)] : buckets = [b \in 0..1 |-> <<>>]
    <3>1. <<>> \in Seq(Key)
      OBVIOUS
    <3>2. [b \in 0..1 |-> <<>>] \in [0..1 -> Seq(Key)]
      BY <3>1
    <3> QED
      BY <3>2
  <2>3. 0 \div 1 = 0 /\ 0 % 2 = 0 /\ 2 - 1 = 1
    OBVIOUS
  <2>4. c = [buckets |-> buckets, width |-> 1, lastPrio |-> 0, lastBucket |-> 0,
             bucketTop |-> 1, qSize |-> 0]
    BY <2>1, <2>2, <2>3 DEF Emptied
  <2>5. c \in Calendars
    <3>1. buckets \in UNION {[0..m - 1 -> Seq(Key)] : m \in Nat \ {0}}
      <4>1. buckets \in [0..2 - 1 -> Seq(Key)] /\ 2 \in Nat \ {0}
        BY <2>2, <2>3
      <4> QED
        BY <4>1
    <3>2. 1 \in Nat \ {0} /\ 0 \in Nat /\ 1 \in Nat
      OBVIOUS
    <3> QED
      BY <2>4, <3>1, <3>2 DEF Calendars
  <2>6. /\ c.buckets = buckets /\ c.width = 1 /\ c.lastPrio = 0 /\ c.lastBucket = 0
        /\ c.bucketTop = 1 /\ c.qSize = 0 /\ DOMAIN buckets = 0..1
        /\ \A b \in 0..1 : buckets[b] = <<>>
    BY <2>2, <2>4
  <2>7. NumBuckets(c) = 2
    <3>1. PICK a \in Int, b \in Int : a = 0 /\ b = 1
      OBVIOUS
    <3>2. Cardinality(a..b) = IF a > b THEN 0 ELSE b - a + 1
      BY <3>1, FS_Interval
    <3>3. Cardinality(a..b) = 2
      BY <3>1, <3>2
    <3> QED
      BY <2>6, <3>1, <3>3 DEF NumBuckets
  <2>8. Standing(c)
    BY <2>3, <2>6, <2>7 DEF Standing, Hash
  <2>9. ToSet(<<>>) = {} /\ Ordered(<<>>)
    BY DEF ToSet, Ordered
  <2>10. Filed(c)
    BY <2>6, <2>9 DEF Filed
  <2>11. Listed(c) = {}
    BY <2>5, <2>6, <2>9, ListedMeans
  <2>12. c \in Counted
    BY <1>1, <2>5, <2>6, <2>8, <2>10, <2>11 DEF Counted, Arranged
  <2> QED
    BY <1>1, <1>2, <2>1, <2>6, <2>11, <2>12 DEF Sound, Contents, Empty, LastPrio
<1>3. CASE k # "calendar"
  <2>1. PICK s : s = <<>>
    OBVIOUS
  <2>2. s \in Seq(Key) /\ Ordered(s) /\ Injective(s) /\ IsHeap(s) /\ ToSet(s) = {}
    BY <2>1 DEF Ordered, Injective, IsHeap, ToSet
  <2> QED
    BY <1>1, <1>3, <2>1, <2>2 DEF Sound, Contents, Empty, LastPrio
<1> QED
  BY <1>2, <1>3

\* Insert adds the event and nothing else.
LEMMA WithEventSound ==
  ASSUME NEW k \in AllKinds, NEW s, Sound(k, s),
         NEW e \in Key, \A l \in Contents(k, s) : l.uid # e.uid, e.ts >= LastPrio(k, s),
         Width(k, WithEvent(k, s, e)) # 0 \/ Close(Contents(k, s) \cup {e})
  PROVE  /\ Sound(k, WithEvent(k, s, e))
         /\ Contents(k, WithEvent(k, s, e)) = Contents(k, s) \cup {e}
         /\ LastPrio(k, WithEvent(k, s, e)) = LastPrio(k, s)
<1>1. e \notin Contents(k, s)
  OBVIOUS
<1>2. PICK A : A = Contents(k, s) \cup {e}
  OBVIOUS
<1>3. IsFiniteSet(A) /\ UniqueUids(A)
  <2>1. IsFiniteSet(Contents(k, s)) /\ UniqueUids(Contents(k, s))
    BY DEF Sound
  <2>2. IsFiniteSet(A)
    BY <1>2, <2>1, FS_AddElement
  <2>3. UniqueUids(A)
    BY <1>2, <2>1 DEF UniqueUids
  <2> QED
    BY <2>2, <2>3
<1>4. PICK t : t = WithEvent(k, s, e)
  OBVIOUS
<1>5. CASE k = "list"
  <2>1. s \in Seq(Key) /\ Ordered(s) /\ Contents(k, s) = ToSet(s) /\ t = Inserted(s, e)
    BY <1>4, <1>5 DEF Sound, Contents, WithEvent
  <2>2. t \in Seq(Key) /\ Ordered(t) /\ ToSet(t) = A
    BY <1>1, <1>2, <2>1, InsertedIsSorted
  <2> QED
    BY <1>2, <1>3, <1>4, <1>5, <2>2 DEF Sound, Contents, LastPrio
<1>6. CASE k = "heap"
  <2>1. s \in Seq(Key) /\ Injective(s) /\ IsHeap(s) /\ Contents(k, s) = ToSet(s)
        /\ t = HeapInsert(s, e)
    BY <1>4, <1>6 DEF Sound, Contents, WithEvent
  <2>2. PICK n \in Nat : n = Len(s) /\ s \in Arrays(ToSet(s), n)
    BY <2>1, HeapIsArray
  <2>3. t \in Arrays(A, n + 1) /\ IsHeap(t)
    BY <1>1, <1>2, <2>1, <2>2, HeapInsertKeeps
  <2>4. t \in Seq(Key) /\ Injective(t) /\ ToSet(t) = A
    <3>1. n + 1 \in Nat
      OBVIOUS
    <3> QED
      BY <2>3, <3>1, ArrayIsHeap
  <2> QED
    BY <1>2, <1>3, <1>4, <1>6, <2>3, <2>4 DEF Sound, Contents, LastPrio
<1>7. CASE k = "calendar"
  <2>1. /\ s \in Counted /\ Contents(k, s) = Listed(s) /\ LastPrio(k, s) = s.lastPrio
        /\ t = CalendarInsert(s, e) /\ Width(k, t) = t.width
    BY <1>4, <1>7 DEF Sound, Contents, WithEvent, LastPrio, Width
  <2>2. t \in Counted /\ Listed(t) = A /\ t.lastPrio = s.lastPrio
    BY <1>1, <1>2, <1>4, <2>1, CalendarInsertKeeps
  <2> QED
    BY <1>2, <1>3, <1>4, <1>7, <2>1, <2>2 DEF Sound, Contents, LastPrio
<1> QED
  BY <1>5, <1>6, <1>7 DEF AllKinds

\* PeekNext is the earliest event.
LEMMA NextEventIsEarliest ==
  ASSUME NEW k \in AllKinds, NEW s, Sound(k, s), Contents(k, s) # {}
  PROVE  /\ NextEvent(k, s) \in Contents(k, s)
         /\ \A e \in Contents(k, s) : e = NextEvent(k, s) \/ Earlier(NextEvent(k, s), e)
<1>1. CASE k = "list"
  <2>1. s \in Seq(Key) /\ Ordered(s) /\ Contents(k, s) = ToSet(s) /\ NextEvent(k, s) = Head(s)
    BY <1>1 DEF Sound, Contents, NextEvent
  <2>2. s # <<>>
    BY <2>1, InSequence
  <2> QED
    BY <2>1, <2>2, HeadIsEarliest
<1>2. CASE k = "heap"
  <2>1. s \in Seq(Key) /\ Injective(s) /\ IsHeap(s) /\ Contents(k, s) = ToSet(s)
        /\ NextEvent(k, s) = Head(s)
    BY <1>2 DEF Sound, Contents, NextEvent
  <2>2. s # <<>>
    BY <2>1, InSequence
  <2>3. PICK n \in Nat : n = Len(s) /\ s \in Arrays(ToSet(s), n)
    BY <2>1, HeapIsArray
  <2>4. n # 0 /\ Head(s) = s[1]
    BY <2>1, <2>2, <2>3
  <2> QED
    BY <2>1, <2>3, <2>4, RootIsEarliest
<1>3. CASE k = "calendar"
  <2>1. s \in Arranged /\ Contents(k, s) = Listed(s) /\ NextEvent(k, s) = NextKey(s)
    BY <1>3 DEF Sound, Counted, Contents, NextEvent
  <2> QED
    BY <2>1, NextKeyIsEarliest
<1> QED
  BY <1>1, <1>2, <1>3 DEF AllKinds

\* RemoveNext takes it away and nothing else.
LEMMA WithoutNextSound ==
  ASSUME NEW k \in AllKinds, NEW s, Sound(k, s), Contents(k, s) # {},
         \/ Width(k, WithoutNext(k, s)) # 0
         \/ Close(Contents(k, s) \ {NextEvent(k, s)})
  PROVE  /\ Sound(k, WithoutNext(k, s))
         /\ Contents(k, WithoutNext(k, s)) = Contents(k, s) \ {NextEvent(k, s)}
         /\ LastPrio(k, WithoutNext(k, s)) <= NextEvent(k, s).ts
<1>1. PICK f \in Contents(k, s) : f = NextEvent(k, s)
  BY NextEventIsEarliest
<1>2. PICK A : A = Contents(k, s) \ {f}
  OBVIOUS
<1>3. IsFiniteSet(A) /\ UniqueUids(A)
  <2>1. IsFiniteSet(Contents(k, s)) /\ UniqueUids(Contents(k, s))
    BY DEF Sound
  <2>2. IsFiniteSet(A)
    BY <1>2, <2>1, FS_RemoveElement
  <2>3. UniqueUids(A)
    BY <1>2, <2>1 DEF UniqueUids
  <2> QED
    BY <2>2, <2>3
<1>4. PICK t : t = WithoutNext(k, s)
  OBVIOUS
<1>5. f.ts \in Nat
  BY ContentsAreKeys DEF Key
<1>6. CASE k = "list"
  <2>1. /\ s \in Seq(Key) /\ Ordered(s) /\ Contents(k, s) = ToSet(s) /\ t = Tail(s)
        /\ f = Head(s)
    BY <1>1, <1>4, <1>6 DEF Sound, Contents, WithoutNext, NextEvent
  <2>2. s # <<>>
    BY <2>1, InSequence
  <2>3. t \in Seq(Key) /\ Ordered(t) /\ ToSet(t) = A
    BY <1>2, <2>1, <2>2, HeadIsEarliest
  <2>7. Sound(k, t) /\ Contents(k, t) = A
    BY <1>3, <1>6, <2>3 DEF Sound, Contents
  <2>8. LastPrio(k, t) <= f.ts
    BY <1>5, <1>6, <2>3 DEF LastPrio
  <2> QED
    BY <1>1, <1>2, <1>4, <2>7, <2>8
<1>7. CASE k = "heap"
  <2>1. s \in Seq(Key) /\ Injective(s) /\ IsHeap(s) /\ Contents(k, s) = ToSet(s)
        /\ t = HeapWithout(s, 1) /\ f = Head(s)
    BY <1>1, <1>4, <1>7 DEF Sound, Contents, WithoutNext, NextEvent
  <2>2. s # <<>>
    BY <2>1, InSequence
  <2>3. PICK n \in Nat \ {0} : n = Len(s) /\ s \in Arrays(ToSet(s), n)
    BY <2>1, <2>2, HeapIsArray
  <2>4. f = s[1] /\ 1 \in 1..n /\ n - 1 \in Nat
    BY <2>1, <2>2, <2>3
  <2>5. t \in Arrays(A, n - 1) /\ IsHeap(t)
    BY <1>2, <2>1, <2>3, <2>4, HeapWithoutKeeps
  <2>6. t \in Seq(Key) /\ Injective(t) /\ ToSet(t) = A
    BY <2>4, <2>5, ArrayIsHeap
  <2>7. Sound(k, t) /\ Contents(k, t) = A
    BY <1>3, <1>7, <2>5, <2>6 DEF Sound, Contents
  <2>8. LastPrio(k, t) <= f.ts
    BY <1>5, <1>7, <2>5, <2>6 DEF LastPrio
  <2> QED
    BY <1>1, <1>2, <1>4, <2>7, <2>8
<1>8. CASE k = "calendar"
  <2>1. /\ s \in Counted /\ Contents(k, s) = Listed(s) /\ f = NextKey(s)
        /\ t = CalendarRemoveNext(s) /\ Width(k, t) = t.width
    BY <1>1, <1>4, <1>8 DEF Sound, Contents, WithoutNext, NextEvent, Width
  <2>2. t \in Counted /\ Listed(t) = A /\ t.lastPrio = f.ts
    <3>1. t.width # 0 \/ Close(Listed(s) \ {f})
      BY <1>1, <1>4, <2>1
    <3>2. Listed(s) # {}
      BY <2>1
    <3> QED
      BY <1>2, <2>1, <3>1, <3>2, CalendarRemoveNextKeeps
  <2>7. Sound(k, t) /\ Contents(k, t) = A
    BY <1>3, <1>8, <2>2 DEF Sound, Contents
  <2>8. LastPrio(k, t) <= f.ts
    BY <1>5, <1>8, <2>2 DEF LastPrio
  <2> QED
    BY <1>1, <1>2, <1>4, <2>7, <2>8
<1> QED
  BY <1>6, <1>7, <1>8 DEF AllKinds

\* Remove takes its event away and nothing else; of a heap, as long as that is
\* small.
LEMMA WithoutEventSound ==
  ASSUME NEW k \in AllKinds, NEW s, Sound(k, s), NEW e \in Contents(k, s),
         k = "heap" => Cardinality(Contents(k, s)) <= 5,
         Width(k, WithoutEvent(k, s, e)) # 0 \/ Close(Contents(k, s) \ {e})
  PROVE  /\ Sound(k, WithoutEvent(k, s, e))
         /\ Contents(k, WithoutEvent(k, s, e)) = Contents(k, s) \ {e}
         /\ LastPrio(k, WithoutEvent(k, s, e)) = LastPrio(k, s)
<1>1. PICK A : A = Contents(k, s) \ {e}
  OBVIOUS
<1>2. IsFiniteSet(Contents(k, s)) /\ UniqueUids(Contents(k, s))
  BY DEF Sound
<1>3. IsFiniteSet(A) /\ UniqueUids(A)
  <2>1. IsFiniteSet(A)
    BY <1>1, <1>2, FS_RemoveElement
  <2>2. UniqueUids(A)
    BY <1>1, <1>2 DEF UniqueUids
  <2> QED
    BY <2>1, <2>2
<1>4. PICK t : t = WithoutEvent(k, s, e)
  OBVIOUS
<1>5. CASE k = "list"
  <2>1. /\ s \in Seq(Key) /\ Ordered(s) /\ Contents(k, s) = ToSet(s)
        /\ t = RemoveAt(s, Position(s, e))
    BY <1>4, <1>5 DEF Sound, Contents, WithoutEvent
  <2>2. t \in Seq(Key) /\ Ordered(t) /\ ToSet(t) = A
    BY <1>1, <1>2, <2>1, RemovedIsSorted
  <2> QED
    BY <1>1, <1>3, <1>4, <1>5, <2>2 DEF Sound, Contents, LastPrio
<1>6. CASE k = "heap"
  <2>1. s \in Seq(Key) /\ Injective(s) /\ IsHeap(s) /\ Contents(k, s) = ToSet(s)
        /\ t = HeapWithout(s, Position(s, e))
    BY <1>4, <1>6 DEF Sound, Contents, WithoutEvent
  <2>2. PICK i \in 1..Len(s) : i = Position(s, e) /\ s[i] = e
    BY <1>2, <2>1, PositionFound
  <2>3. PICK n \in Nat \ {0} : n = Len(s) /\ s \in Arrays(ToSet(s), n) /\ i \in 1..n
    BY <2>1, <2>2, HeapIsArray
  <2>4. n <= 5
    <3>1. s \in Injection(1..n, ToSet(s))
      BY <2>1, <2>3, ArrayProperties DEF Injective, Injection, IsInjective
    <3>2. Cardinality(1..n) <= Cardinality(ToSet(s))
      BY <1>2, <2>1, <3>1, FS_Injection
    <3>3. Cardinality(1..n) = n
      <4>1. 1 \in Int /\ n \in Int
        OBVIOUS
      <4> QED
        BY <4>1, FS_Interval
    <3>4. Cardinality(ToSet(s)) \in Nat /\ Cardinality(ToSet(s)) <= 5
      BY <1>2, <1>6, <2>1, FS_CardinalityType
    <3> QED
      BY <3>2, <3>3, <3>4
  <2>5. t \in Arrays(A, n - 1) /\ IsHeap(t)
    BY <1>1, <2>1, <2>2, <2>3, <2>4, HeapWithoutKeeps
  <2>6. t \in Seq(Key) /\ Injective(t) /\ ToSet(t) = A
    <3>1. n - 1 \in Nat
      BY <2>3
    <3> QED
      BY <2>5, <3>1, ArrayIsHeap
  <2> QED
    BY <1>1, <1>3, <1>4, <1>6, <2>5, <2>6 DEF Sound, Contents, LastPrio
<1>7. CASE k = "calendar"
  <2>1. /\ s \in Counted /\ Contents(k, s) = Listed(s) /\ LastPrio(k, s) = s.lastPrio
        /\ t = CalendarRemove(s, e) /\ Width(k, t) = t.width
    BY <1>4, <1>7 DEF Sound, Contents, WithoutEvent, LastPrio, Width
  <2>2. t \in Counted /\ Listed(t) = A /\ t.lastPrio = s.lastPrio
    BY <1>1, <1>2, <1>4, <2>1, CalendarRemoveKeeps
  <2> QED
    BY <1>1, <1>3, <1>4, <1>7, <2>1, <2>2 DEF Sound, Contents, LastPrio
<1> QED
  BY <1>5, <1>6, <1>7 DEF AllKinds

----------------------------------------------------------------------------
(* SetScheduler.                                                           *)

\* The loop is defined, whatever the schedulers do.
LEMMA MovesDefined ==
  ASSUME NEW k, NEW s, NEW l, Cardinality(Contents(k, s)) \in Nat
  PROVE  /\ Moves(k, s, l)[0] = [old |-> s, new |-> Empty(l)]
         /\ \A i \in 1..Cardinality(Contents(k, s)) :
              Moves(k, s, l)[i] = Moved(k, l, Moves(k, s, l)[i - 1])
<1>1. PICK N \in Nat : N = Cardinality(Contents(k, s))
  OBVIOUS
<1>2. PICK init : init = [old |-> s, new |-> Empty(l)]
  OBVIOUS
<1> DEFINE Upto(f, m) == f = [i \in 0..m |-> IF i = 0 THEN init ELSE Moved(k, l, f[i - 1])]
           G == {m \in 0..N : \E f : Upto(f, m)}
<1>3. 0 \in G
  <2>1. PICK f : f = [i \in 0..0 |-> init]
    OBVIOUS
  <2>2. f = [i \in 0..0 |-> IF i = 0 THEN init ELSE Moved(k, l, f[i - 1])]
    BY <2>1
  <2> QED
    BY <2>2
<1>4. ASSUME NEW m \in 1..N, m - 1 \in G PROVE m \in G
  <2>1. PICK f : f = [i \in 0..m - 1 |-> IF i = 0 THEN init ELSE Moved(k, l, f[i - 1])]
    BY <1>4
  <2>2. PICK last : last = Moved(k, l, f[m - 1])
    OBVIOUS
  <2>3. PICK g : g = [i \in 0..m |-> IF i = m THEN last ELSE f[i]]
    OBVIOUS
  <2>4. \A i \in 0..m - 1 : g[i] = f[i] /\ f[i] = IF i = 0 THEN init ELSE Moved(k, l, f[i - 1])
    BY <2>1, <2>3
  <2>5. \A i \in 0..m : g[i] = IF i = 0 THEN init ELSE Moved(k, l, g[i - 1])
    <3> TAKE i \in 0..m
    <3>1. CASE i = 0
      <4>1. 0 \in 0..m - 1
        OBVIOUS
      <4> QED
        BY <2>4, <3>1, <4>1
    <3>2. CASE i # 0 /\ i # m
      <4>1. i \in 0..m - 1 /\ i - 1 \in 0..m - 1
        BY <3>2
      <4> QED
        BY <2>4, <3>2, <4>1
    <3>3. CASE i = m
      <4>1. m - 1 \in 0..m - 1 /\ m # 0 /\ m \in 0..m
        OBVIOUS
      <4>2. g[m] = last /\ g[m - 1] = f[m - 1]
        BY <2>3, <2>4, <4>1
      <4> QED
        BY <2>2, <3>3, <4>1, <4>2
    <3> QED
      BY <3>1, <3>2, <3>3
  <2>6. g = [i \in 0..m |-> IF i = 0 THEN init ELSE Moved(k, l, g[i - 1])]
    BY <2>3, <2>5
  <2> QED
    BY <2>6
<1>5. N \in G
  <2> HIDE DEF G
  <2> QED
    BY <1>3, <1>4, PrefixInduction
<1>6. \E f : Upto(f, N)
  BY <1>5
<1>7. PICK move : move = CHOOSE f : Upto(f, N)
  OBVIOUS
<1>8. Upto(move, N)
  <2> HIDE DEF Upto
  <2> QED
    BY <1>6, <1>7
<1>9. Moves(k, s, l) = move
  BY <1>1, <1>2, <1>7 DEF Moves
<1>10. \A i \in 0..N : move[i] = IF i = 0 THEN init ELSE Moved(k, l, move[i - 1])
  BY <1>8
<1>11. \A i \in 1..N : i \in 0..N /\ i # 0
  OBVIOUS
<1>12. 0 \in 0..N
  OBVIOUS
<1> HIDE DEF Upto, G
<1> QED
  BY <1>1, <1>2, <1>9, <1>10, <1>11, <1>12

\* None of the widths a calendar is resized to on the way is 0.
MovesAreWide(k, s, l) ==
  \A i \in 0..Cardinality(Contents(k, s)) :
    Width(k, Moves(k, s, l)[i].old) # 0 /\ Width(l, Moves(k, s, l)[i].new) # 0

\* After each turn the two schedulers share out the events; in the end the new
\* one has them all.
LEMMA TransferredSound ==
  ASSUME NEW k \in AllKinds, NEW l \in AllKinds, NEW s, Sound(k, s),
         MovesAreWide(k, s, l) \/ Close(Contents(k, s))
  PROVE  /\ Sound(l, Transferred(k, s, l))
         /\ Contents(l, Transferred(k, s, l)) = Contents(k, s)
         /\ LastPrio(l, Transferred(k, s, l)) = 0
         /\ MovesAreWide(k, s, l)
<1>1. PICK A : A = Contents(k, s)
  OBVIOUS
<1>2. IsFiniteSet(A) /\ UniqueUids(A) /\ A \subseteq Key
  BY <1>1, ContentsAreKeys DEF Sound
<1>3. PICK N \in Nat : N = Cardinality(A)
  BY <1>2, FS_CardinalityType
<1>4. PICK move : move = Moves(k, s, l)
  OBVIOUS
<1>5. /\ move[0] = [old |-> s, new |-> Empty(l)]
      /\ \A i \in 1..N : move[i] = Moved(k, l, move[i - 1])
  BY <1>1, <1>3, <1>4, MovesDefined
<1>6. \/ \A i \in 0..N : Width(k, move[i].old) # 0 /\ Width(l, move[i].new) # 0
      \/ Close(A)
  BY <1>1, <1>3, <1>4 DEF MovesAreWide
<1> DEFINE Shared(p, i) ==
             /\ Sound(k, p.old) /\ Contents(k, p.old) \subseteq A
             /\ Cardinality(Contents(k, p.old)) = N - i
             /\ Sound(l, p.new) /\ Contents(l, p.new) = A \ Contents(k, p.old)
             /\ LastPrio(l, p.new) = 0
           G == {i \in 0..N : Shared(move[i], i)}
<1>7. 0 \in G
  <2>1. move[0].old = s /\ move[0].new = Empty(l)
    BY <1>5
  <2>2. Shared(move[0], 0)
    BY <1>1, <1>3, <2>1, EmptySound
  <2> QED
    BY <2>2
<1>8. ASSUME NEW i \in 1..N, i - 1 \in G PROVE i \in G
  <2>1. PICK p : p = move[i - 1]
    OBVIOUS
  <2>2. Shared(p, i - 1)
    BY <1>8, <2>1
  <2>3. PICK B : B = Contents(k, p.old)
    OBVIOUS
  <2>4. B \subseteq A /\ IsFiniteSet(B) /\ Cardinality(B) = N - (i - 1)
    BY <2>2, <2>3 DEF Sound
  <2>5. B # {}
    <3>1. Cardinality(B) # 0
      BY <1>3, <2>4
    <3> QED
      BY <2>4, <3>1, FS_EmptySet
  <2>6. PICK e \in B : e = NextEvent(k, p.old)
    BY <2>2, <2>3, <2>5, NextEventIsEarliest
  <2>7. PICK q : q = move[i]
    OBVIOUS
  <2>8. q.old = WithoutNext(k, p.old) /\ q.new = WithEvent(l, p.new, e)
    <3>1. q = Moved(k, l, p)
      BY <1>5, <2>1, <2>7
    <3>2. Moved(k, l, p) = [old |-> WithoutNext(k, p.old), new |-> WithEvent(l, p.new, e)]
      BY <2>6 DEF Moved
    <3> QED
      BY <3>1, <3>2
  <2>9. /\ i \in 0..N
        /\ Width(k, q.old) # 0 \/ Close(B \ {e})
        /\ Width(l, q.new) # 0 \/ Close((A \ B) \cup {e})
    BY <1>6, <2>4, <2>6, <2>7 DEF Close
  <2>10. Sound(k, q.old) /\ Contents(k, q.old) = B \ {e}
    <3>1. PICK r : r = p.old
      OBVIOUS
    <3>2. Sound(k, r) /\ Contents(k, r) = B /\ NextEvent(k, r) = e
      BY <2>2, <2>3, <2>6, <3>1
    <3>3. \/ Width(k, WithoutNext(k, r)) # 0
          \/ Close(Contents(k, r) \ {NextEvent(k, r)})
      BY <2>8, <2>9, <3>1, <3>2
    <3>4. /\ Sound(k, WithoutNext(k, r))
          /\ Contents(k, WithoutNext(k, r)) = Contents(k, r) \ {NextEvent(k, r)}
      BY <2>5, <3>2, <3>3, WithoutNextSound
    <3> QED
      BY <2>8, <3>1, <3>2, <3>4
  <2>11. Cardinality(B \ {e}) = N - i
    <3>1. Cardinality(B \ {e}) = Cardinality(B) - 1
      BY <2>4, <2>6, FS_RemoveElement
    <3> QED
      BY <1>3, <2>4, <3>1
  <2>12. e \in Key /\ e \in A /\ e.ts \in Nat
    BY <1>2, <2>4, <2>6 DEF Key
  <2>13. Contents(l, p.new) = A \ B /\ LastPrio(l, p.new) = 0 /\ Sound(l, p.new)
    BY <2>2, <2>3
  <2>14. \A d \in Contents(l, p.new) : d.uid # e.uid
    BY <1>2, <2>6, <2>12, <2>13 DEF UniqueUids
  <2>15. e.ts >= LastPrio(l, p.new)
    BY <2>12, <2>13
  <2>16. /\ Sound(l, q.new) /\ Contents(l, q.new) = (A \ B) \cup {e}
         /\ LastPrio(l, q.new) = 0
    <3>1. PICK r : r = p.new
      OBVIOUS
    <3>2. Width(l, WithEvent(l, r, e)) # 0 \/ Close(Contents(l, r) \cup {e})
      BY <2>8, <2>9, <2>13, <3>1
    <3>3. /\ Sound(l, WithEvent(l, r, e))
          /\ Contents(l, WithEvent(l, r, e)) = Contents(l, r) \cup {e}
          /\ LastPrio(l, WithEvent(l, r, e)) = LastPrio(l, r)
      BY <2>12, <2>13, <2>14, <2>15, <3>1, <3>2, WithEventSound
    <3> QED
      BY <2>8, <2>13, <3>1, <3>3
  <2>17. (A \ B) \cup {e} = A \ (B \ {e}) /\ B \ {e} \subseteq A
    BY <2>4, <2>6, <2>12
  <2>18. Shared(q, i)
    BY <2>10, <2>11, <2>16, <2>17
  <2> QED
    BY <2>7, <2>9, <2>18
<1>9. 0..N \subseteq G
  <2> HIDE DEF G
  <2> QED
    BY <1>7, <1>8, PrefixInduction
<1>10. PICK p : p = move[N] /\ Shared(p, N)
  BY <1>9
<1>11. IsFiniteSet(Contents(k, p.old)) /\ Cardinality(Contents(k, p.old)) = 0
  BY <1>3, <1>10 DEF Sound
<1>12. Contents(k, p.old) = {}
  BY <1>11, FS_EmptySet
<1>13. Transferred(k, s, l) = p.new
  BY <1>1, <1>3, <1>4, <1>10 DEF Transferred
<1>14. MovesAreWide(k, s, l)
  <2> SUFFICES ASSUME NEW i \in 0..N
               PROVE  Width(k, move[i].old) # 0 /\ Width(l, move[i].new) # 0
    BY <1>1, <1>3, <1>4 DEF MovesAreWide
  <2>1. Sound(k, move[i].old) /\ Sound(l, move[i].new)
    BY <1>9
  <2> QED
    BY <2>1, SoundIsWide
<1> QED
  BY <1>1, <1>10, <1>12, <1>13, <1>14

----------------------------------------------------------------------------
(* The invariant.                                                          *)

\* The kinds are these three, and Remove is called on small heaps only: in a
\* larger one it may leave an element that is less than its parent.
HeapsAreSmall == "heap" \in Kinds => RemoveLimit["heap"] <= 5

\* A step resizes no calendar to a width that is 0 modulo 2^32: the program
\* ends with a division by zero there.
WidthsLast ==
  /\ Width(kind', sched') # 0
  /\ kind' # kind => MovesAreWide(kind, sched, kind')

\* That cannot happen to delays of less than a third of 2^32: the events are
\* never further than the longest one from now.
DelaysAreShort == Modulus > 1 /\ \A d \in Delays : 3 * d < Modulus
Soon == Modulus > 1 /\ \A e \in Contents(kind, sched) : 3 * (e.ts - now) < Modulus

\* The scheduler keeps its structure; no event is earlier than the last one
\* run, and the uids to come are new.
SchedulersInv ==
  /\ kind \in Kinds /\ now \in Nat /\ uid \in Nat
  /\ Sound(kind, sched) /\ LastPrio(kind, sched) <= now
  /\ \A e \in Contents(kind, sched) : e.ts >= now /\ e.uid < uid

LEMMA KindsKnown == Kinds \subseteq AllKinds
BY SchedulersAssumption DEF SchedulersAssumption, AllKinds

LEMMA SchedulersInvInit == Init => SchedulersInv
<1> SUFFICES ASSUME Init PROVE SchedulersInv
  OBVIOUS
<1>1. kind \in Kinds /\ kind \in AllKinds /\ sched = Empty(kind) /\ now = 0 /\ uid = 1
  BY KindsKnown DEF Init
<1>2. Sound(kind, sched) /\ Contents(kind, sched) = {} /\ LastPrio(kind, sched) = 0
  BY <1>1, EmptySound
<1> QED
  BY <1>1, <1>2 DEF SchedulersInv

LEMMA SoonIsClose ==
  ASSUME SchedulersInv, Soon
  PROVE  Close(Contents(kind, sched))
<1>1. /\ now \in Nat /\ \A e \in Contents(kind, sched) : e.ts \in Nat
      /\ \A e \in Contents(kind, sched) : e.ts >= now
  BY KindsKnown, ContentsAreKeys DEF SchedulersInv, Key
<1>2. Modulus \in Nat
  BY SchedulersAssumption DEF SchedulersAssumption
<1>3. ASSUME NEW k \in Contents(kind, sched), NEW l \in Contents(kind, sched)
      PROVE  3 * (l.ts - k.ts) < Modulus
  BY <1>1, <1>2, <1>3 DEF Soon
<1> QED
  BY <1>3 DEF Close, Soon

\* What each step does to the events, and that it keeps the invariant.
LEMMA InsertStep ==
  ASSUME SchedulersInv, Insert, WidthsLast \/ (DelaysAreShort /\ Soon)
  PROVE  /\ SchedulersInv'
         /\ \E d \in Delays :
              Contents(kind, sched)' = Contents(kind, sched) \cup {[ts |-> now + d, uid |-> uid]}
<1>1. /\ kind \in Kinds /\ kind \in AllKinds /\ now \in Nat /\ uid \in Nat
      /\ Sound(kind, sched) /\ LastPrio(kind, sched) <= now
      /\ \A l \in Contents(kind, sched) : l.ts >= now /\ l.uid < uid
  BY KindsKnown DEF SchedulersInv
<1>2. uid' = uid + 1 /\ kind' = kind /\ now' = now
  BY DEF Insert, List!NextUid
<1>3. PICK d \in Delays : sched' = WithEvent(kind, sched, List!Scheduled(d))
  BY DEF Insert
<1>4. d \in Nat
  BY SchedulersAssumption DEF SchedulersAssumption
<1>5. PICK e \in Key : e = [ts |-> now + d, uid |-> uid]
  <2>1. now + d \in Nat /\ uid \in Nat
    BY <1>1, <1>4
  <2>2. [ts |-> now + d, uid |-> uid] \in Key
    BY <2>1 DEF Key
  <2> QED
    BY <2>2
<1>6. sched' = WithEvent(kind, sched, e) /\ e.ts = now + d /\ e.uid = uid
  BY <1>3, <1>5 DEF List!Scheduled
<1>7. Width(kind, sched') # 0 \/ Close(Contents(kind, sched) \cup {e})
  <2>1. CASE WidthsLast
    BY <1>2, <2>1 DEF WidthsLast
  <2>2. CASE DelaysAreShort /\ Soon
    <3>1. Modulus \in Nat
      BY SchedulersAssumption DEF SchedulersAssumption
    <3>2. ASSUME NEW l \in Contents(kind, sched) \cup {e}
          PROVE  l.ts \in Nat /\ l.ts >= now /\ 3 * (l.ts - now) < Modulus
      <4>1. CASE l = e
        BY <1>1, <1>4, <1>6, <2>2, <4>1 DEF DelaysAreShort
      <4>2. CASE l \in Contents(kind, sched)
        BY <1>1, <2>2, <4>2, ContentsAreKeys DEF Soon, Key
      <4> QED
        BY <3>2, <4>1, <4>2
    <3>3. ASSUME NEW l \in Contents(kind, sched) \cup {e}, NEW m \in Contents(kind, sched) \cup {e}
          PROVE  3 * (m.ts - l.ts) < Modulus
      <4>1. l.ts \in Nat /\ m.ts \in Nat /\ l.ts >= now /\ 3 * (m.ts - now) < Modulus
        BY <3>2
      <4> QED
        BY <1>1, <3>1, <4>1
    <3> QED
      BY <2>2, <3>3 DEF Close, Soon
  <2> QED
    BY <2>1, <2>2
<1>8. \A l \in Contents(kind, sched) : l.uid # e.uid
  <2> TAKE l \in Contents(kind, sched)
  <2>1. l.uid \in Nat /\ l.uid < uid
    BY <1>1, ContentsAreKeys DEF Key
  <2> QED
    BY <1>1, <1>6, <2>1
<1>9. e.ts >= LastPrio(kind, sched)
  <2>1. LastPrio(kind, sched) \in Nat
    BY <1>1, ContentsAreKeys
  <2> QED
    BY <1>1, <1>4, <1>6, <2>1
<1>10. /\ Sound(kind, sched') /\ Contents(kind, sched') = Contents(kind, sched) \cup {e}
       /\ LastPrio(kind, sched') = LastPrio(kind, sched)
  <2>1. PICK t : t = WithEvent(kind, sched, e) /\ t = sched'
    BY <1>6
  <2>2. Width(kind, WithEvent(kind, sched, e)) # 0 \/ Close(Contents(kind, sched) \cup {e})
    BY <1>7, <2>1
  <2>3. /\ Sound(kind, WithEvent(kind, sched, e))
        /\ Contents(kind, WithEvent(kind, sched, e)) = Contents(kind, sched) \cup {e}
        /\ LastPrio(kind, WithEvent(kind, sched, e)) = LastPrio(kind, sched)
    BY <1>1, <1>8, <1>9, <2>2, WithEventSound
  <2> QED
    BY <2>1, <2>3
<1>11. \A l \in Contents(kind, sched') : l.ts >= now /\ l.uid < uid + 1
  <2> TAKE l \in Contents(kind, sched')
  <2>1. CASE l = e
    BY <1>1, <1>4, <1>6, <2>1
  <2>2. CASE l \in Contents(kind, sched)
    <3>1. l.uid \in Nat /\ l.uid < uid /\ l.ts >= now
      BY <1>1, <2>2, ContentsAreKeys DEF Key
    <3> QED
      BY <1>1, <3>1
  <2> QED
    BY <1>10, <2>1, <2>2
<1> QED
  BY <1>1, <1>2, <1>5, <1>10, <1>11 DEF SchedulersInv

LEMMA RemoveNextStep ==
  ASSUME SchedulersInv, RemoveNext, WidthsLast \/ Soon
  PROVE  /\ SchedulersInv'
         /\ next' \in Contents(kind, sched)
         /\ \A l \in Contents(kind, sched) \ {next'} : Earlier(next', l)
         /\ Contents(kind, sched)' = Contents(kind, sched) \ {next'}
         /\ next' \in Key
<1>1. /\ kind \in Kinds /\ kind \in AllKinds /\ now \in Nat /\ uid \in Nat
      /\ Sound(kind, sched)
      /\ \A l \in Contents(kind, sched) : l.ts >= now /\ l.uid < uid
  BY KindsKnown DEF SchedulersInv
<1>2. /\ Contents(kind, sched) # {} /\ next' = NextEvent(kind, sched) /\ now' = next'.ts
      /\ sched' = WithoutNext(kind, sched) /\ kind' = kind /\ uid' = uid
  BY DEF RemoveNext
<1>3. \/ Width(kind, sched') # 0
      \/ Close(Contents(kind, sched) \ {NextEvent(kind, sched)})
  BY <1>2, SoonIsClose DEF WidthsLast, Close
<1>4. PICK f \in Contents(kind, sched) :
        f = next' /\ \A l \in Contents(kind, sched) : l = f \/ Earlier(f, l)
  BY <1>1, <1>2, NextEventIsEarliest
<1>5. /\ Sound(kind, sched') /\ Contents(kind, sched') = Contents(kind, sched) \ {f}
      /\ LastPrio(kind, sched') <= f.ts
  BY <1>1, <1>2, <1>3, <1>4, WithoutNextSound
<1>6. f \in Key /\ f.ts \in Nat
  BY <1>1, ContentsAreKeys DEF Key
<1>7. \A l \in Contents(kind, sched') : l.ts >= f.ts /\ l.uid < uid
  <2> TAKE l \in Contents(kind, sched')
  <2>1. l \in Contents(kind, sched) /\ Earlier(f, l) /\ l \in Key
    BY <1>1, <1>4, <1>5, ContentsAreKeys
  <2> QED
    BY <1>1, <1>6, <2>1 DEF Earlier, Key
<1> QED
  BY <1>1, <1>2, <1>4, <1>5, <1>6, <1>7 DEF SchedulersInv

LEMMA RemoveEventStep ==
  ASSUME HeapsAreSmall, SchedulersInv, NEW e \in Contents(kind, sched), RemoveEvent(e),
         WidthsLast \/ Soon
  PROVE  /\ SchedulersInv'
         /\ Contents(kind, sched)' = Contents(kind, sched) \ {e}
<1>1. /\ kind \in Kinds /\ kind \in AllKinds /\ now \in Nat /\ uid \in Nat
      /\ Sound(kind, sched) /\ LastPrio(kind, sched) <= now
      /\ \A l \in Contents(kind, sched) : l.ts >= now /\ l.uid < uid
  BY KindsKnown DEF SchedulersInv
<1>2. /\ kind' = kind /\ now' = now /\ uid' = uid
      /\ sched' = WithoutEvent(kind, sched, e)
      /\ Cardinality(Contents(kind, sched)) <= RemoveLimit[kind]
  BY DEF RemoveEvent
<1>3. Width(kind, sched') # 0 \/ Close(Contents(kind, sched) \ {e})
  BY <1>2, SoonIsClose DEF WidthsLast, Close
<1>4. kind = "heap" => Cardinality(Contents(kind, sched)) <= 5
  <2>1. RemoveLimit[kind] \in Nat
    BY <1>1, SchedulersAssumption DEF SchedulersAssumption
  <2>2. Cardinality(Contents(kind, sched)) \in Nat
    BY <1>1, FS_CardinalityType DEF Sound
  <2> QED
    BY <1>1, <1>2, <2>1, <2>2 DEF HeapsAreSmall
<1>5. /\ Sound(kind, sched') /\ Contents(kind, sched') = Contents(kind, sched) \ {e}
      /\ LastPrio(kind, sched') = LastPrio(kind, sched)
  <2>1. PICK t : t = WithoutEvent(kind, sched, e) /\ t = sched'
    BY <1>2
  <2>2. Width(kind, WithoutEvent(kind, sched, e)) # 0 \/ Close(Contents(kind, sched) \ {e})
    BY <1>3, <2>1
  <2>3. /\ Sound(kind, WithoutEvent(kind, sched, e))
        /\ Contents(kind, WithoutEvent(kind, sched, e)) = Contents(kind, sched) \ {e}
        /\ LastPrio(kind, WithoutEvent(kind, sched, e)) = LastPrio(kind, sched)
    BY <1>1, <1>4, <2>2, WithoutEventSound
  <2> QED
    BY <2>1, <2>3
<1> QED
  BY <1>1, <1>2, <1>5 DEF SchedulersInv

LEMMA SetSchedulerStep ==
  ASSUME SchedulersInv, SetScheduler, WidthsLast \/ Soon
  PROVE  /\ SchedulersInv' /\ Contents(kind, sched)' = Contents(kind, sched)
         /\ MovesAreWide(kind, sched, kind')
<1>1. /\ kind \in Kinds /\ kind \in AllKinds /\ now \in Nat /\ uid \in Nat
      /\ Sound(kind, sched)
      /\ \A l \in Contents(kind, sched) : l.ts >= now /\ l.uid < uid
  BY KindsKnown DEF SchedulersInv
<1>2. /\ kind' \in Kinds /\ kind' \in AllKinds /\ kind' # kind
      /\ sched' = Transferred(kind, sched, kind') /\ now' = now /\ uid' = uid
  BY KindsKnown DEF SetScheduler
<1>3. MovesAreWide(kind, sched, kind') \/ Close(Contents(kind, sched))
  BY <1>2, SoonIsClose DEF WidthsLast
<1>4. /\ Sound(kind', sched') /\ Contents(kind', sched') = Contents(kind, sched)
      /\ LastPrio(kind', sched') = 0 /\ MovesAreWide(kind, sched, kind')
  BY <1>1, <1>2, <1>3, TransferredSound
<1> QED
  BY <1>1, <1>2, <1>4 DEF SchedulersInv

LEMMA SchedulersInvStep ==
  ASSUME HeapsAreSmall, SchedulersInv, [Next]_vars, [WidthsLast]_vars
  PROVE  SchedulersInv'
<1>1. CASE UNCHANGED vars
  BY <1>1 DEF vars, SchedulersInv
<1>2. CASE Next /\ WidthsLast
  <2>1. CASE Insert
    BY <1>2, <2>1, InsertStep
  <2>2. CASE RemoveNext
    BY <1>2, <2>2, RemoveNextStep
  <2>3. CASE SetScheduler
    BY <1>2, <2>3, SetSchedulerStep
  <2>4. CASE \E e \in Contents(kind, sched) : RemoveEvent(e)
    BY <1>2, <2>4, RemoveEventStep
  <2> QED
    BY <1>2, <2>1, <2>2, <2>3, <2>4 DEF Next
<1> QED
  BY <1>1, <1>2

\* With short delays no step finds a width of 0.
LEMMA ShortDelaysStep ==
  ASSUME HeapsAreSmall, DelaysAreShort, SchedulersInv, Soon, [Next]_vars
  PROVE  [WidthsLast]_vars /\ SchedulersInv' /\ Soon'
<1>1. /\ now \in Nat /\ \A e \in Contents(kind, sched) : e.ts \in Nat /\ e.ts >= now
      /\ \A e \in Contents(kind, sched) : 3 * (e.ts - now) < Modulus
  BY KindsKnown, ContentsAreKeys DEF SchedulersInv, Key, Soon
<1>2. Modulus \in Nat /\ Modulus > 1 /\ Delays \subseteq Nat
  BY SchedulersAssumption DEF SchedulersAssumption, DelaysAreShort
<1>3. CASE UNCHANGED vars
  BY <1>3 DEF vars, SchedulersInv, Soon
<1>4. CASE Next
  <2>1. ASSUME Insert PROVE SchedulersInv' /\ Soon'
    <3>1. PICK d \in Delays :
            Contents(kind, sched)' = Contents(kind, sched) \cup {[ts |-> now + d, uid |-> uid]}
      BY <2>1, InsertStep
    <3>2. 3 * d < Modulus /\ d \in Nat
      BY <1>2, <3>1 DEF DelaysAreShort
    <3>3. \A e \in Contents(kind, sched)' : 3 * (e.ts - now) < Modulus
      BY <1>1, <1>2, <3>1, <3>2
    <3>4. now' = now
      BY <2>1 DEF Insert
    <3> QED
      BY <1>2, <2>1, <3>3, <3>4, InsertStep DEF Soon
  <2>2. ASSUME RemoveNext PROVE SchedulersInv' /\ Soon'
    <3>1. /\ next' \in Contents(kind, sched)
          /\ Contents(kind, sched)' = Contents(kind, sched) \ {next'}
      BY <2>2, RemoveNextStep
    <3>2. now' = next'.ts /\ next'.ts \in Nat /\ next'.ts >= now
      BY <1>1, <2>2, <3>1 DEF RemoveNext
    <3>3. ASSUME NEW e \in Contents(kind, sched)' PROVE 3 * (e.ts - now') < Modulus
      <4>1. e.ts \in Nat /\ 3 * (e.ts - now) < Modulus
        BY <1>1, <3>1
      <4> QED
        BY <1>1, <1>2, <3>2, <4>1
    <3> QED
      BY <1>2, <2>2, <3>3, RemoveNextStep DEF Soon
  <2>3. ASSUME SetScheduler PROVE SchedulersInv' /\ Soon'
    <3>1. Contents(kind, sched)' = Contents(kind, sched) /\ now' = now
      BY <2>3, SetSchedulerStep DEF SetScheduler
    <3> QED
      BY <1>1, <1>2, <2>3, <3>1, SetSchedulerStep DEF Soon
  <2>4. ASSUME NEW e \in Contents(kind, sched), RemoveEvent(e) PROVE SchedulersInv' /\ Soon'
    <3>1. Contents(kind, sched)' = Contents(kind, sched) \ {e} /\ now' = now
      BY <2>4, RemoveEventStep DEF RemoveEvent
    <3> QED
      BY <1>1, <1>2, <2>4, <3>1, RemoveEventStep DEF Soon
  <2>5. SchedulersInv' /\ Soon'
    BY <1>4, <2>1, <2>2, <2>3, <2>4 DEF Next
  <2>6. Width(kind', sched') # 0
    BY <2>5, SoundIsWide DEF SchedulersInv
  <2>7. ASSUME kind' # kind PROVE MovesAreWide(kind, sched, kind')
    <3>1. SetScheduler
      BY <1>4, <2>7 DEF Next, Insert, RemoveNext, RemoveEvent
    <3> QED
      BY <3>1, SetSchedulerStep
  <2> QED
    BY <2>5, <2>6, <2>7 DEF WidthsLast
<1> QED
  BY <1>3, <1>4

----------------------------------------------------------------------------
(* The theorems.                                                           *)

\* In every behaviour whose calendars get no width of 0, each scheduler keeps
\* its structure, every event its uid, and nothing is left from before now.
THEOREM SchedulersInvariant ==
  ASSUME HeapsAreSmall
  PROVE  Spec /\ [][WidthsLast]_vars => []SchedulersInv
<1>1. SchedulersInv /\ [Next]_vars /\ [WidthsLast]_vars => SchedulersInv'
  BY SchedulersInvStep
<1> QED
  BY <1>1, SchedulersInvInit, PTL DEF Spec

\* The list stays sorted, the heap a heap, and the calendar's buckets, day and
\* size fit each other: what the search for the next event relies on.
THEOREM StructureKept ==
  ASSUME HeapsAreSmall
  PROVE  Spec /\ [][WidthsLast]_vars => []InOrder
<1>1. ASSUME SchedulersInv PROVE InOrder
  <2>1. Sound(kind, sched)
    BY <1>1 DEF SchedulersInv
  <2>2. kind = "list" => \A i, j \in DOMAIN sched : i < j => Earlier(sched[i], sched[j])
    BY <2>1 DEF Sound, Ordered
  <2>3. kind = "heap" => IsHeap(sched)
    BY <2>1 DEF Sound
  <2>4. ASSUME kind = "calendar" PROVE IsCalendar(sched)
    <3>1. /\ sched \in Calendars /\ Filed(sched) /\ Standing(sched)
          /\ sched.qSize = Cardinality(Listed(sched))
      BY <2>1, <2>4 DEF Sound, Counted, Arranged
    <3>2. ASSUME NEW b \in DOMAIN sched.buckets, NEW i \in DOMAIN sched.buckets[b]
          PROVE  /\ Hash(sched, sched.buckets[b][i].ts) = b
                 /\ sched.buckets[b][i].ts >= sched.lastPrio
                 /\ i > 1 => Earlier(sched.buckets[b][i - 1], sched.buckets[b][i])
      <4>1. PICK t \in Seq(Key) : t = sched.buckets[b]
        BY <3>1, CalendarShape
      <4>2. Ordered(t) /\ \A k \in ToSet(t) : Hash(sched, k.ts) = b /\ k.ts >= sched.lastPrio
        BY <3>1, <4>1 DEF Filed
      <4>3. i \in 1..Len(t)
        BY <3>2, <4>1
      <4>4. t[i] \in ToSet(t)
        BY <4>1, <4>3, InSequence
      <4>5. i > 1 => i - 1 \in DOMAIN t /\ i \in DOMAIN t /\ i - 1 < i
        BY <4>1, <4>3
      <4> QED
        BY <4>1, <4>2, <4>4, <4>5 DEF Ordered
    <3> QED
      BY <3>1, <3>2 DEF IsCalendar, Standing
  <2> QED
    BY <2>2, <2>3, <2>4 DEF InOrder
<1> QED
  BY <1>1, SchedulersInvariant, PTL

\* PeekNext of a calendar returns the event that RemoveNext is going to, as
\* long as that one is earlier than the key its search starts from.
THEOREM EarlyPeeks ==
  ASSUME HeapsAreSmall
  PROVE  Spec /\ [][WidthsLast]_vars => []EarlyPeekIsNext
<1>1. ASSUME SchedulersInv PROVE EarlyPeekIsNext
  <2> SUFFICES ASSUME kind = "calendar", sched.qSize > 0, NextKey(sched).ts < Modulus - 1
               PROVE  PeekNext(sched) = NextKey(sched)
    BY DEF EarlyPeekIsNext
  <2>1. sched \in Arranged /\ sched.qSize = Cardinality(Listed(sched))
    BY <1>1 DEF SchedulersInv, Sound, Counted
  <2>2. Listed(sched) # {}
    BY <2>1, FS_EmptySet
  <2>3. CASE Hits(sched) # {}
    BY <2>3 DEF PeekNext, NextKey
  <2>4. CASE Hits(sched) = {}
    <3> DEFINE F == {First(sched, b) : b \in Filled(sched)}
    <3>1. PICK k \in Listed(sched) :
            k = NextKey(sched) /\ \A e \in Listed(sched) : e = k \/ Earlier(k, e)
      BY <2>1, <2>2, NextKeyIsEarliest
    <3>2. k \in F
      BY <2>1, <2>2, <3>1, NextKeyIsEarliest
    <3>3. F \subseteq Listed(sched) /\ F \subseteq Key
      BY <2>1, FirstOfBucket
    <3>4. Unset \in Key /\ Unset.ts = Modulus - 1
      <4>1. Modulus - 1 \in Nat
        BY SchedulersAssumption DEF SchedulersAssumption
      <4> QED
        BY <4>1 DEF Unset, Key
    <3>5. Earlier(k, Unset)
      BY <3>1, <3>4 DEF Earlier
    <3>6. F \cup {Unset} \in SUBSET Key /\ k \in F \cup {Unset}
      BY <3>2, <3>3, <3>4
    <3>7. \A e \in F \cup {Unset} : e = k \/ Earlier(k, e)
      BY <3>1, <3>3, <3>5
    <3>8. Earliest(F \cup {Unset}) = k
      <4> HIDE DEF F
      <4> QED
        BY <3>6, <3>7, EarliestIs
    <3> QED
      BY <2>4, <3>1, <3>8 DEF PeekNext
  <2> QED
    BY <2>3, <2>4
<1> QED
  BY <1>1, SchedulersInvariant, PTL

\* RemoveNext removes the earliest event of all, if Remove was never called on
\* a large heap.
THEOREM NextEarliest ==
  ASSUME HeapsAreSmall
  PROVE  Spec /\ [][WidthsLast]_vars => NextIsEarliest
<1>1. ASSUME SchedulersInv, RemoveNext
      PROVE  \A e \in Contents(kind, sched) \ {next'} : Earlier(next', e)
  <2>1. kind \in AllKinds /\ Sound(kind, sched)
    BY <1>1, KindsKnown DEF SchedulersInv
  <2>2. Contents(kind, sched) # {} /\ next' = NextEvent(kind, sched)
    BY <1>1 DEF RemoveNext
  <2> QED
    BY <2>1, <2>2, NextEventIsEarliest
<1> QED
  BY <1>1, SchedulersInvariant, PTL DEF NextIsEarliest

\* Each scheduler implements EventList: a step of it takes in or gives up the
\* one event EventList's step does, RemoveNext the earliest, Remove the one it
\* is called with, and SetScheduler none.
THEOREM SchedulersImplementEventList ==
  ASSUME HeapsAreSmall
  PROVE  Spec /\ [][WidthsLast]_vars => ListKept
<1> DEFINE AsListed ==
             /\ kind' # kind => UNCHANGED Contents(kind, sched)
             /\ \A e \in Contents(kind, sched) : RemoveEvent(e) => List!RemoveEvent(e)
<1>1. Init => List!Init
  <2> SUFFICES ASSUME Init PROVE List!Init
    OBVIOUS
  <2>1. kind \in AllKinds /\ sched = Empty(kind)
    BY KindsKnown DEF Init
  <2>2. Contents(kind, sched) = {}
    BY <2>1, EmptySound
  <2> QED
    BY <2>2 DEF Init, List!Init
<1>2. ASSUME SchedulersInv, NEW e \in Contents(kind, sched), RemoveEvent(e), WidthsLast
      PROVE  List!RemoveEvent(e)
  <2>1. Contents(kind, sched)' = Contents(kind, sched) \ {e}
    BY <1>2, RemoveEventStep
  <2> QED
    BY <1>2, <2>1 DEF RemoveEvent, List!RemoveEvent
<1>3. ASSUME SchedulersInv, [Next]_vars, [WidthsLast]_vars
      PROVE  [List!Next]_(List!listVars)
  <2>1. CASE UNCHANGED vars
    BY <2>1 DEF vars, List!listVars
  <2>2. CASE WidthsLast /\ Insert
    <3>1. \E d \in Delays :
            Contents(kind, sched)' = Contents(kind, sched) \cup {[ts |-> now + d, uid |-> uid]}
      BY <1>3, <2>2, InsertStep
    <3>2. List!Insert
      BY <2>2, <3>1 DEF Insert, List!Insert, List!Scheduled, List!Cardinality, Cardinality
    <3> QED
      BY <3>2 DEF List!Next
  <2>3. CASE WidthsLast /\ RemoveNext
    <3>1. /\ next' \in Contents(kind, sched)
          /\ \A l \in Contents(kind, sched) \ {next'} : Earlier(next', l)
          /\ Contents(kind, sched)' = Contents(kind, sched) \ {next'}
      BY <1>3, <2>3, RemoveNextStep
    <3>2. List!RemoveNext
      BY <2>3, <3>1 DEF RemoveNext, List!RemoveNext, Earlier, List!Earlier
    <3> QED
      BY <3>2 DEF List!Next
  <2>4. CASE WidthsLast /\ SetScheduler
    <3>1. Contents(kind, sched)' = Contents(kind, sched)
      BY <1>3, <2>4, SetSchedulerStep
    <3> QED
      BY <2>4, <3>1 DEF SetScheduler, List!listVars
  <2>5. CASE WidthsLast /\ \E e \in Contents(kind, sched) : RemoveEvent(e)
    BY <1>2, <1>3, <2>5 DEF List!Next
  <2> QED
    BY <1>3, <2>1, <2>2, <2>3, <2>4, <2>5 DEF Next
<1>4. ASSUME SchedulersInv, [Next]_vars, [WidthsLast]_vars
      PROVE  [AsListed]_vars
  <2>1. CASE UNCHANGED vars
    BY <2>1
  <2>2. CASE WidthsLast
    <3>1. ASSUME kind' # kind PROVE UNCHANGED Contents(kind, sched)
      <4>1. SetScheduler
        BY <1>4, <3>1 DEF Next, Insert, RemoveNext, RemoveEvent, vars
      <4> QED
        BY <1>4, <2>2, <4>1, SetSchedulerStep
    <3> QED
      BY <1>2, <1>4, <2>2, <3>1
  <2> QED
    BY <1>4, <2>1, <2>2
<1>5. Spec /\ [][WidthsLast]_vars => []SchedulersInv
  BY SchedulersInvariant
<1>6. Spec /\ [][WidthsLast]_vars => List!Spec
  BY <1>1, <1>3, <1>5, PTL DEF Spec, List!Spec
<1>7. Spec /\ [][WidthsLast]_vars => [][AsListed]_vars
  <2> HIDE DEF AsListed
  <2> QED
    BY <1>4, <1>5, PTL DEF Spec
<1> QED
  BY <1>6, <1>7 DEF ListKept

\* Delays of less than a third of 2^32 never make a calendar's width 0, whatever
\* is scheduled, run and removed: the program does not divide by zero.
THEOREM ShortDelaysKeepWidths ==
  ASSUME HeapsAreSmall, DelaysAreShort
  PROVE  Spec => [][WidthsLast]_vars
<1>1. Init => Soon
  <2> SUFFICES ASSUME Init PROVE Soon
    OBVIOUS
  <2>1. Contents(kind, sched) = {}
    BY KindsKnown, EmptySound DEF Init
  <2> QED
    BY <2>1 DEF Soon, DelaysAreShort
<1>2. SchedulersInv /\ Soon /\ [Next]_vars => [WidthsLast]_vars /\ SchedulersInv' /\ Soon'
  BY ShortDelaysStep
<1> HIDE DEF WidthsLast
<1> QED
  BY <1>1, <1>2, SchedulersInvInit, PTL DEF Spec

\* Every behaviour of such delays has the structure, the answers of PeekNext and
\* the events of EventList.
THEOREM ShortDelays ==
  ASSUME HeapsAreSmall, DelaysAreShort
  PROVE  Spec => [](InOrder /\ EarlyPeekIsNext) /\ ListKept /\ NextIsEarliest
<1>1. Spec => []InOrder /\ []EarlyPeekIsNext /\ ListKept /\ NextIsEarliest
  BY ShortDelaysKeepWidths, StructureKept, EarlyPeeks, SchedulersImplementEventList, NextEarliest
<1> QED
  BY <1>1, PTL
=============================================================================
