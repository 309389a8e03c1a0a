------------------------- MODULE CalendarScheduler -------------------------
(***************************************************************************)
(* CalendarScheduler: a calendar queue.  Time is cut into days of m_width; *)
(* the events of a day are in one of m_nBuckets sorted lists, and the days *)
(* are dealt out to the buckets in turn.  The search for the next event    *)
(* goes round the buckets from the day of the last one.  A calendar is a   *)
(* record of the members of the class.                                     *)
(***************************************************************************)
EXTENDS EventKeys, SequencesExt

CONSTANTS
  MaxBuckets,  \* 32768: no more buckets than that
  Modulus      \* 2^32: width and uid of an event are uint32_t

Listed(c) == UNION {ToSet(c.buckets[b]) : b \in DOMAIN c.buckets}
NumBuckets(c) == Cardinality(DOMAIN c.buckets)
Hash(c, ts) == (ts \div c.width) % NumBuckets(c)

\* Init (n, w, prio): the calendar stands at the day of prio.
Emptied(n, w, prio) ==
  [buckets |-> [b \in 0..n - 1 |-> <<>>], width |-> w,
   lastPrio |-> prio, lastBucket |-> (prio \div w) % n,
   bucketTop |-> (prio \div w + 1) * w, qSize |-> 0]

DoInsert(c, k) == [c EXCEPT !.buckets[Hash(c, k.ts)] = Inserted(@, k)]

----------------------------------------------------------------------------
(* The search: step j looks at bucket At (c, j), for a day ending at       *)
(* Top (c, j).                                                             *)

At(c, j) == (c.lastBucket + j) % NumBuckets(c)
Top(c, j) == c.bucketTop + j * c.width

First(c, b) == Head(c.buckets[b])
Filled(c) == {b \in DOMAIN c.buckets : c.buckets[b] # <<>>}

\* The steps that find an event of the day they look for.
Hits(c) ==
  {j \in 0..NumBuckets(c) - 1 :
     At(c, j) \in Filled(c) /\ First(c, At(c, j)).ts < Top(c, j)}
FirstHit(c) == CHOOSE j \in Hits(c) : \A h \in Hits(c) : j <= h

Earliest(keys) == CHOOSE k \in keys : \A l \in keys : l = k \/ Earlier(k, l)

\* Without a hit in a whole year, the earliest of the first events.  PeekNext
\* looks for it from the key Unset, and returns that if no event is earlier.
\* Mutant: from the least key.
UnsetZero == [ts |-> 0, uid |-> 0]
Unset == [ts |-> Modulus - 1, uid |-> Modulus - 1]
NextKey(c) ==
  IF Hits(c) # {} THEN First(c, At(c, FirstHit(c)))
  ELSE Earliest({First(c, b) : b \in Filled(c)})
PeekNext(c) ==
  IF Hits(c) # {} THEN First(c, At(c, FirstHit(c)))
  ELSE Earliest({First(c, b) : b \in Filled(c)} \cup {Unset})

\* DoRemoveNext: the calendar moves on to the day of the event.
Taken(c) ==
  LET k == NextKey(c)
      j == FirstHit(c)
  IN  IF Hits(c) # {}
      THEN [c EXCEPT !.lastPrio = k.ts, !.buckets[At(c, j)] = Tail(@),
                     !.lastBucket = At(c, j), !.bucketTop = Top(c, j)]
      ELSE [c EXCEPT !.lastPrio = k.ts, !.buckets[Hash(c, k.ts)] = Tail(@),
                     !.lastBucket = Hash(c, k.ts),
                     !.bucketTop = (k.ts \div c.width + 1) * c.width]

----------------------------------------------------------------------------
(* Resizing: the new width is three times the distance of the first events *)
(* put together, leaving out the distances of more than twice the mean.    *)
(* It is cut to 32 bits; a width of 0, for a distance that is a multiple   *)
(* of 2^32, would end the program with a division by zero.                 *)

Total(f) ==
  LET sum[i \in 0..Len(f)] == IF i = 0 THEN 0 ELSE sum[i - 1] + f[i]
  IN  sum[Len(f)]

NumSamples(q) == IF q <= 5 THEN q ELSE IF 5 + q \div 10 > 25 THEN 25 ELSE 5 + q \div 10

\* Times of the n events that DoRemoveNext finds next; they are put back into
\* their buckets, and the day is restored.
Samples(c, n) ==
  LET after[i \in 0..n] == IF i = 0 THEN c ELSE Taken(after[i - 1])
  IN  [i \in 1..n |-> NextKey(after[i - 1]).ts]

CalculateNewWidth(c) ==
  LET n == NumSamples(c.qSize)
      ts == Samples(c, n)
      distance == [i \in 1..n - 1 |-> ts[i + 1] - ts[i]]
      twice == (Total(distance) \div (n - 1)) * 2
      near == Total([i \in 1..n - 1 |-> IF distance[i] <= twice THEN distance[i] ELSE 0])
  IN  IF c.qSize < 2 THEN 1 ELSE (IF near = 0 THEN 1 ELSE 3 * near) % Modulus

\* Every event is inserted again, into n buckets.
Resize(c, n) ==
  LET new == Emptied(n, CalculateNewWidth(c), c.lastPrio) IN
  [new EXCEPT !.qSize = c.qSize,
     !.buckets = [b \in 0..n - 1 |->
                    Sorted({k \in Listed(c) : Hash(new, k.ts) = b})]]

Grown(c) ==
  IF c.qSize > NumBuckets(c) * 2 /\ NumBuckets(c) < MaxBuckets
  THEN Resize(c, NumBuckets(c) * 2) ELSE c
Shrunk(c) ==
  IF c.qSize < NumBuckets(c) \div 2 THEN Resize(c, NumBuckets(c) \div 2) ELSE c

----------------------------------------------------------------------------
(* The operations.                                                         *)

CalendarInsert(c, k) == Grown([DoInsert(c, k) EXCEPT !.qSize = @ + 1])

CalendarRemoveNext(c) == Shrunk([Taken(c) EXCEPT !.qSize = @ - 1])

CalendarRemove(c, k) ==
  Shrunk([c EXCEPT !.qSize = @ - 1,
                   !.buckets[Hash(c, k.ts)] = RemoveAt(@, Position(@, k))])

\* Every event is in the bucket of its day, the buckets are sorted, m_qSize
\* counts them, no event is earlier than the last one, and the search starts
\* on that one's day.
IsCalendar(c) ==
  /\ \A b \in DOMAIN c.buckets : \A i \in DOMAIN c.buckets[b] :
       LET k == c.buckets[b][i] IN
       /\ Hash(c, k.ts) = b /\ k.ts >= c.lastPrio
       /\ i > 1 => Earlier(c.buckets[b][i - 1], k)
  /\ c.qSize = Cardinality(Listed(c))
  /\ c.lastBucket = Hash(c, c.lastPrio)
  /\ c.bucketTop = (c.lastPrio \div c.width + 1) * c.width
============================================================================
