--------------------------- MODULE HeapScheduler ---------------------------
(***************************************************************************)
(* HeapScheduler: the events in an array that is a binary heap.  The array *)
(* starts at index 1, so h[i] is m_heap[i]; m_heap[0] is never used.       *)
(***************************************************************************)
EXTENDS EventKeys, SequencesExt

Exch(h, a, b) == [h EXCEPT ![a] = h[b], ![b] = h[a]]

Less(h, a, b) == Earlier(h[a], h[b])

\* BottomUp: the last element is exchanged with its parents as long as it is
\* less.  A turn of the loop, with the element at s.at; Len (h) turns are
\* more than enough to end it.
Rise(s) ==
  IF s.at = 1 \/ ~Less(s.heap, s.at, s.at \div 2) THEN s
  ELSE [at |-> s.at \div 2, heap |-> Exch(s.heap, s.at, s.at \div 2)]
\* Mutant: it is exchanged with its parent only.
RaisedOnce(h) == Rise([at |-> Len(h), heap |-> h]).heap
Raised(h) ==
  LET up[n \in 0..Len(h)] == IF n = 0 THEN [at |-> Len(h), heap |-> h]
                             ELSE Rise(up[n - 1])
  IN  up[Len(h)].heap

\* The children of i, and the smaller one of them.
Children(h, i) == {2 * i, 2 * i + 1} \cap DOMAIN h
Smallest(h, i) ==
  CHOOSE c \in Children(h, i) : \A d \in Children(h, i) : ~Less(h, d, c)

\* TopDown: element start is exchanged with its smaller child as long as it is
\* not less.
Sink(s) ==
  IF \/ Children(s.heap, s.at) = {}
     \/ Less(s.heap, s.at, Smallest(s.heap, s.at))
  THEN s
  ELSE [at   |-> Smallest(s.heap, s.at),
        heap |-> Exch(s.heap, s.at, Smallest(s.heap, s.at))]
Sunk(h, start) ==
  LET down[n \in 0..Len(h)] == IF n = 0 THEN [at |-> start, heap |-> h]
                               ELSE Sink(down[n - 1])
  IN  down[Len(h)].heap

HeapInsert(h, k) == Raised(Append(h, k))

\* RemoveNext (i = 1) and Remove: the last element takes the place of element
\* i and sinks; it is never raised.
HeapWithout(h, i) == Sunk(Front(Exch(h, i, Len(h))), i)

\* No element is less than its parent.
IsHeap(h) == \A i \in 2..Len(h) : ~Less(h, i, i \div 2)
============================================================================
