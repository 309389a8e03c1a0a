----------------------------- MODULE Schedulers -----------------------------
(***************************************************************************)
(* The event list of the simulator as one of the schedulers keeps it: a    *)
(* sorted list, a heap or a calendar queue, which SetScheduler exchanges   *)
(* while events are pending.  MapScheduler is EventList itself.            *)
(***************************************************************************)
EXTENDS HeapScheduler, CalendarScheduler

CONSTANTS
  Kinds,        \* the schedulers in use: some of "list", "heap", "calendar"
  Delays,       \* delays events are scheduled with
  RemoveLimit,  \* RemoveLimit[k]: Remove is called on a scheduler of kind k
                \* only while it holds at most that many events
  MaxUid,       \* model bound on the uids given
  MaxPending    \* model bound on the events in the list

ASSUME SchedulersAssumption ==
  /\ Kinds \subseteq {"list", "heap", "calendar"}
  /\ Delays \subseteq Nat /\ RemoveLimit \in [Kinds -> Nat]
  /\ MaxBuckets \in Nat /\ Modulus \in Nat \ {0}
  /\ MaxUid \in Nat /\ MaxPending \in Nat \ {0}

VARIABLES
  kind,   \* which scheduler m_events is
  sched,  \* its events: a sorted sequence, the array of a heap, a calendar
  now,    \* time of the last event run; nothing is scheduled before it
  uid,    \* the next uid
  next    \* what the last RemoveNext returned

vars == <<kind, sched, now, uid, next>>

Contents(k, s) == IF k = "calendar" THEN Listed(s) ELSE ToSet(s)

List == INSTANCE EventList WITH pending <- Contents(kind, sched)

----------------------------------------------------------------------------
(* The interface of Scheduler.                                             *)

Empty(k) == IF k = "calendar" THEN Emptied(2, 1, 0) ELSE <<>>

WithEvent(k, s, e) ==
  CASE k = "list" -> Inserted(s, e)
    [] k = "heap" -> HeapInsert(s, e)
    [] k = "calendar" -> CalendarInsert(s, e)

NextEvent(k, s) == IF k = "calendar" THEN NextKey(s) ELSE Head(s)

WithoutNext(k, s) ==
  CASE k = "list" -> Tail(s)
    [] k = "heap" -> HeapWithout(s, 1)
    [] k = "calendar" -> CalendarRemoveNext(s)

WithoutEvent(k, s, e) ==
  CASE k = "list" -> RemoveAt(s, Position(s, e))
    [] k = "heap" -> HeapWithout(s, Position(s, e))
    [] k = "calendar" -> CalendarRemove(s, e)

\* SetScheduler: the events of s, one RemoveNext after the other, are inserted
\* into a new scheduler of kind l.  A turn of the loop, what the old scheduler
\* and the new one hold after each of them, and the new one in the end.
Moved(k, l, p) ==
  [old |-> WithoutNext(k, p.old), new |-> WithEvent(l, p.new, NextEvent(k, p.old))]
Moves(k, s, l) ==
  LET move[i \in 0..Cardinality(Contents(k, s))] ==
        IF i = 0 THEN [old |-> s, new |-> Empty(l)] ELSE Moved(k, l, move[i - 1])
  IN  move
\* Mutant: the last event is left in the old one.
TransferredShort(k, s, l) ==
  LET n == Cardinality(Contents(k, s))
  IN  Moves(k, s, l)[IF n > 1 THEN n - 1 ELSE n].new
Transferred(k, s, l) == Moves(k, s, l)[Cardinality(Contents(k, s))].new

----------------------------------------------------------------------------
(* Steps: the calls of the simulator.                                      *)

Init ==
  /\ kind \in Kinds /\ sched = Empty(kind)
  /\ now = 0
  /\ uid = 1
  /\ next = List!Nothing

Insert ==
  /\ List!NextUid
  /\ Cardinality(Contents(kind, sched)) < MaxPending
  /\ \E d \in Delays : sched' = WithEvent(kind, sched, List!Scheduled(d))
  /\ UNCHANGED <<kind, now, next>>

RemoveNext ==
  /\ Contents(kind, sched) # {}
  /\ next' = NextEvent(kind, sched) /\ now' = next'.ts
  /\ sched' = WithoutNext(kind, sched)
  /\ UNCHANGED <<kind, uid>>

RemoveEvent(e) ==
  /\ UNCHANGED <<kind, now, uid, next>>
  /\ Cardinality(Contents(kind, sched)) <= RemoveLimit[kind]
  /\ sched' = WithoutEvent(kind, sched, e)

SetScheduler ==
  /\ kind' \in Kinds \ {kind} /\ sched' = Transferred(kind, sched, kind')
  /\ UNCHANGED <<now, uid, next>>

Next ==
  \/ Insert \/ RemoveNext \/ SetScheduler
  \/ \E e \in Contents(kind, sched) : RemoveEvent(e)

Spec == Init /\ [][Next]_vars

----------------------------------------------------------------------------
(* Properties.                                                             *)

\* The structure each scheduler relies on survives every operation: the list is
\* sorted, the heap is one, the calendar's buckets, day and size fit each other.
InOrder ==
  /\ kind = "list" => \A i, j \in DOMAIN sched : i < j => Earlier(sched[i], sched[j])
  /\ kind = "heap" => IsHeap(sched)
  /\ kind = "calendar" => IsCalendar(sched)

\* Every scheduler implements EventList: each call adds or takes away the one
\* event it should, RemoveNext the earliest of all, events of one time in the
\* order they were scheduled in, and SetScheduler goes unnoticed.
ListKept ==
  /\ List!Spec
  /\ [][/\ kind' # kind => UNCHANGED Contents(kind, sched)
        /\ \A e \in Contents(kind, sched) :
             RemoveEvent(e) => List!RemoveEvent(e)]_vars

\* PeekNext of the calendar returns what RemoveNext is going to, for events of
\* the first 2^32 - 1 units of time (its search starts from that).
EarlyPeekIsNext ==
  kind = "calendar" /\ sched.qSize > 0 /\ NextKey(sched).ts < Modulus - 1 =>
    PeekNext(sched) = NextKey(sched)

\* scheduler.h: RemoveNext is to "Remove the next earliest event from the event
\* list", whatever Remove was called for before.
NextIsEarliest ==
  [][RemoveNext =>
       \A e \in Contents(kind, sched) \ {next'} : Earlier(next', e)]_vars
============================================================================
