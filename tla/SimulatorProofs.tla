-------------------------- MODULE SimulatorProofs --------------------------
(***************************************************************************)
(* Theorems about Simulator, for any delays and however many events are    *)
(* scheduled or handed over.                                               *)
(***************************************************************************)
EXTENDS Simulator, FunctionTheorems, FiniteSetTheorems, TLAPS

\* Every uid in use is below m_uid, and the events have one of their own.
Fresh ==
  /\ FirstUid <= uid /\ currentUid < uid
  /\ \A k \in events : FirstUid <= k.uid /\ k.uid < uid
  /\ \A id \in ids :
       /\ id.event < uid
       /\ id.uid = DestroyUid \/ (id.uid = id.event /\ FirstUid <= id.uid)

\* The events to come are later than the one that is running or ran last.
NotPast == \A k \in events : Earlier([ts |-> now, uid |-> currentUid], k)

(* Counted and LiveIdsListed depend on each other: the event that Remove   *)
(* takes out is counted down once only if it is in the list.               *)
SimInv ==
  /\ TypeOK /\ Fresh /\ NotPast
  /\ IsFiniteSet(events) /\ Counted
  /\ LiveIdsListed

\* The simulator starts with an empty list and no id given out.
LEMMA SimInit == Init => SimInv
<1> SUFFICES ASSUME Init PROVE SimInv
  OBVIOUS
<1>1. IsFiniteSet(events) /\ Cardinality(events) = 0
  BY FS_EmptySet DEF Init
<1>2. TypeOK
  <2>1. handed \in Seq(Delays) /\ batch \in Seq(Delays)
    BY DEF Init
  <2>2. /\ events \subseteq Key /\ ids \subseteq EventId /\ destroy \subseteq EventId
        /\ cancelled \subseteq Nat
    BY DEF Init
  <2>3. unscheduled \in Nat /\ now \in Nat /\ currentUid \in Nat /\ uid \in Nat
    BY DEF Init, FirstUid
  <2>4. stop \in BOOLEAN /\ handedEmpty \in BOOLEAN
    BY DEF Init
  <2> QED
    BY <2>1, <2>2, <2>3, <2>4 DEF Init, TypeOK
<1>3. Fresh /\ NotPast /\ LiveIdsListed
  BY DEF Init, Fresh, NotPast, LiveIdsListed, FirstUid
<1> QED
  BY <1>1, <1>2, <1>3 DEF SimInv, Counted, Init

\* A step that leaves the list, the ids and the clock alone.
LEMMA SimElsewhere ==
  ASSUME SimInv, TypeOK', UNCHANGED <<events, unscheduled, cancelled, ids, clock, uid>>,
         pc' # "destroyed" => pc # "destroyed"
  PROVE  SimInv'
BY DEF SimInv, Fresh, NotPast, Counted, LiveIdsListed, IsExpired, KeyOf, Earlier,
       clock

\* Schedule and ScheduleNow.
LEMMA ScheduleStep == ASSUME SimInv, Schedule PROVE SimInv'
<1>1. PICK d \in Delays \cup {0} :
        /\ events' = events \cup {[ts |-> now + d, uid |-> uid]}
        /\ ids' = ids \cup {[ts |-> now + d, uid |-> uid, event |-> uid]}
  BY DEF Schedule
<1> DEFINE k == [ts |-> now + d, uid |-> uid]
           i == [ts |-> now + d, uid |-> uid, event |-> uid]
<1>2. /\ uid' = uid + 1 /\ unscheduled' = unscheduled + 1
      /\ UNCHANGED <<pc, destroy, cancelled, stop, clock, shared, batch>>
      /\ pc # "destroyed"
  BY DEF Schedule, TakeUid, InProgram
<1>3. d \in Nat /\ uid \in Nat /\ now \in Nat /\ currentUid \in Nat /\ unscheduled \in Nat
  BY SimulatorAssumption DEF SimInv, TypeOK
<1>4. k \in Key /\ i \in EventId /\ k.uid = uid /\ k.ts = now + d
      /\ i.uid = uid /\ i.event = uid /\ KeyOf(i) = k
  BY <1>3 DEF Key, EventId, KeyOf
<1>5. TypeOK'
  BY <1>1, <1>2, <1>3, <1>4 DEF SimInv, TypeOK, clock, shared
<1>6. Fresh'
  BY <1>1, <1>2, <1>3, <1>4 DEF SimInv, TypeOK, Fresh, clock, Key, EventId, FirstUid, DestroyUid
<1>7. NotPast'
  BY <1>1, <1>2, <1>3, <1>4 DEF SimInv, Fresh, NotPast, Earlier, clock
<1>8. IsFiniteSet(events') /\ Cardinality(events') = Cardinality(events) + 1
  <2>1. k \notin events
    BY <1>3, <1>4 DEF SimInv, Fresh
  <2> QED
    BY <1>1, <2>1, FS_AddElement DEF SimInv
<1>9. LiveIdsListed'
  BY <1>1, <1>2, <1>4 DEF SimInv, LiveIdsListed, IsExpired, KeyOf, clock
<1> QED
  BY <1>2, <1>5, <1>6, <1>7, <1>8, <1>9 DEF SimInv, Counted

\* ScheduleDestroy: its id is none of the list.
LEMMA ScheduleDestroyStep == ASSUME SimInv, ScheduleDestroy PROVE SimInv'
<1> DEFINE i == [ts |-> now, uid |-> DestroyUid, event |-> uid]
<1>1. /\ uid' = uid + 1 /\ destroy' = destroy \cup {i} /\ ids' = ids \cup {i}
      /\ UNCHANGED <<pc, events, unscheduled, cancelled, stop, clock, shared, batch>>
  BY DEF ScheduleDestroy, TakeUid
<1>2. uid \in Nat /\ now \in Nat /\ currentUid \in Nat
  BY DEF SimInv, TypeOK
<1>3. i \in EventId /\ i.uid = DestroyUid /\ i.event = uid
  BY <1>2 DEF EventId, DestroyUid
<1>4. TypeOK'
  BY <1>1, <1>2, <1>3 DEF SimInv, TypeOK, clock, shared
<1>5. Fresh'
  BY <1>1, <1>2, <1>3 DEF SimInv, TypeOK, Fresh, clock, Key, EventId, FirstUid, DestroyUid
<1>6. NotPast' /\ LiveIdsListed'
  BY <1>1, <1>3 DEF SimInv, NotPast, LiveIdsListed, IsExpired, KeyOf, clock, Earlier
<1> QED
  BY <1>1, <1>4, <1>5, <1>6 DEF SimInv, Counted

\* Remove of an event that has not expired: it is in the list, once.
LEMMA RemoveStep == ASSUME SimInv, Remove PROVE SimInv'
<1>1. PICK id \in ids :
        IF id.uid = DestroyUid THEN RemoveDestroy(id) ELSE RemoveEvent(id)
  BY DEF Remove
<1>2. UNCHANGED <<pc, stop, clock, uid, shared, batch, ids>> /\ pc # "destroyed"
  BY DEF Remove, InProgram
<1>3. CASE id.uid = DestroyUid
  <2>1. destroy' = destroy \ {id} /\ UNCHANGED <<events, unscheduled, cancelled>>
    BY <1>1, <1>3 DEF RemoveDestroy
  <2>2. TypeOK' /\ Fresh' /\ NotPast'
    BY <1>2, <2>1 DEF SimInv, TypeOK, Fresh, NotPast, Earlier, clock, shared
  <2>3. LiveIdsListed'
    BY <1>2, <2>1 DEF SimInv, LiveIdsListed, IsExpired, KeyOf, clock
  <2> QED
    BY <1>2, <2>1, <2>2, <2>3 DEF SimInv, Counted
<1>4. CASE id.uid # DestroyUid
  <2> DEFINE k == KeyOf(id)
  <2>1. /\ ~IsExpired(id)
        /\ events' = events \ {k} /\ cancelled' = cancelled \cup {id.event}
        /\ unscheduled' = unscheduled - 1 /\ UNCHANGED destroy
    BY <1>1, <1>4 DEF RemoveEvent
  <2>2. k \in events
    BY <1>2, <1>4, <2>1 DEF SimInv, LiveIdsListed
  <2>3. IsFiniteSet(events') /\ Cardinality(events') = Cardinality(events) - 1
    BY <2>1, <2>2, FS_RemoveElement DEF SimInv
  <2>4. Cardinality(events') \in Nat /\ unscheduled = Cardinality(events)
    BY <1>2, <2>3, FS_CardinalityType DEF SimInv, Counted
  <2>5. id \in EventId /\ id.event \in Nat
    BY DEF SimInv, TypeOK, EventId
  <2>6. TypeOK'
    BY <1>2, <2>1, <2>3, <2>4, <2>5 DEF SimInv, TypeOK, clock, shared
  <2>7. Fresh' /\ NotPast'
    BY <1>2, <2>1 DEF SimInv, Fresh, NotPast, Earlier, clock
  <2>8. LiveIdsListed'
    <3> SUFFICES ASSUME NEW j \in ids, j.uid # DestroyUid, ~IsExpired(j)'
                 PROVE  KeyOf(j) \in events'
      BY <1>2 DEF LiveIdsListed, KeyOf
    <3>1. ~IsExpired(j) /\ j.event # id.event
      BY <1>2, <2>1 DEF IsExpired, clock
    <3>2. KeyOf(j) \in events
      BY <1>2, <3>1 DEF SimInv, LiveIdsListed
    <3>3. j.uid # id.uid
      BY <1>4, <3>1 DEF SimInv, Fresh
    <3> QED
      BY <2>1, <3>2, <3>3 DEF KeyOf
  <2> QED
    BY <1>2, <2>1, <2>3, <2>4, <2>6, <2>7, <2>8 DEF SimInv, Counted
<1> QED
  BY <1>3, <1>4

\* Cancel leaves the event in the list.
LEMMA CancelStep == ASSUME SimInv, Cancel PROVE SimInv'
<1>1. PICK id \in ids : cancelled' = cancelled \cup {id.event}
  BY DEF Cancel
<1>2. /\ UNCHANGED <<pc, events, unscheduled, destroy, stop, clock, uid, shared, batch, ids>>
  BY DEF Cancel
<1>3. id \in EventId /\ id.event \in Nat
  BY DEF SimInv, TypeOK, EventId
<1>4. TypeOK' /\ Fresh' /\ NotPast'
  BY <1>1, <1>2, <1>3 DEF SimInv, TypeOK, Fresh, NotPast, Earlier, clock, shared
<1>5. LiveIdsListed'
  BY <1>1, <1>2 DEF SimInv, LiveIdsListed, IsExpired, KeyOf, clock
<1> QED
  BY <1>2, <1>4, <1>5 DEF SimInv, Counted

\* ProcessEventsWithContext inserts its events under the next uids.
LEMMA InsertBatchStep == ASSUME SimInv, InsertBatch PROVE SimInv'
<1> DEFINE n == Len(batch)
           key == [k \in 1..n |-> [ts |-> now + batch[k], uid |-> uid + k - 1]]
           new == {key[k] : k \in 1..n}
<1>1. /\ uid' = uid + n /\ unscheduled' = unscheduled + n /\ batch' = <<>>
      /\ pc = "insert" /\ pc' = "loop"
      /\ UNCHANGED <<destroy, cancelled, stop, clock, shared, ids>>
  BY DEF InsertBatch
<1>2. n \in Nat /\ DOMAIN batch = 1..n /\ batch \in Seq(Delays)
  BY DEF SimInv, TypeOK
<1>3. /\ uid \in Nat /\ now \in Nat /\ currentUid \in Nat /\ unscheduled \in Nat
      /\ FirstUid <= uid /\ currentUid < uid
  BY DEF SimInv, TypeOK, Fresh
<1>4. events' = events \cup new
  BY <1>2 DEF InsertBatch
<1>5. \A k \in 1..n : /\ key[k] \in Key /\ key[k].uid = uid + k - 1
                      /\ now <= key[k].ts
                      /\ uid <= key[k].uid /\ key[k].uid < uid + n
  <2> TAKE k \in 1..n
  <2>1. batch[k] \in Delays /\ batch[k] \in Nat
    <3>1. batch[k] \in Delays
      BY <1>2
    <3> QED
      BY <3>1, SimulatorAssumption
  <2>2. key[k] = [ts |-> now + batch[k], uid |-> uid + k - 1]
    OBVIOUS
  <2> QED
    BY <1>2, <1>3, <2>1, <2>2 DEF Key
<1> HIDE DEF key
<1>6. TypeOK'
  <2>1. events' \subseteq Key /\ uid' \in Nat /\ unscheduled' \in Nat /\ batch' \in Seq(Delays)
    BY <1>1, <1>2, <1>3, <1>4, <1>5 DEF SimInv, TypeOK
  <2> QED
    BY <1>1, <2>1 DEF SimInv, TypeOK, clock, shared
<1>7. Fresh'
  <2>1. \A k \in events' : FirstUid <= k.uid /\ k.uid < uid'
    BY <1>1, <1>2, <1>3, <1>4, <1>5 DEF SimInv, TypeOK, Fresh, Key, FirstUid
  <2>2. \A i \in ids : i.event < uid'
    BY <1>1, <1>2, <1>3 DEF SimInv, TypeOK, Fresh, EventId
  <2> QED
    BY <1>1, <1>2, <1>3, <2>1, <2>2 DEF SimInv, Fresh, clock, FirstUid
<1>8. NotPast'
  <2>1. \A k \in 1..n : now < key[k].ts \/ (now = key[k].ts /\ currentUid < key[k].uid)
    BY <1>3, <1>5 DEF Key
  <2> QED
    BY <1>1, <1>4, <2>1 DEF SimInv, NotPast, Earlier, clock
<1>9. IsFiniteSet(new) /\ Cardinality(new) = n
  <2>1. key \in Bijection(1..n, new)
    <3>1. key \in [1..n -> new]
      BY DEF key
    <3>2. \A i, j \in 1..n : key[i] = key[j] => i = j
      BY <1>2, <1>3, <1>5
    <3> QED
      BY <3>1, <3>2, Fun_IsBij
  <2>2. IsFiniteSet(1..n) /\ Cardinality(1..n) = n
    BY <1>2, FS_Interval, SMTT(30)
  <2>3. ExistsBijection(1..n, new)
    BY <2>1 DEF ExistsBijection
  <2> QED
    BY <2>2, <2>3, FS_Bijection
<1>10. IsFiniteSet(events') /\ Cardinality(events') = Cardinality(events) + n
  <2>1. events \cap new = {}
    BY <1>3, <1>5 DEF SimInv, Fresh, TypeOK, Key
  <2>2. Cardinality({}) = 0 /\ Cardinality(events) \in Nat
    BY FS_EmptySet, FS_CardinalityType DEF SimInv
  <2>3. /\ IsFiniteSet(events \cup new)
        /\ Cardinality(events \cup new)
             = Cardinality(events) + Cardinality(new) - Cardinality(events \cap new)
    BY <1>9, FS_Union DEF SimInv
  <2>4. Cardinality(events \cap new) = 0
    BY <2>1, <2>2
  <2> HIDE DEF new
  <2> QED
    BY <1>2, <1>4, <1>9, <2>2, <2>3, <2>4
<1>11. LiveIdsListed'
  BY <1>1, <1>4 DEF SimInv, LiveIdsListed, IsExpired, KeyOf, clock
<1> QED
  BY <1>1, <1>6, <1>7, <1>8, <1>10, <1>11 DEF SimInv, Counted

\* The event taken out is the earliest: every id that is still good names
\* another one.
LEMMA ProcessStep == ASSUME SimInv, ProcessOneEvent PROVE SimInv'
<1>1. PICK k \in events :
        /\ \A l \in events \ {k} : Earlier(k, l)
        /\ events' = events \ {k}
        /\ now' = k.ts /\ currentUid' = k.uid
        /\ pc' = IF k.uid \in cancelled THEN "poll" ELSE "event"
  BY DEF ProcessOneEvent
<1>2. /\ unscheduled' = unscheduled - 1 /\ pc = "loop"
      /\ UNCHANGED <<destroy, cancelled, stop, uid, shared, batch, ids>>
  BY DEF ProcessOneEvent
<1>3. /\ k \in Key /\ k.ts \in Nat /\ k.uid \in Nat /\ k.uid < uid
      /\ now \in Nat /\ currentUid \in Nat
      /\ Earlier([ts |-> now, uid |-> currentUid], k)
  BY DEF SimInv, TypeOK, Fresh, NotPast, Key
<1>4. IsFiniteSet(events') /\ Cardinality(events') = Cardinality(events) - 1
  BY <1>1, FS_RemoveElement DEF SimInv
<1>5. Cardinality(events') \in Nat /\ unscheduled = Cardinality(events)
  BY <1>2, <1>4, FS_CardinalityType DEF SimInv, Counted
<1>6. TypeOK'
  BY <1>1, <1>2, <1>3, <1>4, <1>5 DEF SimInv, TypeOK, shared
<1>7. Fresh'
  BY <1>1, <1>2, <1>3 DEF SimInv, Fresh
<1>8. NotPast'
  BY <1>1, <1>3 DEF NotPast, Earlier
<1>9. LiveIdsListed'
  <2> SUFFICES ASSUME NEW j \in ids, j.uid # DestroyUid, ~IsExpired(j)'
               PROVE  KeyOf(j) \in events'
    BY <1>2 DEF LiveIdsListed, KeyOf
  <2>1. j \in EventId /\ j.ts \in Nat /\ j.uid \in Nat
    BY DEF SimInv, TypeOK, EventId
  <2>2. /\ j.event \notin cancelled
        /\ ~(j.ts < k.ts \/ (j.ts = k.ts /\ j.uid <= k.uid))
    BY <1>1, <1>2 DEF IsExpired
  <2>3. ~IsExpired(j)
    BY <1>3, <2>1, <2>2 DEF IsExpired, Earlier
  <2>4. KeyOf(j) \in events
    BY <1>2, <2>3 DEF SimInv, LiveIdsListed
  <2>5. KeyOf(j) # k
    BY <1>3, <2>1, <2>2 DEF KeyOf
  <2> QED
    BY <1>1, <2>4, <2>5
<1> QED
  BY <1>2, <1>4, <1>5, <1>6, <1>7, <1>8, <1>9 DEF SimInv, Counted

\* Steps of the loop and of the other thread that touch no event.
LEMMA LoopStep ==
  ASSUME SimInv, Stop \/ Run \/ Poll \/ Swap \/ EventReturns \/ Return \/ HandOver \/ Destroy
  PROVE  SimInv'
<1> DEFINE NotDestroyed == {"out", "poll", "swap", "insert", "loop", "event",
                            "destroying", "destroyEvent"}
<1>1. UNCHANGED <<events, unscheduled, destroy, cancelled, ids, clock, uid>>
  BY DEF Stop, Run, Poll, Swap, EventReturns, Return, HandOver, Destroy, queues
<1>2. pc # "destroyed"
  BY DEF Stop, Run, Poll, Swap, EventReturns, Return, HandOver, Destroy, InProgram
<1>3. /\ pc' \in NotDestroyed
      /\ stop' \in BOOLEAN /\ handedEmpty' \in BOOLEAN
  <2>1. pc' \in NotDestroyed
    BY <1>2 DEF Stop, Run, Poll, Swap, EventReturns, Return, HandOver, Destroy, SimInv, TypeOK
  <2>2. stop' \in {TRUE, FALSE, stop} /\ handedEmpty' \in {TRUE, FALSE, handedEmpty}
    BY DEF Stop, Run, Poll, Swap, EventReturns, Return, HandOver, Destroy, shared
  <2>3. stop \in BOOLEAN /\ handedEmpty \in BOOLEAN
    BY DEF SimInv, TypeOK
  <2> QED
    BY <2>1, <2>2, <2>3
<1>4. handed' \in Seq(Delays) /\ batch' \in Seq(Delays)
  <2>1. CASE HandOver
    BY <2>1 DEF HandOver, SimInv, TypeOK
  <2>2. CASE Swap
    BY <2>2 DEF Swap, SimInv, TypeOK
  <2>3. CASE UNCHANGED <<handed, batch>>
    BY <2>3 DEF SimInv, TypeOK
  <2> QED
    BY <2>1, <2>2, <2>3 DEF Stop, Run, Poll, EventReturns, Return, Destroy, shared
<1>5. TypeOK'
  BY <1>1, <1>3, <1>4 DEF SimInv, TypeOK, clock
<1> QED
  BY <1>1, <1>2, <1>5, SimElsewhere

\* A destroy event is taken out of a list of its own.
LEMMA DestroyStep == ASSUME SimInv, DestroyOneEvent PROVE SimInv'
<1>1. /\ UNCHANGED <<events, unscheduled, cancelled, stop, clock, uid, shared, batch, ids>>
      /\ pc = "destroying" /\ pc' \in {"destroying", "destroyEvent"}
      /\ destroy' \subseteq destroy
  BY DEF DestroyOneEvent
<1>2. TypeOK'
  BY <1>1 DEF SimInv, TypeOK, clock, shared
<1> QED
  BY <1>1, <1>2, SimElsewhere

\* Once it is disposed of, nothing is asked of the simulator any more.
LEMMA DisposeStep == ASSUME SimInv, Dispose PROVE SimInv'
<1>1. /\ pc' = "destroyed" /\ events' = {}
      /\ UNCHANGED <<unscheduled, destroy, cancelled, stop, clock, uid, shared, batch, ids>>
  BY DEF Dispose
<1>2. TypeOK' /\ Fresh' /\ NotPast'
  BY <1>1 DEF SimInv, TypeOK, Fresh, NotPast, clock, shared
<1>3. IsFiniteSet(events')
  BY <1>1, FS_EmptySet
<1> QED
  BY <1>1, <1>2, <1>3 DEF SimInv, Counted, LiveIdsListed

\* The inductive invariant.
LEMMA SimInvHolds == Spec => []SimInv
<1>1. Init => SimInv
  BY SimInit
<1>2. ASSUME SimInv, [Next]_vars PROVE SimInv'
  <2>1. CASE UNCHANGED vars
    BY <1>2, <2>1 DEF vars, queues, clock, shared, SimInv, TypeOK, Fresh, NotPast,
                      Earlier, Counted, LiveIdsListed, IsExpired, KeyOf
  <2> QED
    BY <1>2, <2>1, ScheduleStep, ScheduleDestroyStep, RemoveStep, CancelStep,
       InsertBatchStep, ProcessStep, LoopStep, DestroyStep, DisposeStep DEF Next
<1> QED
  BY <1>1, <1>2, PTL DEF Spec

----------------------------------------------------------------------------
(* Theorems.                                                               *)

\* Every variable keeps its type; m_unscheduledEvents never goes below zero.
THEOREM SimulatorTyped == Spec => []TypeOK
<1>1. SimInv => TypeOK
  BY DEF SimInv
<1> QED
  BY <1>1, SimInvHolds, PTL

\* m_unscheduledEvents is the length of the list after every call, every event
\* and every hand-over, so Run's assertion holds.
THEOREM CounterFollowsList == Spec => []Counted
<1>1. SimInv => Counted
  BY DEF SimInv
<1> QED
  BY <1>1, SimInvHolds, PTL

\* Remove is called with keys that are in the list only, however old the ids.
THEOREM RemoveFindsEvent == Spec => []LiveIdsListed
<1>1. SimInv => LiveIdsListed
  BY DEF SimInv
<1> QED
  BY <1>1, SimInvHolds, PTL

\* No event runs twice, after it was cancelled or removed, or after a later one.
THEOREM EventsRunOnce == Spec => ExpiredNeverRuns
<1>1. ASSUME SimInv, [Next]_vars, pc = "loop", pc' = "event"
      PROVE  ~IsExpired([ts |-> now', uid |-> currentUid', event |-> currentUid'])
  <2>1. ProcessOneEvent
    BY <1>1 DEF Next, Schedule, ScheduleDestroy, Remove, Cancel, Stop, Destroy,
                DestroyOneEvent, Dispose, Run, Poll, Swap, InsertBatch, EventReturns,
                Return, HandOver, InProgram, vars
  <2>2. PICK k \in events : /\ now' = k.ts /\ currentUid' = k.uid
                            /\ k.uid \notin cancelled
    BY <1>1, <2>1 DEF ProcessOneEvent
  <2>3. /\ k.ts \in Nat /\ k.uid \in Nat /\ k.uid >= FirstUid
        /\ now \in Nat /\ currentUid \in Nat
        /\ Earlier([ts |-> now, uid |-> currentUid], k)
    BY <1>1 DEF SimInv, TypeOK, Fresh, NotPast, Key
  <2> QED
    BY <2>2, <2>3 DEF IsExpired, Earlier, FirstUid, DestroyUid
<1>2. SimInv /\ [Next]_vars =>
        [pc = "loop" /\ pc' = "event" =>
           ~IsExpired([ts |-> now', uid |-> currentUid', event |-> currentUid'])]_vars
  BY <1>1
<1> QED
  BY <1>2, SimInvHolds, PTL DEF Spec, ExpiredNeverRuns

\* The unlocked read of the flag never misses what was handed over before it.
THEOREM FlagHidesNothing == Spec => []NothingHidden
<1>1. Init => NothingHidden
  BY DEF Init, NothingHidden
<1>2. ASSUME NothingHidden, [Next]_vars PROVE NothingHidden'
  BY <1>2 DEF NothingHidden, Next, Schedule, ScheduleDestroy, Remove, Cancel, Stop,
     Destroy, DestroyOneEvent, Dispose, Run, Poll, Swap, InsertBatch, ProcessOneEvent,
     EventReturns, Return, HandOver, vars, shared
<1> QED
  BY <1>1, <1>2, PTL DEF Spec
============================================================================
