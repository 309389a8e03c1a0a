----------------------------- MODULE Simulator -----------------------------
(***************************************************************************)
(* DefaultSimulatorImpl: the loop of Run, the events it invokes, what they *)
(* and the program around it ask of the simulator, and the events another  *)
(* thread hands over with ScheduleWithContext.  The scheduler is the set   *)
(* of EventList.  An event may make any calls; contexts are left out.      *)
(***************************************************************************)
EXTENDS EventKeys

CONSTANTS
  Delays,     \* delays events are scheduled with
  MaxUid,     \* model bound on the uids given
  MaxHanded   \* model bound on the events waiting to be taken over

FirstUid == 4    \* 0: no event, 1: now, 2: destroy events
DestroyUid == 2

ASSUME SimulatorAssumption ==
  Delays \subseteq Nat /\ MaxUid \in Nat /\ MaxHanded \in Nat

VARIABLES
  pc,           \* where the main thread is
  events,       \* m_events: keys of the events to come
  unscheduled,  \* m_unscheduledEvents
  destroy,      \* m_destroyEvents: their ids
  cancelled,    \* events whose impl has m_cancel set
  stop,         \* m_stop
  now,          \* m_currentTs
  currentUid,   \* m_currentUid
  uid,          \* m_uid
  handed,       \* m_eventsWithContext: delays of the events handed over
  handedEmpty,  \* m_eventsWithContextEmpty
  batch,        \* events taken over, not yet inserted
  ids           \* history: every EventId returned, with its event

queues == <<events, unscheduled, destroy, cancelled>>
clock == <<now, currentUid>>
shared == <<handed, handedEmpty>>
vars == <<pc, queues, stop, clock, uid, shared, batch, ids>>

\* An event is known by the value m_uid had when it was scheduled.
EventId == [ts : Nat, uid : Nat, event : Nat]
KeyOf(id) == [ts |-> id.ts, uid |-> id.uid]

TypeOK ==
  /\ pc \in {"out", "poll", "swap", "insert", "loop", "event",
             "destroying", "destroyEvent", "destroyed"}
  /\ events \subseteq Key /\ ids \subseteq EventId
  /\ destroy \subseteq EventId /\ cancelled \subseteq Nat
  /\ unscheduled \in Nat
  /\ stop \in BOOLEAN /\ handedEmpty \in BOOLEAN
  /\ now \in Nat /\ currentUid \in Nat /\ uid \in Nat
  /\ handed \in Seq(Delays) /\ batch \in Seq(Delays)

Init ==
  /\ pc = "out"
  /\ events = {} /\ unscheduled = 0 /\ destroy = {} /\ cancelled = {}
  /\ stop = FALSE
  /\ now = 0 /\ currentUid = 0 /\ uid = FirstUid
  /\ handed = <<>> /\ handedEmpty = TRUE /\ batch = <<>>
  /\ ids = {}

\* Mutant: the event that is running counts as one to come.
NotYetRun(id) ==
  \/ id.event \in cancelled
  \/ IF id.uid = DestroyUid
     THEN id \notin destroy
     ELSE id.ts < now \/ (id.ts = now /\ id.uid < currentUid)
IsExpired(id) ==
  \/ id.event \in cancelled
  \/ IF id.uid = DestroyUid
     THEN id \notin destroy
     ELSE id.ts < now \/ (id.ts = now /\ id.uid <= currentUid)

----------------------------------------------------------------------------
(* What the program calls: an event or a destroy event that is running,    *)
(* or, outside of Run, what sets the simulation up and continues it.       *)

InProgram == pc \in {"out", "event", "destroyEvent"}
TakeUid == uid <= MaxUid /\ uid' = uid + 1

\* Schedule, ScheduleNow, and ScheduleWithContext in the main thread.
Schedule ==
  /\ InProgram /\ TakeUid
  /\ \E d \in Delays \cup {0} :
       /\ events' = events \cup {[ts |-> now + d, uid |-> uid]}
       /\ ids' = ids \cup {[ts |-> now + d, uid |-> uid, event |-> uid]}
  /\ unscheduled' = unscheduled + 1
  /\ UNCHANGED <<pc, destroy, cancelled, stop, clock, shared, batch>>

ScheduleDestroy ==
  /\ InProgram /\ TakeUid
  /\ LET id == [ts |-> now, uid |-> DestroyUid, event |-> uid]
     IN  destroy' = destroy \cup {id} /\ ids' = ids \cup {id}
  /\ UNCHANGED <<pc, events, unscheduled, cancelled, stop, clock, shared, batch>>

RemoveDestroy(id) ==
  /\ destroy' = destroy \ {id}
  /\ UNCHANGED <<events, unscheduled, cancelled>>

\* Mutant: the event taken out is still counted.
RemoveUncounted(id) ==
  /\ ~IsExpired(id)
  /\ events' = events \ {KeyOf(id)}
  /\ cancelled' = cancelled \cup {id.event}
  /\ UNCHANGED <<destroy, unscheduled>>
RemoveEvent(id) ==
  /\ ~IsExpired(id)
  /\ events' = events \ {KeyOf(id)}
  /\ cancelled' = cancelled \cup {id.event}
  /\ unscheduled' = unscheduled - 1
  /\ UNCHANGED destroy

Remove ==
  /\ InProgram
  /\ \E id \in ids :
       IF id.uid = DestroyUid THEN RemoveDestroy(id) ELSE RemoveEvent(id)
  /\ UNCHANGED <<pc, stop, clock, uid, shared, batch, ids>>

Cancel ==
  /\ InProgram
  /\ \E id \in ids : ~IsExpired(id) /\ cancelled' = cancelled \cup {id.event}
  /\ UNCHANGED <<pc, events, unscheduled, destroy, stop, clock, uid, shared, batch, ids>>

Stop ==
  /\ InProgram /\ stop' = TRUE
  /\ UNCHANGED <<pc, queues, clock, uid, shared, batch, ids>>

\* Destroy: the destroy events are taken from their list in turn, those that a
\* destroy event schedules too, and the implementation is disposed of.
Destroy ==
  /\ pc = "out" /\ pc' = "destroying"
  /\ UNCHANGED <<queues, stop, clock, uid, shared, batch, ids>>

DestroyOneEvent ==
  /\ pc = "destroying"
  /\ \E id \in destroy :
       /\ \A other \in destroy : id.event <= other.event
       /\ destroy' = destroy \ {id}
       /\ pc' = IF id.event \in cancelled THEN "destroying" ELSE "destroyEvent"
  /\ UNCHANGED <<events, unscheduled, cancelled, stop, clock, uid, shared, batch, ids>>

Dispose ==
  /\ pc = "destroying" /\ destroy = {} /\ pc' = "destroyed"
  /\ events' = {}
  /\ UNCHANGED <<unscheduled, destroy, cancelled, stop, clock, uid, shared, batch, ids>>

----------------------------------------------------------------------------
(* Run.  ProcessEventsWithContext is called at its start and after every   *)
(* event: poll, swap and insert are its steps.  m_stop is the main         *)
(* thread's own, so it is cleared here although the code does so after the *)
(* first of these calls.                                                   *)

Run ==
  /\ pc = "out" /\ pc' = "poll"
  /\ stop' = FALSE
  /\ UNCHANGED <<queues, clock, uid, shared, batch, ids>>

\* The flag is read outside of the critical section.
Poll ==
  /\ pc = "poll" /\ pc' = IF handedEmpty THEN "loop" ELSE "swap"
  /\ UNCHANGED <<queues, stop, clock, uid, shared, batch, ids>>

Swap ==
  /\ pc = "swap" /\ pc' = "insert"
  /\ batch' = handed /\ handed' = <<>> /\ handedEmpty' = TRUE
  /\ UNCHANGED <<queues, stop, clock, uid, ids>>

\* Mutants: the flag is set once the events are inserted; their uids are not
\* taken from m_uid.
InsertBatchThenFlag ==
  /\ pc = "insert" /\ pc' = "loop"
  /\ events' = events \cup
       {[ts |-> now + batch[k], uid |-> uid + k - 1] : k \in DOMAIN batch}
  /\ unscheduled' = unscheduled + Len(batch)
  /\ uid' = uid + Len(batch)
  /\ batch' = <<>> /\ handedEmpty' = TRUE
  /\ UNCHANGED <<destroy, cancelled, stop, clock, handed, ids>>
InsertBatchAsNow ==
  /\ pc = "insert" /\ pc' = "loop"
  /\ events' = events \cup
       {[ts |-> now + batch[k], uid |-> k] : k \in DOMAIN batch}
  /\ unscheduled' = unscheduled + Len(batch)
  /\ batch' = <<>>
  /\ UNCHANGED <<destroy, cancelled, stop, clock, uid, shared, ids>>
InsertBatch ==
  /\ pc = "insert" /\ pc' = "loop"
  /\ events' = events \cup
       {[ts |-> now + batch[k], uid |-> uid + k - 1] : k \in DOMAIN batch}
  /\ unscheduled' = unscheduled + Len(batch)
  /\ uid' = uid + Len(batch)
  /\ batch' = <<>>
  /\ UNCHANGED <<destroy, cancelled, stop, clock, shared, ids>>

\* The earliest event is taken out, and invoked unless it was cancelled.
ProcessOneEvent ==
  /\ pc = "loop" /\ ~stop
  /\ \E k \in events :
       /\ \A l \in events \ {k} : Earlier(k, l)
       /\ events' = events \ {k}
       /\ now' = k.ts /\ currentUid' = k.uid
       /\ pc' = IF k.uid \in cancelled THEN "poll" ELSE "event"
  /\ unscheduled' = unscheduled - 1
  /\ UNCHANGED <<destroy, cancelled, stop, uid, shared, batch, ids>>

EventReturns ==
  /\ \/ pc = "event" /\ pc' = "poll"
     \/ pc = "destroyEvent" /\ pc' = "destroying"
  /\ UNCHANGED <<queues, stop, clock, uid, shared, batch, ids>>

Return ==
  /\ pc = "loop" /\ (stop \/ events = {})
  /\ pc' = "out"
  /\ UNCHANGED <<queues, stop, clock, uid, shared, batch, ids>>

----------------------------------------------------------------------------
\* ScheduleWithContext in another thread, whatever the main thread is doing.
HandOver ==
  /\ pc # "destroyed"
  /\ Len(handed) < MaxHanded /\ uid + Len(handed) + Len(batch) <= MaxUid
  /\ \E d \in Delays : handed' = Append(handed, d)
  /\ handedEmpty' = FALSE
  /\ UNCHANGED <<pc, queues, stop, clock, uid, batch, ids>>

Next ==
  \/ Schedule \/ ScheduleDestroy \/ Remove \/ Cancel \/ Stop
  \/ Destroy \/ DestroyOneEvent \/ Dispose
  \/ Run \/ Poll \/ Swap \/ InsertBatch
  \/ ProcessOneEvent \/ EventReturns \/ Return
  \/ HandOver

Spec == Init /\ [][Next]_vars

----------------------------------------------------------------------------
(* Properties.                                                             *)

\* Run's assertion when it ends for lack of events, at any time: the counter
\* follows the list through every call and every hand-over.
Counted == pc # "destroyed" => unscheduled = Cardinality(events)

\* An id that has not expired names an event that is still in its list, so
\* Remove finds it there: every scheduler assumes that it does.
LiveIdsListed ==
  \A id \in ids :
    id.uid # DestroyUid /\ ~IsExpired(id) /\ pc # "destroyed" =>
      KeyOf(id) \in events

\* An event is invoked only while its id has not expired: never twice, never
\* once it was cancelled, never after a later one.
ExpiredNeverRuns ==
  [][pc = "loop" /\ pc' = "event" =>
       ~IsExpired([ts |-> now', uid |-> currentUid', event |-> currentUid'])]_vars

\* The flag, read without the lock, never hides an event handed over: whenever
\* Poll finds it set, nothing waits.
NothingHidden == handedEmpty => handed = <<>>
============================================================================
