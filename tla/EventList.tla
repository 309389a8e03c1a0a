----------------------------- MODULE EventList -----------------------------
(***************************************************************************)
(* What the simulator expects of a Scheduler: the events not yet run, of   *)
(* which the earliest is the next one.  MapScheduler, a std::map over the  *)
(* keys, is this set; the other schedulers are shown to implement it.      *)
(***************************************************************************)
EXTENDS EventKeys

CONSTANTS
  Delays,      \* delays events are scheduled with
  MaxUid,      \* model bound on the uids given
  MaxPending   \* model bound on the events in the list

VARIABLES
  pending,  \* keys of the events in the list
  now,      \* time of the last event run; nothing is scheduled before it
  uid,      \* the next uid
  next      \* what the last RemoveNext returned

listVars == <<pending, now, uid, next>>

Nothing == [ts |-> 0, uid |-> 0]

\* The key the simulator gives an event scheduled with delay d.
Scheduled(d) == [ts |-> now + d, uid |-> uid]
NextUid == uid <= MaxUid /\ uid' = uid + 1

Init ==
  /\ pending = {}
  /\ now = 0
  /\ uid = 1
  /\ next = Nothing

Insert ==
  /\ NextUid
  /\ Cardinality(pending) < MaxPending
  /\ \E d \in Delays : pending' = pending \cup {Scheduled(d)}
  /\ UNCHANGED <<now, next>>

RemoveNext ==
  \E k \in pending :
    /\ \A l \in pending \ {k} : Earlier(k, l)
    /\ pending' = pending \ {k}
    /\ next' = k /\ now' = k.ts
    /\ UNCHANGED uid

RemoveEvent(k) ==
  /\ k \in pending /\ pending' = pending \ {k}
  /\ UNCHANGED <<now, uid, next>>

Next == Insert \/ RemoveNext \/ \E k \in pending : RemoveEvent(k)

Spec == Init /\ [][Next]_listVars
============================================================================
