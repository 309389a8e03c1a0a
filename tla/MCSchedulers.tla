---------------------------- MODULE MCSchedulers ----------------------------
(***************************************************************************)
(* Instances of Schedulers.                                                *)
(***************************************************************************)
EXTENDS Schedulers

\* Remove is called on any list or calendar, and on heaps of up to five events.
SmallHeaps == [k \in Kinds |-> IF k = "heap" THEN 5 ELSE MaxPending]
AnyHeap == [k \in Kinds |-> MaxPending]
============================================================================
