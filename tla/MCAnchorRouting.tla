-------------------------- MODULE MCAnchorRouting --------------------------
(***************************************************************************)
(* Instances of StaticRouting and AnchorRouting: addresses of three bits,  *)
(* two interfaces.  A run has the table of any router, on which every      *)
(* operation of StaticRouting is called, or that of the anchor (LMA).      *)
(*                                                                         *)
(* The mobile devices share the network 4/1 as they share 7.0.0.0/8.  The  *)
(* other routes are the default one and one to the address 5 under its     *)
(* mask, as NetChart::AddRouting adds it, which is to all of the network   *)
(* of the devices.  An interface may be on that network or on the half of  *)
(* it that 5 is in, whose entry is longer than the one for 5.              *)
(***************************************************************************)
EXTENDS AnchorRouting

MCUserRoutes == {[dest |-> 0, len |-> 0], [dest |-> 5, len |-> 1]}
MCLocals == {[local |-> 4, len |-> 2], [local |-> 5, len |-> 1]}

VARIABLE role  \* whose table it is

MCInit == AnchorInit /\ role \in {"router", "anchor"}

MCNext ==
  /\ \/ role = "router" /\ Next /\ UNCHANGED asked
     \/ role = "anchor" /\ AnchorNext
  /\ HeldOnce
  /\ UNCHANGED role

MCSpec == MCInit /\ [][MCNext]_<<anchorVars, role>>
============================================================================
