------------------------------ MODULE PathMap ------------------------------
(***************************************************************************)
(* What the mobility anchor promises to the network manager: one path per  *)
(* mobile device, changed for that device alone.                           *)
(***************************************************************************)
CONSTANTS Mobiles, Paths, None

VARIABLE path

Init == path = [m \in Mobiles |-> None]

\* A call redirects m, to some path; no other device is.
Move(m) ==
  /\ path'[m] \in Paths
  /\ \A n \in Mobiles \ {m} : path'[n] = path[n]

Next == \E m \in Mobiles : Move(m)

Spec == Init /\ [][Next]_path
============================================================================
