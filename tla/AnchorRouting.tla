--------------------------- MODULE AnchorRouting ---------------------------
(***************************************************************************)
(* The routing table of the mobility anchor (LMA) as NetworkManager uses   *)
(* it: one entry per mobile device, its address under the mask 255.0.0.0,  *)
(* so that the entry of every device matches the addresses of all others.  *)
(* Calls on the LMA's interfaces and other routes go on around it.         *)
(***************************************************************************)
EXTENDS StaticRouting

CONSTANTS
  Mobiles,  \* addresses of the mobile devices
  MihLen,   \* length of the mask 255.0.0.0 in the entries for them
  None      \* no path was asked for yet

(* No other route of the LMA is for the address of a mobile device itself, *)
(* or for a longer network that holds it.                                  *)
Foreign(r) ==
  \A m \in Mobiles :
    /\ r.dest # m
    /\ r.len > MihLen => CombineMask(m, r.len) # CombineMask(r.dest, r.len)

ASSUME AnchorAssumption ==
  /\ Mobiles \subseteq Addresses
  /\ MihLen \in Lengths
  /\ None \notin Interfaces
  /\ \A r \in UserRoutes : Foreign(r)
  /\ \A r \in Locals : Foreign([dest |-> CombineMask(r.local, r.len), len |-> r.len])

VARIABLE asked  \* asked[m]: m_paths of the last handover of m

anchorVars == <<table, locals, up, asked>>

AnchorInit == Init /\ asked = [m \in Mobiles |-> None]

\* SetNetId of m on the chart behind interface i: RequestPSol 4.  The scenarios
\* set the LMA's interfaces up before they register a device behind them.
Register(m, i) ==
  /\ asked[m] = None
  /\ up[i]
  /\ AddNetworkRouteTo([dest |-> m, len |-> MihLen], i, 0)
  /\ asked' = [asked EXCEPT ![m] = i]

\* A handover of m to the chart behind interface i.
\* Mutant: the new entry is added before the old one is removed.
AddedFirst(t, m, i) == WithoutRoute(Append(t, Route(m, MihLen, i, 0)), m)
Redirected(t, m, i) == Append(WithoutRoute(t, m), Route(m, MihLen, i, 0))

Redirect(m, i) ==
  /\ asked[m] # None
  /\ up[i]
  /\ \A k \in Exact(table, m) : locals[table[k].via] # <<>>
  /\ table' = Redirected(table, m, i)
  /\ asked' = [asked EXCEPT ![m] = i]
  /\ UNCHANGED <<locals, up>>

\* What else happens at the LMA: its interfaces get addresses and are set up.
\* Model bound: room is left in the table for the devices to come.
Surroundings ==
  /\ \/ \E r \in UserRoutes, i \in Interfaces, metric \in Metrics :
          up[i] /\ AddNetworkRouteTo(r, i, metric)
     \/ \E i \in Interfaces :
          \/ \E r \in Locals : AddAddress(i, r)
          \/ SetUp(i)
  /\ Len(table') + Cardinality({m \in Mobiles : asked[m] = None}) <= MaxTable
  /\ UNCHANGED asked

AnchorNext ==
  \/ \E m \in Mobiles, i \in Interfaces : Register(m, i) \/ Redirect(m, i)
  \/ Surroundings

AnchorSpec == AnchorInit /\ [][AnchorNext]_anchorVars

----------------------------------------------------------------------------
(* Properties.                                                             *)

\* The LMA forwards a packet for a mobile device to the interface of its last
\* handover, although the entries of all devices match all their addresses.
Follows ==
  \A m \in Mobiles : asked[m] # None =>
    LET k == LookupStatic(table, m, Interfaces)
    IN  k # 0 /\ table[k].via = asked[m]

\* Where packets for m really go.
Via == [m \in Mobiles |->
          IF \A k \in DOMAIN table : table[k].dest # m THEN None
          ELSE table[LookupStatic(table, m, Interfaces)].via]

\* The LMA implements PathMap: a call moves at most one device, and nothing
\* else ever moves one.
Paths == INSTANCE PathMap WITH Paths <- Interfaces, path <- Via
OnePathMoves == Paths!Spec
============================================================================
