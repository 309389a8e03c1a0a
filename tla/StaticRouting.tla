--------------------------- MODULE StaticRouting ---------------------------
(***************************************************************************)
(* The unicast table of Ipv4StaticRouting (rena/src/internet) and the      *)
(* interfaces whose changes it is notified of.  The table is an ordered    *)
(* list; the thesis added RemoveStaticRoute, and made LookupStatic prefer  *)
(* an entry whose network is the very address that is looked up.           *)
(*                                                                         *)
(* Addresses have Width bits instead of 32 and a mask is its length.       *)
(***************************************************************************)
EXTENDS Naturals, SequencesExt

CONSTANTS
  Width,       \* bits of an address
  Interfaces,  \* interfaces of the node
  Metrics,     \* metrics a user gives to routes
  UserRoutes,  \* [dest, len] of the routes a user adds
  Removable,   \* addresses a user calls RemoveStaticRoute for
  Locals,      \* [local, len] of the addresses given to interfaces
  MaxTable,    \* model bound on the length of the table
  MaxLocals    \* model bound on the addresses of an interface

\* Pow2[n] is 2^n, as a function that proofs can unfold.
Pow2[n \in 0..Width] == IF n = 0 THEN 1 ELSE 2 * Pow2[n - 1]

Addresses == 0 .. Pow2[Width] - 1
Lengths == 0..Width

\* The number of addresses in a network with a mask of length len.
Size == [len \in Lengths |-> Pow2[Width - len]]

ASSUME RoutingAssumption ==
  /\ Width \in Nat
  /\ Metrics \subseteq Nat /\ 0 \in Metrics
  /\ UserRoutes \subseteq [dest : Addresses, len : Lengths]
  /\ Removable \subseteq Addresses
  /\ Locals \subseteq [local : Addresses, len : Lengths]
  /\ MaxTable \in Nat /\ MaxLocals \in Nat

VARIABLES
  table,   \* m_networkRoutes
  locals,  \* locals[i]: m_ifaddrs of interface i
  up       \* up[i]: m_ifup of interface i

tableVars == <<table, locals, up>>

Entries == [dest : Addresses, len : Lengths, via : Interfaces, metric : Nat]

TypeOK ==
  /\ table \in Seq(Entries) /\ Len(table) <= MaxTable
  /\ locals \in [Interfaces -> Seq(Locals)]
  /\ up \in [Interfaces -> BOOLEAN]

----------------------------------------------------------------------------
(* Addresses and entries.                                                  *)

\* Ipv4Address::CombineMask with the mask of length len.
CombineMask(a, len) == a - (a % Size[len])

\* Ipv4Mask::IsMatch with the mask of the entry.
IsMatch(e, a) == CombineMask(e.dest, e.len) = CombineMask(a, e.len)

Route(dest, len, i, metric) ==
  [dest |-> dest, len |-> len, via |-> i, metric |-> metric]

\* The route to the network of address r on interface i.
Connected(r, i) == Route(CombineMask(r.local, r.len), r.len, i, 0)

\* Entry e is worse than the choice b so far: its mask is shorter, or is as long
\* and its metric is greater.
Worse(e, b) ==
  e.len < b.len \/ (b.pos # 0 /\ e.len = b.len /\ e.metric > b.metric)

\* The entry chosen so far is for the address a itself, and is kept.
\* Mutant: the edit of the thesis is missing.
NeverKept(t, pos, a) == FALSE
Kept(t, pos, a) == pos # 0 /\ t[pos].dest = a

\* The turn of the loop for the entry at k: what it makes of the choice b, the
\* position of rtentry (0: none), longest_mask and shortest_metric.
Examine(t, a, out, b, k) ==
  IF ~IsMatch(t[k], a) \/ t[k].via \notin out \/ Worse(t[k], b) THEN b
  ELSE [pos |-> IF Kept(t, b.pos, a) THEN b.pos ELSE k,
        len |-> t[k].len, metric |-> t[k].metric]

NoChoice == [pos |-> 0, len |-> 0, metric |-> 0]

\* LookupStatic: one pass over t, which yields the position of the route to a
\* through an interface of out (all of them if no output device was asked for),
\* 0 if there is none.  SourceAddressSelection, which stops the program if the
\* interface of an entry on the way has no address, is left out.
LookupStatic(t, a, out) ==
  LET best[k \in 0..Len(t)] ==
        IF k = 0 THEN NoChoice ELSE Examine(t, a, out, best[k - 1], k)
  IN  best[Len(t)].pos

\* The entries of s at the positions in K, in their order.
AtPositions(s, K) ==
  [n \in 1..Cardinality(K) |->
     s[CHOOSE k \in K : Cardinality({j \in K : j <= k}) = n]]

\* RemoveStaticRoute: t without the last entry whose network is a.
\* Mutant: a is compared under the mask of the entry, as LookupStatic does.
Matching(t, a) == {k \in DOMAIN t : IsMatch(t[k], a)}
Exact(t, a) == {k \in DOMAIN t : t[k].dest = a}
WithoutRoute(t, a) ==
  IF Exact(t, a) = {} THEN t
  ELSE RemoveAt(t, CHOOSE k \in Exact(t, a) : \A j \in Exact(t, a) : j <= k)

\* NotifyInterfaceUp: a route for the network of every address of i.
\* Mutant: only for the first address.
WithFirstNetwork(t, i) ==
  IF locals[i] = <<>> \/ locals[i][1].len = Width THEN t
  ELSE Append(t, Connected(locals[i][1], i))
WithNetworks(t, i) ==
  LET own == AtPositions(locals[i],
                         {k \in DOMAIN locals[i] : locals[i][k].len # Width})
  IN  t \o [k \in DOMAIN own |-> Connected(own[k], i)]

\* NotifyInterfaceDown: no route through i is left.
\* Mutants: the entry behind a removed one is skipped; an entry is freed (and
\* its words are overwritten) but stays in the list.
SkippingNext(t, i) ==
  LET gone[k \in 0..Len(t)] == k # 0 /\ t[k].via = i /\ ~gone[k - 1]
  IN  AtPositions(t, {k \in DOMAIN t : ~gone[k]})
FreedInPlace(t, i) ==
  [k \in DOMAIN t |->
     IF t[k].via = i THEN [t[k] EXCEPT !.dest = Pow2[Width]] ELSE t[k]]
WithoutInterface(t, i) ==
  AtPositions(t, {k \in DOMAIN t : t[k].via # i})

\* NotifyRemoveAddress: j is incremented although RemoveRoute (j) has moved
\* the next entry to j, so the entry behind a removed one is never examined.
WithoutNetwork(t, i, r) ==
  LET Named(e) == /\ e.via = i /\ e.len # Width
                  /\ e.dest = CombineMask(r.local, r.len) /\ e.len = r.len
      gone[k \in 0..Len(t)] == k # 0 /\ Named(t[k]) /\ ~gone[k - 1]
  IN  AtPositions(t, {k \in DOMAIN t : ~gone[k]})

----------------------------------------------------------------------------
(* Calls.                                                                  *)

Init ==
  /\ table = <<>>
  /\ locals = [i \in Interfaces |-> <<>>]
  /\ up = [i \in Interfaces |-> FALSE]

AddNetworkRouteTo(r, i, metric) ==
  /\ Len(table) < MaxTable
  /\ table' = Append(table, Route(r.dest, r.len, i, metric))
  /\ UNCHANGED <<locals, up>>

(* The source address of every entry for a is looked up on the way: an     *)
(* assertion stops the program if its interface has none.                  *)
RemoveStaticRoute(a) ==
  /\ \A k \in Exact(table, a) : locals[table[k].via] # <<>>
  /\ table' = WithoutRoute(table, a)
  /\ UNCHANGED <<locals, up>>

\* Ipv4L3Protocol::AddAddress and NotifyAddAddress.
AddAddress(i, r) ==
  /\ Len(locals[i]) < MaxLocals /\ Len(table) < MaxTable
  /\ locals' = [locals EXCEPT ![i] = Append(@, r)]
  /\ table' = IF up[i] THEN Append(table, Connected(r, i)) ELSE table
  /\ UNCHANGED up

\* Ipv4L3Protocol::RemoveAddress and NotifyRemoveAddress.
RemoveAddress(i, k) ==
  /\ k \in DOMAIN locals[i]
  /\ locals' = [locals EXCEPT ![i] = RemoveAt(@, k)]
  /\ table' = IF up[i] THEN WithoutNetwork(table, i, locals[i][k]) ELSE table
  /\ UNCHANGED up

\* Ipv4L3Protocol::SetUp and NotifyInterfaceUp, also of an interface that is up.
SetUp(i) ==
  /\ Len(table) + Len(locals[i]) <= MaxTable
  /\ up' = [up EXCEPT ![i] = TRUE]
  /\ table' = WithNetworks(table, i)
  /\ UNCHANGED locals

\* Ipv4L3Protocol::SetDown and NotifyInterfaceDown.
SetDown(i) ==
  /\ up' = [up EXCEPT ![i] = FALSE]
  /\ table' = WithoutInterface(table, i)
  /\ UNCHANGED locals

Next ==
  \/ \E r \in UserRoutes, i \in Interfaces, metric \in Metrics :
       up[i] /\ AddNetworkRouteTo(r, i, metric)
  \/ \E a \in Removable : RemoveStaticRoute(a)
  \/ \E i \in Interfaces :
       \/ \E r \in Locals : AddAddress(i, r)
       \/ \E k \in 1..MaxLocals : RemoveAddress(i, k)
       \/ SetUp(i) \/ SetDown(i)

Spec == Init /\ [][Next]_tableVars

----------------------------------------------------------------------------
(* Properties.                                                             *)

\* What one pass chooses: of the matching entries that are at least as good
\* (longer mask, or equal mask and no greater metric) as all earlier ones, the
\* first one for the very address, or the last one if there is none.
Chosen(t, a, out) ==
  LET matching == {k \in DOMAIN t : IsMatch(t[k], a) /\ t[k].via \in out}
      leading == {k \in matching : \A j \in matching : j < k =>
                    \/ t[j].len < t[k].len
                    \/ t[j].len = t[k].len /\ t[k].metric <= t[j].metric}
      own == {k \in leading : t[k].dest = a}
  IN  IF leading = {} THEN 0
      ELSE IF own # {} THEN CHOOSE k \in own : \A j \in own : k <= j
      ELSE CHOOSE k \in leading : \A j \in leading : j <= k

\* LookupStatic computes Chosen, for every table the calls can produce, with
\* and without an output device.
LookupIsChosen ==
  \A a \in Addresses : \A out \in {{i} : i \in Interfaces} \cup {Interfaces} :
    LookupStatic(table, a, out) = Chosen(table, a, out)

\* An interface that is down carries no traffic: SetDown leaves no route
\* through it behind and nothing puts one back before SetUp.
NoRouteThroughDown ==
  \A k \in DOMAIN table : up[table[k].via]

\* No address is taken from an interface that was given it twice: the program
\* gives addresses again (MihNetDevice::Activate, at each switch back) and
\* never calls Ipv4::RemoveAddress.
HeldOnce ==
  \A i \in Interfaces : \A k \in DOMAIN locals[i] :
    RemoveAddress(i, k) =>
      \A j \in DOMAIN locals[i] \ {k} : locals[i][j] # locals[i][k]

\* Every address of a network an interface is on is reached through that
\* interface when it is the output device, as long as the interface is up, also
\* if it was given the address and set up again and again.
NetworksReachable ==
  \A i \in Interfaces : up[i] =>
    \A k \in DOMAIN locals[i] :
      LET r == locals[i][k] IN
      \A a \in Addresses :
        r.len # Width /\ CombineMask(a, r.len) = CombineMask(r.local, r.len) =>
          LookupStatic(table, a, {i}) # 0

\* ipv4-static-routing.cc on NotifyRemoveAddress: "Remove all static routes
\* that are going through this interface which reference this network".
RemovedNetworkGone ==
  [][\A i \in Interfaces : \A k \in DOMAIN locals[i] :
       up[i] /\ locals[i][k].len # Width /\ RemoveAddress(i, k) =>
         LET net == Connected(locals[i][k], i) IN
         \A j \in DOMAIN table' :
           ~(/\ table'[j].via = i
             /\ table'[j].dest = net.dest /\ table'[j].len = net.len)]_tableVars
============================================================================
