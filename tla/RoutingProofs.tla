--------------------------- MODULE RoutingProofs ---------------------------
(***************************************************************************)
(* Proofs about the tables of StaticRouting and of the mobility anchor.    *)
(*                                                                         *)
(* For the router the inductive invariant is RouterInv: the table is typed *)
(* and no entry goes through an interface that is down.  The loop of       *)
(* LookupStatic is proved turn by turn (ExamineSound): what it has chosen  *)
(* after k entries is Sound, for every table.  DefaultInv and ConnectedInv *)
(* add which entries are there.  For the anchor AnchorInv adds that every  *)
(* registered device has one entry, the one its last handover asked for,   *)
(* and that no other entry is for a device or longer and in its way.       *)
(***************************************************************************)
EXTENDS AnchorRouting, SequenceFacts, SequenceTheorems, FiniteSetTheorems, TLAPS

----------------------------------------------------------------------------
(* Addresses.                                                              *)

\* The powers of two are positive.
LEMMA PowersArePositive ==
  ASSUME Width \in Nat
  PROVE  Pow2 \in [0..Width -> Nat \ {0}]
<1>1. PICK positive : positive = Nat \ {0}
  OBVIOUS
<1>2. PICK turn \in [(1..Width) \X positive -> positive] :
         \A k \in 1..Width : \A n \in positive : turn[<<k, n>>] = 2 * n
  <2> DEFINE f == [p \in (1..Width) \X positive |-> 2 * p[2]]
  <2>1. f \in [(1..Width) \X positive -> positive]
    BY <1>1
  <2>2. \A k \in 1..Width : \A n \in positive : f[<<k, n>>] = 2 * n
    OBVIOUS
  <2> QED
    BY <2>1, <2>2
<1>3. 1 \in positive
  BY <1>1
<1>4. PICK f \in [0..Width -> positive] : Runs(f, Width, 1, turn)
  BY <1>2, <1>3, LoopIsDefined
<1>5. f[0] = 1 /\ \A k \in 1..Width : f[k] = 2 * f[k - 1]
  <2>1. \A k \in 1..Width : f[k - 1] \in positive
    OBVIOUS
  <2> QED
    BY <2>1, <1>2, <1>4 DEF Runs
<1>6. f = [n \in 0..Width |-> IF n = 0 THEN 1 ELSE 2 * f[n - 1]]
  <2>1. \A n \in 0..Width : f[n] = IF n = 0 THEN 1 ELSE 2 * f[n - 1]
    <3> TAKE n \in 0..Width
    <3>1. CASE n = 0
      BY <3>1, <1>5
    <3>2. CASE n # 0
      <4>1. n \in 1..Width
        BY <3>2
      <4> QED
        BY <4>1, <3>2, <1>5
    <3> QED
      BY <3>1, <3>2
  <2> QED
    BY <2>1
<1> DEFINE Defines(g) == g = [n \in 0..Width |-> IF n = 0 THEN 1 ELSE 2 * g[n - 1]]
<1>7. Defines(Pow2)
  BY <1>6 DEF Pow2
<1> DEFINE G == {n \in 0..Width : Pow2[n] \in Nat \ {0}}
<1>8. 0 \in G
  BY <1>7
<1>9. \A k \in 1..Width : k - 1 \in G => k \in G
  BY <1>7
<1>10. 0..Width \subseteq G
  <2> HIDE DEF G
  <2> QED
    BY <1>8, <1>9, PrefixInduction
<1> QED
  BY <1>7, <1>10

\* The network of an address is an address.
LEMMA MaskTyped ==
  ASSUME Width \in Nat, NEW a \in Addresses, NEW len \in Lengths
  PROVE  CombineMask(a, len) \in Addresses
<1>1. Pow2 \in [0..Width -> Nat \ {0}]
  BY PowersArePositive
<1>2. Pow2[Width] \in Nat \ {0} /\ a \in Nat
  BY <1>1 DEF Addresses
<1>3. PICK d \in Nat \ {0} : d = Size[len]
  BY <1>1 DEF Size, Lengths
<1>4. a % d \in 0..a
  BY <1>2
<1> QED
  BY <1>2, <1>3, <1>4 DEF CombineMask, Addresses

----------------------------------------------------------------------------
(* The entries at a set of positions.                                      *)

\* Every place of AtPositions(s, K) holds the entry of a position in K.
LEMMA EntriesAtPositions ==
  ASSUME NEW S, NEW s \in Seq(S), NEW K \in SUBSET (1..Len(s))
  PROVE  /\ AtPositions(s, K) \in Seq(S)
         /\ Len(AtPositions(s, K)) <= Len(s)
         /\ \A n \in DOMAIN AtPositions(s, K) :
              \E k \in K : AtPositions(s, K)[n] = s[k]
<1> DEFINE Upto(m) == {j \in K : j <= m}
<1>0. Len(s) \in Nat /\ \A k \in K : k \in Nat /\ 1 <= k /\ k <= Len(s)
  OBVIOUS
<1>1. IsFiniteSet(1..Len(s)) /\ Cardinality(1..Len(s)) = Len(s)
  <2>1. Len(s) \in Int /\ 1 \in Int
    OBVIOUS
  <2>2. Cardinality(1..Len(s)) = IF 1 > Len(s) THEN 0 ELSE Len(s) - 1 + 1
    BY <2>1, FS_Interval
  <2>3. IsFiniteSet(1..Len(s))
    BY <2>1, FS_Interval
  <2> QED
    BY <1>0, <2>2, <2>3
<1>2. IsFiniteSet(K) /\ Cardinality(K) \in Nat /\ Cardinality(K) <= Len(s)
  <2>1. IsFiniteSet(K) /\ Cardinality(K) <= Cardinality(1..Len(s))
    BY <1>1, FS_Subset
  <2> QED
    BY <1>1, <2>1, FS_CardinalityType
<1>3. \A m \in Nat : IsFiniteSet(Upto(m)) /\ Cardinality(Upto(m)) \in Nat
  <2> TAKE m \in Nat
  <2>1. IsFiniteSet(Upto(m))
    BY <1>2, FS_Subset
  <2> QED
    BY <2>1, FS_CardinalityType
<1>4. \A n \in 1..Cardinality(K) : \E k \in K : Cardinality(Upto(k)) = n
  <2> TAKE n \in 1..Cardinality(K)
  <2> DEFINE Enough == {m \in 0..Len(s) : Cardinality(Upto(m)) >= n}
  <2>1. Len(s) \in Enough
    <3>1. Upto(Len(s)) = K
      BY <1>0
    <3> HIDE DEF Upto
    <3> QED
      BY <3>1, <1>0, <1>2
  <2>2. PICK m \in Enough : \A i \in Enough : m <= i
    <3>1. Enough \in SUBSET Nat /\ Enough # {}
      <4> HIDE DEF Upto
      <4> QED
        BY <2>1
    <3> HIDE DEF Enough
    <3> QED
      BY <3>1, LeastPosition
  <2>3. m # 0
    <3>1. Upto(0) = {}
      <4>1. \A j \in K : ~(j <= 0)
        BY <1>0
      <4> QED
        BY <4>1
    <3> HIDE DEF Upto
    <3>2. Cardinality(Upto(0)) = 0
      BY <3>1, FS_EmptySet
    <3> QED
      BY <2>2, <3>2
  <2>4. m - 1 \in Nat /\ Cardinality(Upto(m - 1)) < n
    <3> HIDE DEF Upto
    <3>1. m - 1 \in 0..Len(s) /\ m - 1 \notin Enough
      BY <1>0, <2>2, <2>3
    <3> QED
      BY <3>1, <1>3
  <2>5. m \in K
    <3> SUFFICES ASSUME m \notin K PROVE FALSE
      OBVIOUS
    <3>1. Upto(m) = Upto(m - 1)
      <4>1. \A j \in K : j <= m <=> j <= m - 1
        <5> TAKE j \in K
        <5>1. j \in Nat /\ m \in Nat /\ j # m
          BY <1>0
        <5> QED
          BY <5>1
      <4> QED
        BY <4>1
    <3> HIDE DEF Upto
    <3> QED
      BY <3>1, <2>2, <2>4
  <2>6. Upto(m) = Upto(m - 1) \cup {m} /\ m \notin Upto(m - 1)
    <3>1. \A j \in K : j <= m <=> j <= m - 1 \/ j = m
      <4> TAKE j \in K
      <4>1. j \in Nat /\ m \in Nat
        BY <1>0
      <4> QED
        BY <4>1
    <3>2. m <= m /\ ~(m <= m - 1)
      OBVIOUS
    <3> QED
      BY <3>1, <3>2, <2>5
  <2>7. Cardinality(Upto(m - 1) \cup {m}) = Cardinality(Upto(m - 1)) + 1
    <3> HIDE DEF Upto
    <3>1. IsFiniteSet(Upto(m - 1)) /\ m \notin Upto(m - 1)
      BY <2>4, <2>6, <1>3
    <3> QED
      BY <3>1, FS_AddElement
  <2>8. Cardinality(Upto(m)) = n
    <3> HIDE DEF Upto
    <3>1. Cardinality(Upto(m)) = Cardinality(Upto(m - 1)) + 1
      BY <2>6, <2>7
    <3> QED
      BY <3>1, <1>0, <2>2, <2>4, <1>3
  <2> QED
    BY <2>5, <2>8
<1>5. \A n \in 1..Cardinality(K) : \E k \in K : AtPositions(s, K)[n] = s[k]
  <2> TAKE n \in 1..Cardinality(K)
  <2>1. AtPositions(s, K)[n] = s[CHOOSE k \in K : Cardinality(Upto(k)) = n]
    BY DEF AtPositions
  <2> HIDE DEF Upto
  <2>2. (CHOOSE k \in K : Cardinality(Upto(k)) = n) \in K
    BY <1>4
  <2> QED
    BY <2>1, <2>2
<1>6. AtPositions(s, K) \in [1..Cardinality(K) -> S]
  <2>1. \A n \in 1..Cardinality(K) : AtPositions(s, K)[n] \in S
    BY <1>5
  <2>2. /\ DOMAIN AtPositions(s, K) = 1..Cardinality(K)
        /\ AtPositions(s, K) = [n \in 1..Cardinality(K) |-> AtPositions(s, K)[n]]
    BY DEF AtPositions
  <2> QED
    BY <2>1, <2>2
<1>7. AtPositions(s, K) \in Seq(S) /\ Len(AtPositions(s, K)) = Cardinality(K)
  BY <1>2, <1>6
<1> QED
  BY <1>2, <1>5, <1>6, <1>7

----------------------------------------------------------------------------
(* What the calls make of the table.                                       *)

\* An entry for a network of the router is typed.
LEMMA RouteTyped ==
  ASSUME NEW dest \in Addresses, NEW len \in Lengths, NEW i \in Interfaces,
         NEW metric \in Nat
  PROVE  /\ Route(dest, len, i, metric) \in Entries
         /\ Route(dest, len, i, metric).dest = dest
         /\ Route(dest, len, i, metric).len = len
         /\ Route(dest, len, i, metric).via = i
         /\ Route(dest, len, i, metric).metric = metric
BY DEF Route, Entries

\* The entry for the network of an address is typed.
LEMMA ConnectedTyped ==
  ASSUME NEW r \in Locals, NEW i \in Interfaces
  PROVE  /\ Connected(r, i) \in Entries
         /\ Connected(r, i).dest = CombineMask(r.local, r.len)
         /\ Connected(r, i).len = r.len
         /\ Connected(r, i).via = i
<1>1. r.local \in Addresses /\ r.len \in Lengths /\ Width \in Nat
  BY RoutingAssumption DEF RoutingAssumption
<1>2. CombineMask(r.local, r.len) \in Addresses
  BY <1>1, MaskTyped
<1> QED
  BY <1>1, <1>2, RouteTyped DEF Connected

\* A new entry comes behind those of the table.
LEMMA AppendEntry ==
  ASSUME NEW S, NEW t \in Seq(S), NEW e \in S
  PROVE  /\ Append(t, e) \in Seq(S)
         /\ Len(Append(t, e)) = Len(t) + 1
         /\ \A k \in 1..Len(t) : Append(t, e)[k] = t[k]
         /\ Append(t, e)[Len(t) + 1] = e
OBVIOUS

\* RemoveStaticRoute takes away the last entry for a, and that one only.
LEMMA WithoutRouteEntries ==
  ASSUME NEW t \in Seq(Entries), NEW a
  PROVE  \/ Exact(t, a) = {} /\ WithoutRoute(t, a) = t
         \/ \E m \in Exact(t, a) :
              /\ \A j \in Exact(t, a) : j <= m
              /\ WithoutRoute(t, a) \in Seq(Entries)
              /\ Len(WithoutRoute(t, a)) = Len(t) - 1
              /\ \A k \in 1..Len(t) - 1 :
                   WithoutRoute(t, a)[k] = IF k < m THEN t[k] ELSE t[k + 1]
<1>1. CASE Exact(t, a) = {}
  BY <1>1 DEF WithoutRoute
<1>2. CASE Exact(t, a) # {}
  <2> DEFINE Later == {n \in Nat : \A k \in Exact(t, a) : k <= n}
             Latest(k) == \A j \in Exact(t, a) : j <= k
  <2>1. \E k \in Exact(t, a) : Latest(k)
    <3>1. Len(t) \in Nat /\ \A k \in Exact(t, a) : k \in Nat /\ k <= Len(t)
      BY DEF Exact
    <3>2. Later \in SUBSET Nat /\ Len(t) \in Later
      BY <3>1
    <3>3. PICK n \in Later : \A i \in Later : n <= i
      <4> HIDE DEF Later
      <4> QED
        BY <3>2, LeastPosition
    <3>4. n \in Exact(t, a)
      <4> SUFFICES ASSUME n \notin Exact(t, a) PROVE FALSE
        OBVIOUS
      <4>1. n \in Nat /\ \A k \in Exact(t, a) : k <= n /\ k # n
        OBVIOUS
      <4>2. PICK k \in Exact(t, a) : TRUE
        BY <1>2
      <4>3. k \in Nat /\ k \in 1..Len(t)
        BY <3>1 DEF Exact
      <4>4. n - 1 \in Nat
        BY <4>1, <4>3
      <4>5. \A j \in Exact(t, a) : j <= n - 1
        BY <4>1, <3>1
      <4>6. n - 1 \in Later
        BY <4>4, <4>5
      <4> QED
        BY <4>1, <4>6, <3>3
    <3> QED
      BY <3>3, <3>4
  <2>2. PICK m : m = CHOOSE k \in Exact(t, a) : Latest(k)
    OBVIOUS
  <2>3. m \in Exact(t, a) /\ Latest(m)
    <3> HIDE DEF Latest
    <3> QED
      BY <2>1, <2>2
  <2>4. WithoutRoute(t, a) = RemoveAt(t, m)
    BY <1>2, <2>2 DEF WithoutRoute
  <2>5. m \in 1..Len(t)
    BY <2>3 DEF Exact
  <2> QED
    BY <2>3, <2>4, <2>5, RemoveAtProperties
<1> QED
  BY <1>1, <1>2

\* Every entry RemoveStaticRoute leaves was there before.
LEMMA WithoutRouteTyped ==
  ASSUME NEW t \in Seq(Entries), NEW a
  PROVE  /\ WithoutRoute(t, a) \in Seq(Entries)
         /\ Len(WithoutRoute(t, a)) <= Len(t)
         /\ \A n \in DOMAIN WithoutRoute(t, a) :
              \E k \in DOMAIN t : WithoutRoute(t, a)[n] = t[k]
<1>1. CASE WithoutRoute(t, a) = t
  BY <1>1
<1>2. CASE WithoutRoute(t, a) # t
  <2>1. PICK m \in Exact(t, a) :
          /\ WithoutRoute(t, a) \in Seq(Entries)
          /\ Len(WithoutRoute(t, a)) = Len(t) - 1
          /\ \A k \in 1..Len(t) - 1 :
               WithoutRoute(t, a)[k] = IF k < m THEN t[k] ELSE t[k + 1]
    BY <1>2, WithoutRouteEntries
  <2>2. \A n \in 1..Len(t) - 1 : \E k \in 1..Len(t) : WithoutRoute(t, a)[n] = t[k]
    <3> TAKE n \in 1..Len(t) - 1
    <3>1. n \in 1..Len(t) /\ n + 1 \in 1..Len(t)
      OBVIOUS
    <3>2. WithoutRoute(t, a)[n] = t[n] \/ WithoutRoute(t, a)[n] = t[n + 1]
      BY <2>1
    <3> QED
      BY <3>1, <3>2
  <2>3. PICK w \in Seq(Entries) : w = WithoutRoute(t, a)
    BY <2>1
  <2>4. Len(t) \in Nat /\ Len(w) = Len(t) - 1 /\ DOMAIN w = 1..Len(t) - 1
    BY <2>1, <2>3
  <2>5. DOMAIN t = 1..Len(t)
    OBVIOUS
  <2> QED
    BY <2>2, <2>3, <2>4, <2>5, SMTT(30)
<1> QED
  BY <1>1, <1>2

\* NotifyInterfaceDown keeps entries of the table, none of them through i.
LEMMA WithoutInterfaceEntries ==
  ASSUME NEW t \in Seq(Entries), NEW i
  PROVE  /\ WithoutInterface(t, i) \in Seq(Entries)
         /\ Len(WithoutInterface(t, i)) <= Len(t)
         /\ \A n \in DOMAIN WithoutInterface(t, i) :
              \E k \in DOMAIN t : WithoutInterface(t, i)[n] = t[k] /\ t[k].via # i
<1> DEFINE K == {k \in DOMAIN t : t[k].via # i}
<1>1. K \in SUBSET (1..Len(t))
  OBVIOUS
<1>2. WithoutInterface(t, i) = AtPositions(t, K)
  BY DEF WithoutInterface
<1>3. \A k \in K : k \in DOMAIN t /\ t[k].via # i
  OBVIOUS
<1> HIDE DEF K
<1> QED
  BY <1>1, <1>2, <1>3, EntriesAtPositions

\* NotifyRemoveAddress keeps entries of the table.
LEMMA WithoutNetworkEntries ==
  ASSUME NEW t \in Seq(Entries), NEW i, NEW r
  PROVE  /\ WithoutNetwork(t, i, r) \in Seq(Entries)
         /\ Len(WithoutNetwork(t, i, r)) <= Len(t)
         /\ \A n \in DOMAIN WithoutNetwork(t, i, r) :
              \E k \in DOMAIN t : WithoutNetwork(t, i, r)[n] = t[k]
<1>1. PICK K \in SUBSET (1..Len(t)) : WithoutNetwork(t, i, r) = AtPositions(t, K)
  <2>1. \E gone : WithoutNetwork(t, i, r) = AtPositions(t, {k \in DOMAIN t : ~gone[k]})
    BY DEF WithoutNetwork
  <2>2. PICK gone : WithoutNetwork(t, i, r) = AtPositions(t, {k \in DOMAIN t : ~gone[k]})
    BY <2>1
  <2>3. {k \in DOMAIN t : ~gone[k]} \in SUBSET (1..Len(t))
    OBVIOUS
  <2> QED
    BY <2>2, <2>3
<1>2. \A k \in K : k \in DOMAIN t
  OBVIOUS
<1> QED
  BY <1>1, <1>2, EntriesAtPositions

\* NotifyInterfaceUp adds the networks of addresses of i.
LEMMA WithNetworksEntries ==
  ASSUME NEW t \in Seq(Entries), NEW i \in Interfaces, locals[i] \in Seq(Locals)
  PROVE  /\ WithNetworks(t, i) \in Seq(Entries)
         /\ Len(WithNetworks(t, i)) <= Len(t) + Len(locals[i])
         /\ Len(t) <= Len(WithNetworks(t, i))
         /\ \A k \in 1..Len(t) : WithNetworks(t, i)[k] = t[k]
         /\ \A k \in DOMAIN WithNetworks(t, i) : Len(t) < k =>
              \E r \in Locals : WithNetworks(t, i)[k] = Connected(r, i)
<1> DEFINE K == {k \in DOMAIN locals[i] : locals[i][k].len # Width}
<1>1. K \in SUBSET (1..Len(locals[i]))
  OBVIOUS
<1>2. PICK own : own = AtPositions(locals[i], K)
  OBVIOUS
<1>3. own \in Seq(Locals) /\ Len(own) <= Len(locals[i])
  <2> HIDE DEF K
  <2> QED
    BY <1>1, <1>2, EntriesAtPositions
<1>4. PICK new : new = [k \in DOMAIN own |-> Connected(own[k], i)]
  OBVIOUS
<1>5. WithNetworks(t, i) = t \o new
  BY <1>2, <1>4 DEF WithNetworks
<1>6. \A k \in 1..Len(own) : own[k] \in Locals /\ new[k] = Connected(own[k], i)
  BY <1>3, <1>4
<1>7. new \in Seq(Entries) /\ Len(new) = Len(own)
  <2>1. \A k \in 1..Len(own) : Connected(own[k], i) \in Entries
    BY <1>6, ConnectedTyped
  <2>2. new \in [1..Len(own) -> Entries] /\ Len(own) \in Nat
    BY <1>3, <1>4, <2>1
  <2> QED
    BY <2>2
<1>8. /\ t \o new \in Seq(Entries) /\ Len(t \o new) = Len(t) + Len(new)
      /\ \A k \in 1..Len(t) : (t \o new)[k] = t[k]
      /\ \A k \in 1..Len(t) + Len(new) : Len(t) < k => (t \o new)[k] = new[k - Len(t)]
  <2>1. Len(t) \in Nat /\ Len(new) \in Nat
    BY <1>7
  <2>2. \A k \in 1..Len(t) + Len(new) :
          (t \o new)[k] = IF k <= Len(t) THEN t[k] ELSE new[k - Len(t)]
    BY <1>7
  <2>3. \A k \in 1..Len(t) : k \in 1..Len(t) + Len(new)
    BY <2>1
  <2>4. t \o new \in Seq(Entries) /\ Len(t \o new) = Len(t) + Len(new)
    BY <1>7
  <2>5. \A k \in 1..Len(t) : k <= Len(t)
    BY <2>1
  <2>6. \A k \in 1..Len(t) + Len(new) : Len(t) < k => ~(k <= Len(t))
    BY <2>1
  <2> QED
    BY <2>2, <2>3, <2>4, <2>5, <2>6
<1>9. \A k \in 1..Len(t) + Len(new) : Len(t) < k => \E r \in Locals : (t \o new)[k] = Connected(r, i)
  <2> TAKE k \in 1..Len(t) + Len(new)
  <2> HAVE Len(t) < k
  <2>1. k - Len(t) \in 1..Len(own)
    BY <1>7
  <2>2. (t \o new)[k] = Connected(own[k - Len(t)], i)
    BY <1>6, <1>8, <2>1
  <2> QED
    BY <1>6, <2>1, <2>2
<1> QED
  BY <1>3, <1>5, <1>7, <1>8, <1>9

----------------------------------------------------------------------------
(* The table of any router.                                                *)

\* The inductive invariant of the table.
RouterInv == TypeOK /\ NoRouteThroughDown

\* A new table has no entry.
LEMMA RouterInit == Init => RouterInv
<1> SUFFICES ASSUME Init PROVE RouterInv
  OBVIOUS
<1>1. table \in Seq(Entries) /\ Len(table) = 0
  BY DEF Init
<1>2. locals \in [Interfaces -> Seq(Locals)] /\ up \in [Interfaces -> BOOLEAN]
  BY DEF Init
<1>3. NoRouteThroughDown
  BY DEF Init, NoRouteThroughDown
<1> QED
  BY <1>1, <1>2, <1>3, RoutingAssumption DEF RouterInv, TypeOK, RoutingAssumption

\* Every call keeps RouterInv.
LEMMA RouterStep == RouterInv /\ [Next]_tableVars => RouterInv'
<1> SUFFICES ASSUME RouterInv, [Next]_tableVars PROVE RouterInv'
  OBVIOUS
<1>0. /\ table \in Seq(Entries) /\ Len(table) \in Nat /\ Len(table) <= MaxTable
      /\ locals \in [Interfaces -> Seq(Locals)] /\ up \in [Interfaces -> BOOLEAN]
      /\ \A k \in DOMAIN table : up[table[k].via]
      /\ MaxTable \in Nat /\ MaxLocals \in Nat
  BY RoutingAssumption DEF RouterInv, TypeOK, NoRouteThroughDown, RoutingAssumption
<1>1. ASSUME NEW r \in UserRoutes, NEW i \in Interfaces, NEW metric \in Metrics,
             up[i], AddNetworkRouteTo(r, i, metric)
      PROVE  RouterInv'
  <2>1. PICK e : e = Route(r.dest, r.len, i, metric)
    OBVIOUS
  <2>2. e \in Entries /\ e.via = i
    BY <2>1, RouteTyped, RoutingAssumption DEF RoutingAssumption
  <2>3. table' = Append(table, e) /\ Len(table) < MaxTable
    BY <1>1, <2>1 DEF AddNetworkRouteTo
  <2>4. table' \in Seq(Entries) /\ Len(table') <= MaxTable
    BY <1>0, <2>2, <2>3, AppendEntry
  <2>5. \A k \in DOMAIN table' : up[table'[k].via]
    BY <1>0, <1>1, <2>2, <2>3, AppendEntry
  <2> QED
    BY <1>0, <1>1, <2>4, <2>5 DEF RouterInv, TypeOK, NoRouteThroughDown, AddNetworkRouteTo
<1>2. ASSUME NEW a \in Removable, RemoveStaticRoute(a)
      PROVE  RouterInv'
  <2>1. table' = WithoutRoute(table, a) /\ UNCHANGED <<locals, up>>
    BY <1>2 DEF RemoveStaticRoute
  <2>2. table' \in Seq(Entries) /\ Len(table') <= MaxTable
    BY <1>0, <2>1, WithoutRouteTyped
  <2>3. \A k \in DOMAIN table' : up[table'[k].via]
    BY <1>0, <2>1, WithoutRouteTyped
  <2> QED
    BY <1>0, <2>1, <2>2, <2>3 DEF RouterInv, TypeOK, NoRouteThroughDown
<1>3. ASSUME NEW i \in Interfaces, NEW r \in Locals, AddAddress(i, r)
      PROVE  RouterInv'
  <2>1. locals' \in [Interfaces -> Seq(Locals)]
    BY <1>0, <1>3 DEF AddAddress
  <2>2. CASE up[i]
    <3>1. Connected(r, i) \in Entries /\ Connected(r, i).via = i
      BY ConnectedTyped
    <3>2. table' = Append(table, Connected(r, i)) /\ Len(table) < MaxTable
      BY <1>3, <2>2 DEF AddAddress
    <3>3. table' \in Seq(Entries) /\ Len(table') <= MaxTable
      BY <1>0, <3>1, <3>2, AppendEntry
    <3>4. \A k \in DOMAIN table' : up[table'[k].via]
      BY <1>0, <2>2, <3>1, <3>2, AppendEntry
    <3> QED
      BY <1>0, <1>3, <2>1, <3>3, <3>4
      DEF RouterInv, TypeOK, NoRouteThroughDown, AddAddress
  <2>3. CASE ~up[i]
    BY <1>0, <1>3, <2>1, <2>3 DEF RouterInv, TypeOK, NoRouteThroughDown, AddAddress
  <2> QED
    BY <2>2, <2>3
<1>4. ASSUME NEW i \in Interfaces, NEW k \in 1..MaxLocals, RemoveAddress(i, k)
      PROVE  RouterInv'
  <2>1. k \in 1..Len(locals[i]) /\ locals[i] \in Seq(Locals)
    BY <1>0, <1>4 DEF RemoveAddress
  <2>2. RemoveAt(locals[i], k) \in Seq(Locals)
    BY <2>1, RemoveAtProperties
  <2>3. locals' \in [Interfaces -> Seq(Locals)] /\ up' = up
    BY <1>0, <1>4, <2>2 DEF RemoveAddress
  <2>4. PICK r : r = locals[i][k]
    OBVIOUS
  <2>5. table' = IF up[i] THEN WithoutNetwork(table, i, r) ELSE table
    BY <1>4, <2>4 DEF RemoveAddress
  <2>6. table' \in Seq(Entries) /\ Len(table') <= MaxTable
    BY <1>0, <2>5, WithoutNetworkEntries
  <2>7. \A n \in DOMAIN table' : up[table'[n].via]
    BY <1>0, <2>5, WithoutNetworkEntries
  <2> QED
    BY <2>3, <2>6, <2>7, <1>0 DEF RouterInv, TypeOK, NoRouteThroughDown
<1>5. ASSUME NEW i \in Interfaces, SetUp(i)
      PROVE  RouterInv'
  <2>1. /\ table' = WithNetworks(table, i) /\ locals' = locals
        /\ Len(table) + Len(locals[i]) <= MaxTable
        /\ up' \in [Interfaces -> BOOLEAN] /\ up'[i]
        /\ \A j \in Interfaces : up[j] => up'[j]
    BY <1>0, <1>5 DEF SetUp
  <2>2. locals[i] \in Seq(Locals) /\ Len(locals[i]) \in Nat
    BY <1>0
  <2>3. PICK t : t = WithNetworks(table, i)
    OBVIOUS
  <2>4. /\ t \in Seq(Entries) /\ Len(t) <= Len(table) + Len(locals[i])
        /\ Len(table) <= Len(t)
        /\ \A k \in 1..Len(table) : t[k] = table[k]
        /\ \A k \in DOMAIN t : Len(table) < k =>
             \E r \in Locals : t[k] = Connected(r, i)
    <3>1. table \in Seq(Entries)
      BY <1>0
    <3>2. /\ WithNetworks(table, i) \in Seq(Entries)
          /\ Len(WithNetworks(table, i)) <= Len(table) + Len(locals[i])
          /\ Len(table) <= Len(WithNetworks(table, i))
          /\ \A k \in 1..Len(table) : WithNetworks(table, i)[k] = table[k]
          /\ \A k \in DOMAIN WithNetworks(table, i) : Len(table) < k =>
               \E r \in Locals : WithNetworks(table, i)[k] = Connected(r, i)
      BY <2>2, <3>1, WithNetworksEntries, Zenon
    <3> QED
      BY <2>3, <3>2, Zenon
  <2>5. \A k \in DOMAIN t : up'[t[k].via]
    <3> TAKE k \in DOMAIN t
    <3>0. k \in 1..Len(t) /\ Len(t) \in Nat
      BY <2>4
    <3>1. CASE k <= Len(table)
      <4>1. k \in 1..Len(table) /\ t[k] = table[k]
        BY <3>0, <3>1, <1>0, <2>4
      <4>2. table[k] \in Entries
        BY <4>1, <1>0
      <4> QED
        BY <4>1, <4>2, <1>0, <2>1 DEF Entries
    <3>2. CASE Len(table) < k
      BY <3>2, <2>1, <2>4, ConnectedTyped
    <3> QED
      BY <3>0, <3>1, <3>2, <1>0
  <2>6. Len(t) <= MaxTable
    BY <1>0, <2>1, <2>2, <2>4
  <2> QED
    BY <1>0, <2>1, <2>3, <2>4, <2>5, <2>6 DEF RouterInv, TypeOK, NoRouteThroughDown
<1>6. ASSUME NEW i \in Interfaces, SetDown(i)
      PROVE  RouterInv'
  <2>1. /\ table' = WithoutInterface(table, i) /\ locals' = locals
        /\ up' \in [Interfaces -> BOOLEAN]
        /\ \A j \in Interfaces : j # i => up'[j] = up[j]
    BY <1>0, <1>6 DEF SetDown
  <2>2. table' \in Seq(Entries) /\ Len(table') <= MaxTable
    BY <1>0, <2>1, WithoutInterfaceEntries
  <2>3. \A n \in DOMAIN table' : up'[table'[n].via]
    <3> TAKE n \in DOMAIN table'
    <3>1. PICK k \in DOMAIN table : table'[n] = table[k] /\ table[k].via # i
      BY <1>0, <2>1, WithoutInterfaceEntries
    <3>2. table[k] \in Entries /\ up[table[k].via]
      BY <1>0
    <3> QED
      BY <2>1, <3>1, <3>2 DEF Entries
  <2> QED
    BY <1>0, <2>1, <2>2, <2>3 DEF RouterInv, TypeOK, NoRouteThroughDown
<1>7. CASE UNCHANGED tableVars
  BY <1>7 DEF tableVars, RouterInv, TypeOK, NoRouteThroughDown
<1> QED
  BY <1>1, <1>2, <1>3, <1>4, <1>5, <1>6, <1>7 DEF Next

\* The table of a router is typed, whatever calls are made on it and on the
\* interfaces of the node (the words of a freed entry never show up in it).
THEOREM TablesAreTyped == Spec => []TypeOK
<1>1. RouterInv => TypeOK
  BY DEF RouterInv
<1> QED
  BY RouterInit, RouterStep, <1>1, PTL DEF Spec

\* No route goes through an interface that is down: NotifyInterfaceDown leaves
\* none behind, though it removes entries from the list it walks, and no call
\* puts one back before SetUp.
THEOREM DownCarriesNothing == Spec => []NoRouteThroughDown
<1>1. RouterInv => NoRouteThroughDown
  BY DEF RouterInv
<1> QED
  BY RouterInit, RouterStep, <1>1, PTL DEF Spec

----------------------------------------------------------------------------
(* What LookupStatic computes.                                             *)

\* The matching entries of t, and those that are at least as good as every
\* matching entry before them.
Matches(t, a, out) == {k \in DOMAIN t : IsMatch(t[k], a) /\ t[k].via \in out}

\* f is at least as good as e.
AtLeast(e, f) == e.len < f.len \/ (e.len = f.len /\ f.metric <= e.metric)

Leaders(t, a, out) ==
  {k \in Matches(t, a, out) :
     \A j \in Matches(t, a, out) : j < k => AtLeast(t[j], t[k])}

\* The choice b after k entries: a leader no worse than any match, the first one
\* for a itself if there is one, else the last of all.
Sound(t, a, out, k, b) ==
  /\ b \in [pos : 0..k, len : Lengths, metric : Nat]
  /\ b.pos = 0 => b.len = 0 /\ \A j \in Matches(t, a, out) : j > k
  /\ b.pos # 0 =>
       /\ b.pos \in Leaders(t, a, out)
       /\ \A j \in Matches(t, a, out) : j <= k => AtLeast(t[j], b)
       /\ \E l \in Leaders(t, a, out) :
            /\ l <= k /\ t[l].len = b.len /\ t[l].metric = b.metric
            /\ \A j \in Leaders(t, a, out) : j <= k => j <= l
            /\ b.pos = l \/ t[b.pos].dest = a
       /\ \A j \in Leaders(t, a, out) : j <= k /\ t[j].dest = a =>
            t[b.pos].dest = a /\ b.pos <= j

\* One turn of the loop of LookupStatic.
LEMMA ExamineSound ==
  ASSUME NEW t \in Seq(Entries), NEW a, NEW out, NEW k \in 1..Len(t), NEW b,
         Sound(t, a, out, k - 1, b)
  PROVE  Sound(t, a, out, k, Examine(t, a, out, b, k))
<1> DEFINE M == Matches(t, a, out)
           L == Leaders(t, a, out)
           c == Examine(t, a, out, b, k)
<1>1. /\ k \in Nat /\ k # 0 /\ Len(t) \in Nat
      /\ b \in [pos : 0..k - 1, len : Lengths, metric : Nat]
      /\ \A j \in 1..Len(t) : t[j].len \in Nat /\ t[j].len \in Lengths /\ t[j].metric \in Nat
      /\ b.len \in Nat /\ b.metric \in Nat /\ b.pos \in 0..k - 1
  <2>1. \A len \in Lengths : len \in Nat
    BY DEF Lengths
  <2>2. b \in [pos : 0..k - 1, len : Lengths, metric : Nat]
    BY DEF Sound
  <2>3. \A j \in 1..Len(t) : t[j] \in Entries
    OBVIOUS
  <2>4. \A j \in 1..Len(t) : t[j].len \in Lengths /\ t[j].metric \in Nat
    BY <2>3 DEF Entries
  <2>5. k \in Nat /\ k # 0 /\ Len(t) \in Nat
    OBVIOUS
  <2> QED
    BY <2>1, <2>2, <2>4, <2>5
<1>2. /\ M \subseteq 1..Len(t) /\ L \subseteq M
      /\ \A j \in 1..Len(t) : j \in M <=> IsMatch(t[j], a) /\ t[j].via \in out
      /\ \A j \in M : j \in L <=> \A i \in M : i < j => AtLeast(t[i], t[j])
  BY DEF Matches, Leaders
<1>3. \A j \in M : j <= k <=> j <= k - 1 \/ j = k
  BY <1>1, <1>2
<1>4. /\ b.pos = 0 => b.len = 0 /\ \A j \in M : j > k - 1
      /\ b.pos # 0 =>
           /\ b.pos \in L
           /\ \A j \in M : j <= k - 1 => AtLeast(t[j], b)
           /\ \A j \in L : j <= k - 1 /\ t[j].dest = a => t[b.pos].dest = a /\ b.pos <= j
  BY DEF Sound
<1>5. b.pos # 0 =>
        \E l \in L : /\ l <= k - 1 /\ t[l].len = b.len /\ t[l].metric = b.metric
                     /\ \A j \in L : j <= k - 1 => j <= l
                     /\ b.pos = l \/ t[b.pos].dest = a
  BY DEF Sound
<1> HIDE DEF M, L
<1>6. CASE k \notin L /\ c = b /\ (k \in M => b.pos # 0 /\ AtLeast(t[k], b))
  <2>1. c \in [pos : 0..k, len : Lengths, metric : Nat]
    BY <1>1, <1>6
  <2>2. b.pos = 0 => \A j \in M : j > k
    BY <1>1, <1>2, <1>3, <1>4, <1>6
  <2>3. b.pos # 0 => \A j \in M : j <= k => AtLeast(t[j], b)
    BY <1>3, <1>4, <1>6
  <2>4. b.pos # 0 => \A j \in L : j <= k /\ t[j].dest = a => t[b.pos].dest = a /\ b.pos <= j
    BY <1>2, <1>3, <1>4, <1>6
  <2>5. b.pos # 0 =>
          \E l \in L : /\ l <= k /\ t[l].len = b.len /\ t[l].metric = b.metric
                       /\ \A j \in L : j <= k => j <= l
                       /\ b.pos = l \/ t[b.pos].dest = a
    BY <1>2, <1>3, <1>5, <1>6
  <2>6. Sound(t, a, out, k, c)
    <3> HIDE DEF c
    <3> QED
      BY <1>4, <1>6, <2>1, <2>2, <2>3, <2>4, <2>5 DEF Sound, M, L
  <2> QED
    BY <2>6
<1>7. CASE /\ k \in L
           /\ c = [pos |-> IF Kept(t, b.pos, a) THEN b.pos ELSE k,
                   len |-> t[k].len, metric |-> t[k].metric]
  <2>0. PICK p : p = c.pos
    OBVIOUS
  <2>1. /\ p = IF Kept(t, b.pos, a) THEN b.pos ELSE k
        /\ c.len = t[k].len /\ c.metric = t[k].metric
    BY <1>7, <2>0
  <2>2. k \in M /\ \A i \in M : i < k => AtLeast(t[i], t[k])
    BY <1>2, <1>7
  <2>3. p # 0 /\ p \in 0..k /\ p \in L
    BY <1>1, <1>4, <1>7, <2>1 DEF Kept
  <2>4. c \in [pos : 0..k, len : Lengths, metric : Nat]
    <3>1. t[k].len \in Lengths /\ t[k].metric \in Nat
      BY <1>1
    <3>2. c = [pos |-> p, len |-> t[k].len, metric |-> t[k].metric]
      BY <1>7, <2>1
    <3> HIDE DEF c
    <3> QED
      BY <2>3, <3>1, <3>2
  <2>5. AtLeast(t[k], t[k])
    BY <1>1 DEF AtLeast
  <2>6. \A j \in M : j <= k => AtLeast(t[j], c)
    <3>1. \A j \in M : j <= k => AtLeast(t[j], t[k])
      <4> TAKE j \in M
      <4> HAVE j <= k
      <4>1. j < k \/ j = k
        BY <1>1, <1>2
      <4> QED
        BY <4>1, <2>2, <2>5
    <3> HIDE DEF c
    <3> QED
      BY <2>1, <3>1 DEF AtLeast
  <2>7. \A j \in L : j <= k /\ t[j].dest = a => t[p].dest = a /\ p <= j
    <3> TAKE j \in L
    <3> HAVE j <= k /\ t[j].dest = a
    <3>1. CASE j <= k - 1
      <4>1. b.pos # 0
        BY <1>1, <1>2, <1>4, <3>1
      <4> QED
        BY <1>4, <2>1, <3>1, <4>1 DEF Kept
    <3>2. CASE j = k
      BY <1>1, <2>1, <3>2 DEF Kept
    <3> QED
      BY <1>2, <1>3, <3>1, <3>2
  <2>8. p = k \/ t[p].dest = a
    BY <2>1 DEF Kept
  <2>9. k <= k /\ \A j \in L : j <= k => j <= k
    BY <1>1
  <2>10. Sound(t, a, out, k, c)
    <3> HIDE DEF c
    <3> QED
      BY <1>7, <2>0, <2>1, <2>3, <2>4, <2>6, <2>7, <2>8, <2>9 DEF Sound, M, L
  <2> QED
    BY <2>10
<1>8. CASE k \notin M
  BY <1>2, <1>6, <1>8 DEF Examine
<1>9. CASE k \in M /\ Worse(t[k], b)
  <2>1. b.pos # 0
    <3>1. t[k].len \in Nat /\ b.len \in Nat
      BY <1>1
    <3>2. ~(b.pos = 0)
      BY <1>4, <1>9, <3>1 DEF Worse
    <3> QED
      BY <3>2
  <2>2. AtLeast(t[k], b) /\ t[k].len \in Nat /\ t[k].metric \in Nat
    <3>1. k \in 1..Len(t)
      OBVIOUS
    <3> QED
      BY <1>1, <1>9, <3>1 DEF Worse, AtLeast
  <2>3. PICK l \in L : l <= k - 1 /\ t[l].len = b.len /\ t[l].metric = b.metric
    BY <1>5, <2>1
  <2>4. l \in M /\ l < k
    BY <1>1, <1>2, <2>3
  <2>5. ~AtLeast(t[l], t[k])
    BY <1>1, <1>9, <2>2, <2>3 DEF Worse, AtLeast
  <2>6. k \notin L
    BY <1>2, <2>4, <2>5
  <2>7. c = b
    BY <1>9 DEF Examine
  <2> QED
    BY <2>1, <2>2, <2>6, <2>7, <1>6
<1>10. CASE k \in M /\ ~Worse(t[k], b)
  <2>1. \A j \in M : j < k => AtLeast(t[j], t[k])
    <3> TAKE j \in M
    <3> HAVE j < k
    <3>1. j <= k - 1 /\ j \in 1..Len(t) /\ k \in 1..Len(t)
      BY <1>1, <1>2
    <3>2. b.pos # 0
      BY <1>4, <3>1
    <3>3. AtLeast(t[j], b)
      BY <1>4, <3>1, <3>2
    <3> QED
      BY <1>1, <1>10, <3>1, <3>2, <3>3, SMTT(30) DEF Worse, AtLeast
  <2>2. k \in L
    BY <1>2, <1>10, <2>1
  <2>3. IsMatch(t[k], a) /\ t[k].via \in out
    BY <1>2, <1>10
  <2> QED
    BY <2>2, <2>3, <1>7, <1>10 DEF Examine
<1> QED
  BY <1>8, <1>9, <1>10

\* The loop of LookupStatic makes Len(t) turns.
LEMMA LookupIsLoop ==
  ASSUME NEW t \in Seq(Entries), NEW a, NEW out, 0 \in Lengths
  PROVE  \E best : /\ best[0] = NoChoice
                   /\ \A k \in 1..Len(t) : best[k] = Examine(t, a, out, best[k - 1], k)
                   /\ LookupStatic(t, a, out) = best[Len(t)].pos
<1>1. PICK N \in Nat : N = Len(t)
  OBVIOUS
<1>2. PICK Bests : Bests = [pos : 0..N, len : Lengths, metric : Nat]
  OBVIOUS
<1>3. NoChoice \in Bests
  BY <1>2 DEF NoChoice
<1>4. \A k \in 1..N : \A b \in Bests : Examine(t, a, out, b, k) \in Bests
  <2> TAKE k \in 1..N
  <2> TAKE b \in Bests
  <2>1. t[k] \in Entries /\ k \in 0..N
    BY <1>1
  <2>2. t[k].len \in Lengths /\ t[k].metric \in Nat /\ b.pos \in 0..N
    BY <1>2, <2>1 DEF Entries
  <2> QED
    BY <1>2, <2>1, <2>2 DEF Examine
<1>5. PICK turn \in [(1..N) \X Bests -> Bests] :
         \A k \in 1..N : \A b \in Bests : turn[<<k, b>>] = Examine(t, a, out, b, k)
  <2> DEFINE f == [p \in (1..N) \X Bests |-> Examine(t, a, out, p[2], p[1])]
  <2>1. f \in [(1..N) \X Bests -> Bests]
    BY <1>4
  <2>2. \A k \in 1..N : \A b \in Bests : f[<<k, b>>] = Examine(t, a, out, b, k)
    OBVIOUS
  <2> HIDE DEF f
  <2> QED
    BY <2>1, <2>2
<1>6. PICK f \in [0..N -> Bests] : Runs(f, N, NoChoice, turn)
  BY <1>3, <1>5, LoopIsDefined
<1>7. f[0] = NoChoice /\ \A k \in 1..N : f[k] = Examine(t, a, out, f[k - 1], k)
  <2>1. \A k \in 1..N : k - 1 \in 0..N /\ f[k - 1] \in Bests
    OBVIOUS
  <2> QED
    BY <2>1, <1>5, <1>6 DEF Runs
<1> DEFINE Defines(g) ==
             g = [k \in 0..Len(t) |->
                    IF k = 0 THEN NoChoice ELSE Examine(t, a, out, g[k - 1], k)]
<1>8. Defines(f)
  <2>1. \A k \in 0..N : f[k] = IF k = 0 THEN NoChoice ELSE Examine(t, a, out, f[k - 1], k)
    <3> TAKE k \in 0..N
    <3>1. k = 0 \/ k \in 1..N
      OBVIOUS
    <3> QED
      BY <3>1, <1>7
  <2> QED
    BY <1>1, <2>1
<1>9. PICK best : best = CHOOSE g : Defines(g)
  OBVIOUS
<1>10. Defines(best)
  <2> HIDE DEF Defines
  <2> QED
    BY <1>8, <1>9
<1>11. LookupStatic(t, a, out) = best[Len(t)].pos
  BY <1>9 DEF LookupStatic
<1>12. best[0] = NoChoice /\ \A k \in 1..N : best[k] = Examine(t, a, out, best[k - 1], k)
  <2>1. \A k \in 0..N : best[k] = IF k = 0 THEN NoChoice ELSE Examine(t, a, out, best[k - 1], k)
    BY <1>1, <1>10
  <2>2. \A k \in 1..N : k \in 0..N /\ k # 0
    OBVIOUS
  <2> QED
    BY <2>1, <2>2
<1> QED
  BY <1>1, <1>11, <1>12

\* The choice after all entries is the result.
LEMMA LookupSound ==
  ASSUME NEW t \in Seq(Entries), NEW a, NEW out
  PROVE  \E b : Sound(t, a, out, Len(t), b) /\ LookupStatic(t, a, out) = b.pos
<1>0. 0 \in Lengths
  BY RoutingAssumption DEF RoutingAssumption, Lengths
<1>1. PICK best : /\ best[0] = NoChoice
                  /\ \A k \in 1..Len(t) : best[k] = Examine(t, a, out, best[k - 1], k)
                  /\ LookupStatic(t, a, out) = best[Len(t)].pos
  BY <1>0, LookupIsLoop
<1> DEFINE G == {k \in 0..Len(t) : Sound(t, a, out, k, best[k])}
           M == Matches(t, a, out)
<1>2. 0 \in G
  <2>1. NoChoice \in [pos : 0..0, len : Lengths, metric : Nat]
    BY <1>0 DEF NoChoice
  <2>2. \A j \in M : j > 0
    BY DEF Matches
  <2>3. NoChoice.pos = 0 /\ NoChoice.len = 0
    BY DEF NoChoice
  <2>4. Sound(t, a, out, 0, NoChoice)
    BY <2>1, <2>2, <2>3 DEF Sound
  <2> QED
    BY <1>1, <2>4
<1>3. \A k \in 1..Len(t) : k - 1 \in G => k \in G
  BY <1>1, ExamineSound
<1>4. Len(t) \in G
  <2>1. Len(t) \in Nat /\ Len(t) \in 0..Len(t)
    OBVIOUS
  <2>2. 0..Len(t) \subseteq G
    <3> HIDE DEF G
    <3> QED
      BY <1>2, <1>3, <2>1, PrefixInduction
  <2> HIDE DEF G
  <2> QED
    BY <2>1, <2>2
<1> QED
  BY <1>1, <1>4

\* LookupStatic returns the entry Chosen describes, for every list of entries.
LEMMA LookupChooses ==
  ASSUME NEW t \in Seq(Entries), NEW a, NEW out
  PROVE  LookupStatic(t, a, out) = Chosen(t, a, out)
<1> DEFINE M == Matches(t, a, out)
           L == Leaders(t, a, out)
<1>1. PICK b : Sound(t, a, out, Len(t), b) /\ LookupStatic(t, a, out) = b.pos
  BY LookupSound
<1>2. \A j \in M : j \in Nat /\ j <= Len(t) /\ ~(j > Len(t))
  BY DEF Matches
<1>3. L \subseteq M
  BY DEF Leaders
<1> DEFINE Own == {k \in L : t[k].dest = a}
           First(k) == \A j \in Own : k <= j
           Latest(k) == \A j \in L : j <= k
<1>4. Chosen(t, a, out) = IF L = {} THEN 0
                          ELSE IF Own # {} THEN CHOOSE k \in Own : First(k)
                          ELSE CHOOSE k \in L : Latest(k)
  BY DEF Chosen, Leaders, Matches, AtLeast
<1>5. /\ b.pos = 0 => \A j \in M : j > Len(t)
      /\ b.pos # 0 =>
           /\ b.pos \in L
           /\ \E l \in L : /\ \A j \in L : j <= Len(t) => j <= l
                           /\ b.pos = l \/ t[b.pos].dest = a
           /\ \A j \in L : j <= Len(t) /\ t[j].dest = a => t[b.pos].dest = a /\ b.pos <= j
  BY <1>1 DEF Sound
<1> HIDE DEF M, L
<1>6. CASE b.pos = 0
  BY <1>1, <1>2, <1>3, <1>4, <1>5, <1>6
<1>7. CASE b.pos # 0 /\ t[b.pos].dest = a
  <2>1. b.pos \in Own /\ First(b.pos)
    BY <1>2, <1>3, <1>5, <1>7
  <2>2. \A k \in Own : First(k) => k = b.pos
    BY <1>2, <1>3, <2>1
  <2>3. L # {} /\ Own # {}
    BY <2>1
  <2> HIDE DEF Own, First
  <2>4. (CHOOSE k \in Own : First(k)) = b.pos
    BY <2>1, <2>2
  <2> QED
    BY <2>3, <2>4, <1>1, <1>4
<1>8. CASE b.pos # 0 /\ t[b.pos].dest # a
  <2>1. b.pos \in L /\ Latest(b.pos)
    BY <1>2, <1>3, <1>5, <1>8
  <2>2. \A k \in L : Latest(k) => k = b.pos
    BY <1>2, <1>3, <2>1
  <2>3. L # {} /\ Own = {}
    BY <1>2, <1>3, <1>5, <1>8
  <2> HIDE DEF Own, Latest
  <2>4. (CHOOSE k \in L : Latest(k)) = b.pos
    BY <2>1, <2>2
  <2> QED
    BY <2>3, <2>4, <1>1, <1>4
<1> QED
  BY <1>6, <1>7, <1>8

\* One pass over the table, with its resets of the longest mask and its exact
\* match kept, returns the entry the specification of the lookup names, on
\* every table a router can have.
THEOREM LookupMeetsSpecification == Spec => []LookupIsChosen
<1>1. RouterInv => LookupIsChosen
  BY LookupChooses DEF RouterInv, TypeOK, LookupIsChosen
<1> QED
  BY RouterInit, RouterStep, <1>1, PTL DEF Spec

\* An entry of the table was there, or is a user's or an address's.
LEMMA WhereEntriesComeFrom ==
  ASSUME RouterInv, [Next]_tableVars, NEW n \in DOMAIN table'
  PROVE  \/ \E k \in DOMAIN table : table'[n] = table[k]
         \/ \E r \in UserRoutes, i \in Interfaces, metric \in Metrics :
              table'[n] = Route(r.dest, r.len, i, metric)
         \/ \E r \in Locals, i \in Interfaces : table'[n] = Connected(r, i)
<1>0. /\ table \in Seq(Entries) /\ Len(table) \in Nat
      /\ locals \in [Interfaces -> Seq(Locals)]
  BY DEF RouterInv, TypeOK
<1>1. ASSUME NEW e \in Entries, table' = Append(table, e)
      PROVE  table'[n] = e \/ \E k \in DOMAIN table : table'[n] = table[k]
  BY <1>0, <1>1, AppendEntry
<1>2. ASSUME NEW r \in UserRoutes, NEW i \in Interfaces, NEW metric \in Metrics,
             AddNetworkRouteTo(r, i, metric)
      PROVE  \/ table'[n] = Route(r.dest, r.len, i, metric)
             \/ \E k \in DOMAIN table : table'[n] = table[k]
  <2>1. Route(r.dest, r.len, i, metric) \in Entries
    BY RouteTyped, RoutingAssumption DEF RoutingAssumption
  <2> QED
    BY <2>1, <1>1, <1>2 DEF AddNetworkRouteTo
<1>3. ASSUME NEW a \in Removable, RemoveStaticRoute(a)
      PROVE  \E k \in DOMAIN table : table'[n] = table[k]
  BY <1>0, <1>3, WithoutRouteTyped DEF RemoveStaticRoute
<1>4. ASSUME NEW i \in Interfaces, NEW r \in Locals, AddAddress(i, r)
      PROVE  \/ table'[n] = Connected(r, i)
             \/ \E k \in DOMAIN table : table'[n] = table[k]
  <2>1. CASE up[i]
    BY <2>1, <1>1, <1>4, ConnectedTyped DEF AddAddress
  <2>2. CASE ~up[i]
    BY <2>2, <1>4 DEF AddAddress
  <2> QED
    BY <2>1, <2>2
<1>5. ASSUME NEW i \in Interfaces, NEW k \in 1..MaxLocals, RemoveAddress(i, k)
      PROVE  \E j \in DOMAIN table : table'[n] = table[j]
  <2>1. CASE up[i]
    BY <2>1, <1>0, <1>5, WithoutNetworkEntries DEF RemoveAddress
  <2>2. CASE ~up[i]
    BY <2>2, <1>5 DEF RemoveAddress
  <2> QED
    BY <2>1, <2>2
<1>6. ASSUME NEW i \in Interfaces, SetUp(i)
      PROVE  \/ \E k \in DOMAIN table : table'[n] = table[k]
             \/ \E r \in Locals : table'[n] = Connected(r, i)
  <2>1. locals[i] \in Seq(Locals) /\ table' = WithNetworks(table, i)
    BY <1>0, <1>6 DEF SetUp
  <2>2. /\ \A k \in 1..Len(table) : table'[k] = table[k]
        /\ \A k \in DOMAIN table' : Len(table) < k => \E r \in Locals : table'[k] = Connected(r, i)
        /\ table' \in Seq(Entries)
    BY <1>0, <2>1, WithNetworksEntries
  <2>3. n \in 1..Len(table') /\ Len(table') \in Nat
    BY <2>2
  <2>4. n \in 1..Len(table) \/ Len(table) < n
    BY <1>0, <2>3
  <2> QED
    BY <1>0, <2>2, <2>4
<1>7. ASSUME NEW i \in Interfaces, SetDown(i)
      PROVE  \E k \in DOMAIN table : table'[n] = table[k]
  BY <1>0, <1>7, WithoutInterfaceEntries DEF SetDown
<1>8. CASE UNCHANGED tableVars
  BY <1>8 DEF tableVars
<1> QED
  BY <1>2, <1>3, <1>4, <1>5, <1>6, <1>7, <1>8 DEF Next

\* A mask of no length leaves nothing of an address.
LEMMA NoMask ==
  ASSUME NEW a \in Addresses
  PROVE  CombineMask(a, 0) = 0
<1>1. Width \in Nat /\ Pow2 \in [0..Width -> Nat \ {0}]
  BY RoutingAssumption, PowersArePositive DEF RoutingAssumption
<1>2. PICK d \in Nat \ {0} : d = Pow2[Width]
  BY <1>1
<1>3. Size[0] = d
  BY <1>1, <1>2 DEF Size, Lengths
<1>4. a \in Nat /\ a < d
  BY <1>2 DEF Addresses
<1>5. a % d = a
  BY <1>4
<1> QED
  BY <1>3, <1>4, <1>5 DEF CombineMask

\* Only the default route has a mask of no length, if users add no other.
DefaultInv == \A k \in DOMAIN table : table[k].len = 0 => table[k].dest = 0

\* No call breaks it.
LEMMA DefaultInductive ==
  ASSUME \A r \in UserRoutes : r.len = 0 => r.dest = 0
  PROVE  /\ Init => DefaultInv
         /\ RouterInv /\ DefaultInv /\ [Next]_tableVars => DefaultInv'
<1>1. Init => DefaultInv
  BY DEF Init, DefaultInv
<1>2. ASSUME RouterInv, DefaultInv, [Next]_tableVars, NEW n \in DOMAIN table', table'[n].len = 0
      PROVE  table'[n].dest = 0
  <2>1. CASE \E k \in DOMAIN table : table'[n] = table[k]
    BY <2>1, <1>2 DEF DefaultInv
  <2>2. ASSUME NEW r \in UserRoutes, NEW i \in Interfaces, NEW metric \in Metrics,
               table'[n] = Route(r.dest, r.len, i, metric)
        PROVE  table'[n].dest = 0
    BY <2>2, <1>2 DEF Route
  <2>3. ASSUME NEW r \in Locals, NEW i \in Interfaces, table'[n] = Connected(r, i)
        PROVE  table'[n].dest = 0
    <3>1. r.len = 0 /\ r.local \in Addresses
      BY <2>3, <1>2, ConnectedTyped, RoutingAssumption DEF RoutingAssumption
    <3> QED
      BY <3>1, <2>3, ConnectedTyped, NoMask
  <2> QED
    BY <2>1, <2>2, <2>3, <1>2, WhereEntriesComeFrom
<1>3. RouterInv /\ DefaultInv /\ [Next]_tableVars => DefaultInv'
  BY <1>2 DEF DefaultInv
<1> QED
  BY <1>1, <1>3

\* ipv4-static-routing.h on SetDefaultRoute: the default route is what
\* LookupStatic returns "if no specific route is found", and only then.
DefaultIsLast ==
  (\E k \in DOMAIN table : table[k].dest = 0 /\ table[k].len = 0) =>
    \A a \in Addresses \ {0} :
      LET k == LookupStatic(table, a, Interfaces) IN
        /\ k # 0
        /\ table[k].len = 0 <=>
             ~ \E j \in DOMAIN table : table[j].len # 0 /\ IsMatch(table[j], a)

\* When a default route is in the table every address has a route, and the
\* default route is the one taken only if no other entry matches; users add no
\* other route under a mask of no length.
THEOREM DefaultRouteIsLast ==
  ASSUME \A r \in UserRoutes : r.len = 0 => r.dest = 0
  PROVE  Spec => []DefaultIsLast
<1>1. ASSUME RouterInv, DefaultInv, NEW d \in DOMAIN table, NEW a \in Addresses \ {0},
             table[d].dest = 0, table[d].len = 0
      PROVE  LET k == LookupStatic(table, a, Interfaces) IN
             /\ k # 0
             /\ table[k].len = 0 <=>
                  ~ \E j \in DOMAIN table : table[j].len # 0 /\ IsMatch(table[j], a)
  <2>1. table \in Seq(Entries) /\ \A j \in DOMAIN table : table[j] \in Entries
    BY <1>1 DEF RouterInv, TypeOK
  <2>2. /\ \A j \in DOMAIN table : table[j].via \in Interfaces /\ table[j].len \in Nat
        /\ Len(table) \in Nat /\ \A j \in DOMAIN table : j \in 1..Len(table)
    BY <2>1 DEF Entries, Lengths
  <2>3. IsMatch(table[d], a)
    <3>1. 0 \in Addresses
      BY PowersArePositive, RoutingAssumption DEF Addresses, RoutingAssumption
    <3> QED
      BY <3>1, <1>1, NoMask DEF IsMatch
  <2> DEFINE M == Matches(table, a, Interfaces)
             L == Leaders(table, a, Interfaces)
  <2>4. \A j \in DOMAIN table : j \in M <=> IsMatch(table[j], a)
    BY <2>2 DEF Matches
  <2>5. L \subseteq M /\ M \subseteq DOMAIN table
    BY DEF Leaders, Matches
  <2>6. PICK b : /\ Sound(table, a, Interfaces, Len(table), b)
                 /\ LookupStatic(table, a, Interfaces) = b.pos
    BY <2>1, LookupSound
  <2>7. b.pos # 0
    <3>1. d \in M /\ ~(d > Len(table))
      BY <2>2, <2>3, <2>4
    <3> QED
      BY <3>1, <2>6 DEF Sound
  <2>8. PICK l \in L : /\ table[l].len = b.len
                       /\ b.pos = l \/ table[b.pos].dest = a
    BY <2>6, <2>7 DEF Sound
  <2>9. \A j \in M : AtLeast(table[j], b)
    BY <2>2, <2>5, <2>6, <2>7 DEF Sound
  <2>10. b.pos \in M
    BY <2>5, <2>6, <2>7 DEF Sound
  <2>11. ASSUME table[b.pos].len = 0, NEW j \in DOMAIN table, table[j].len # 0, IsMatch(table[j], a)
         PROVE  FALSE
    <3>1. table[b.pos].dest = 0
      BY <1>1, <2>5, <2>10, <2>11 DEF DefaultInv
    <3>2. b.len = 0
      BY <3>1, <2>8, <2>11
    <3> QED
      BY <3>2, <2>2, <2>4, <2>9, <2>11 DEF AtLeast
  <2>12. ASSUME \A j \in DOMAIN table : table[j].len # 0 => ~IsMatch(table[j], a)
         PROVE  table[b.pos].len = 0
    BY <2>4, <2>5, <2>10, <2>12
  <2> QED
    BY <2>6, <2>7, <2>11, <2>12
<1>2. RouterInv /\ DefaultInv => DefaultIsLast
  BY <1>1 DEF DefaultIsLast
<1>3. /\ Init => DefaultInv
      /\ RouterInv /\ DefaultInv /\ [Next]_tableVars => DefaultInv'
  BY DefaultInductive
<1> QED
  BY RouterInit, RouterStep, <1>2, <1>3, PTL DEF Spec

----------------------------------------------------------------------------
(* The networks of the interfaces.                                         *)

\* Every position in K has a place in AtPositions(s, K).
LEMMA PositionsKept ==
  ASSUME NEW S, NEW s \in Seq(S), NEW K \in SUBSET (1..Len(s)), NEW k \in K
  PROVE  \E n \in DOMAIN AtPositions(s, K) : AtPositions(s, K)[n] = s[k]
<1> DEFINE Upto(m) == {j \in K : j <= m}
<1>1. Len(s) \in Nat /\ \A j \in K : j \in Nat
  OBVIOUS
<1>2. IsFiniteSet(K)
  <2>1. IsFiniteSet(1..Len(s))
    <3>1. 1 \in Int /\ Len(s) \in Int
      BY <1>1
    <3> QED
      BY <3>1, FS_Interval
  <2> QED
    BY <2>1, FS_Subset
<1>3. /\ IsFiniteSet(Upto(k)) /\ Cardinality(Upto(k)) \in Nat
      /\ Cardinality(Upto(k)) <= Cardinality(K) /\ Cardinality(K) \in Nat
  <2>1. Upto(k) \subseteq K
    OBVIOUS
  <2> HIDE DEF Upto
  <2>2. IsFiniteSet(Upto(k)) /\ Cardinality(Upto(k)) <= Cardinality(K)
    BY <1>2, <2>1, FS_Subset
  <2> QED
    BY <1>2, <2>2, FS_CardinalityType
<1>4. PICK n : n = Cardinality(Upto(k))
  OBVIOUS
<1>5. n # 0
  <2>1. k \in Upto(k)
    BY <1>1
  <2> HIDE DEF Upto
  <2> QED
    BY <1>3, <1>4, <2>1, FS_EmptySet
<1>6. n \in 1..Cardinality(K)
  <2> HIDE DEF Upto
  <2> QED
    BY <1>3, <1>4, <1>5
<1>7. ASSUME NEW i \in K, NEW j \in K, i < j
      PROVE  Cardinality(Upto(i)) # Cardinality(Upto(j))
  <2>1. Upto(i) \subseteq Upto(j)
    <3>1. \A h \in K : h <= i => h <= j
      <4> TAKE h \in K
      <4>1. h \in Nat /\ i \in Nat /\ j \in Nat
        BY <1>1
      <4> QED
        BY <4>1, <1>7
    <3> QED
      BY <3>1
  <2>2. j \in Upto(j) /\ j \notin Upto(i)
    <3>1. j \in Nat /\ i \in Nat
      BY <1>1
    <3> QED
      BY <3>1, <1>7
  <2>3. Upto(j) \subseteq K
    OBVIOUS
  <2> HIDE DEF Upto
  <2>4. IsFiniteSet(Upto(j))
    BY <1>2, <2>3, FS_Subset
  <2> QED
    BY <2>1, <2>2, <2>4, FS_Subset
<1>8. ASSUME NEW i \in K, Cardinality(Upto(i)) = n
      PROVE  i = k
  <2>1. i \in Nat /\ k \in Nat
    BY <1>1
  <2>2. i < k \/ k < i \/ i = k
    BY <2>1
  <2> HIDE DEF Upto
  <2> QED
    BY <2>2, <1>4, <1>7, <1>8
<1>9. AtPositions(s, K)[n] = s[CHOOSE i \in K : Cardinality(Upto(i)) = n]
  BY <1>6 DEF AtPositions
<1>10. (CHOOSE i \in K : Cardinality(Upto(i)) = n) = k
  <2> HIDE DEF Upto
  <2> QED
    BY <1>4, <1>8
<1>11. DOMAIN AtPositions(s, K) = 1..Cardinality(K)
  BY DEF AtPositions
<1> QED
  BY <1>6, <1>9, <1>10, <1>11

\* RemoveStaticRoute keeps the entries for other addresses.
LEMMA WithoutRouteKeeps ==
  ASSUME NEW t \in Seq(Entries), NEW a, NEW k \in DOMAIN t, t[k].dest # a
  PROVE  \E n \in DOMAIN WithoutRoute(t, a) : WithoutRoute(t, a)[n] = t[k]
<1>1. CASE WithoutRoute(t, a) = t
  BY <1>1
<1>2. CASE WithoutRoute(t, a) # t
  <2>1. PICK m \in Exact(t, a) :
          /\ WithoutRoute(t, a) \in Seq(Entries)
          /\ Len(WithoutRoute(t, a)) = Len(t) - 1
          /\ \A j \in 1..Len(t) - 1 :
               WithoutRoute(t, a)[j] = IF j < m THEN t[j] ELSE t[j + 1]
    BY <1>2, WithoutRouteEntries
  <2>2. m \in 1..Len(t) /\ k \in 1..Len(t) /\ k # m /\ Len(t) \in Nat
    BY DEF Exact
  <2>3. CASE k < m
    <3>1. k \in 1..Len(t) - 1
      BY <2>2, <2>3
    <3> QED
      BY <2>1, <2>3, <3>1
  <2>4. CASE ~(k < m)
    <3>1. k - 1 \in 1..Len(t) - 1 /\ ~(k - 1 < m) /\ k - 1 + 1 = k
      BY <2>2, <2>4
    <3>2. WithoutRoute(t, a)[k - 1] = t[k]
      BY <2>1, <3>1
    <3> QED
      BY <2>1, <3>1, <3>2
  <2> QED
    BY <2>3, <2>4
<1> QED
  BY <1>1, <1>2

\* NotifyInterfaceDown keeps the entries through other interfaces.
LEMMA WithoutInterfaceKeeps ==
  ASSUME NEW t \in Seq(Entries), NEW i, NEW k \in DOMAIN t, t[k].via # i
  PROVE  \E n \in DOMAIN WithoutInterface(t, i) : WithoutInterface(t, i)[n] = t[k]
<1> DEFINE K == {j \in DOMAIN t : t[j].via # i}
<1>1. K \in SUBSET (1..Len(t)) /\ k \in K
  OBVIOUS
<1>2. WithoutInterface(t, i) = AtPositions(t, K)
  BY DEF WithoutInterface
<1> HIDE DEF K
<1> QED
  BY <1>1, <1>2, PositionsKept

\* NotifyRemoveAddress keeps the entries that do not name the network.
LEMMA WithoutNetworkKeeps ==
  ASSUME NEW t \in Seq(Entries), NEW i, NEW r, NEW k \in DOMAIN t,
         ~(t[k].via = i /\ t[k].dest = CombineMask(r.local, r.len) /\ t[k].len = r.len)
  PROVE  \E n \in DOMAIN WithoutNetwork(t, i, r) : WithoutNetwork(t, i, r)[n] = t[k]
<1> DEFINE Named(e) == /\ e.via = i /\ e.len # Width
                       /\ e.dest = CombineMask(r.local, r.len) /\ e.len = r.len
<1>1. PICK N \in Nat : N = Len(t)
  OBVIOUS
<1>2. PICK turn \in [(1..N) \X BOOLEAN -> BOOLEAN] :
         \A j \in 1..N : \A g \in BOOLEAN : turn[<<j, g>>] = (Named(t[j]) /\ ~g)
  <2> DEFINE f == [p \in (1..N) \X BOOLEAN |-> Named(t[p[1]]) /\ ~p[2]]
  <2>1. f \in [(1..N) \X BOOLEAN -> BOOLEAN]
    OBVIOUS
  <2>2. \A j \in 1..N : \A g \in BOOLEAN : f[<<j, g>>] = (Named(t[j]) /\ ~g)
    OBVIOUS
  <2> HIDE DEF f, Named
  <2> QED
    BY <2>1, <2>2
<1>3. PICK f \in [0..N -> BOOLEAN] : Runs(f, N, FALSE, turn)
  BY <1>1, <1>2, LoopIsDefined
<1> DEFINE Defines(g) ==
             g = [j \in 0..Len(t) |-> j # 0 /\ Named(t[j]) /\ ~g[j - 1]]
<1>4. Defines(f)
  <2>1. \A j \in 0..N : f[j] = (j # 0 /\ Named(t[j]) /\ ~f[j - 1])
    <3> TAKE j \in 0..N
    <3>1. CASE j = 0
      BY <1>3, <3>1 DEF Runs
    <3>2. CASE j # 0
      <4>1. j \in 1..N /\ f[j - 1] \in BOOLEAN
        BY <3>2
      <4>2. f[j] = turn[<<j, f[j - 1]>>]
        BY <1>3, <4>1 DEF Runs
      <4> HIDE DEF Named
      <4> QED
        BY <1>2, <3>2, <4>1, <4>2
    <3> QED
      BY <3>1, <3>2
  <2> HIDE DEF Named
  <2> QED
    BY <1>1, <2>1
<1>5. PICK gone : gone = CHOOSE g : Defines(g)
  OBVIOUS
<1>6. Defines(gone)
  <2> HIDE DEF Defines
  <2> QED
    BY <1>4, <1>5
<1>7. WithoutNetwork(t, i, r) = AtPositions(t, {j \in DOMAIN t : ~gone[j]})
  BY <1>5 DEF WithoutNetwork
<1>8. ~gone[k]
  <2>1. k \in 0..Len(t) /\ ~Named(t[k])
    BY <1>1
  <2> HIDE DEF Named
  <2> QED
    BY <1>6, <2>1
<1> DEFINE K == {j \in DOMAIN t : ~gone[j]}
<1>9. K \in SUBSET (1..Len(t)) /\ k \in K
  <2>1. K \in SUBSET (1..Len(t))
    OBVIOUS
  <2> QED
    BY <1>8, <2>1
<1>10. WithoutNetwork(t, i, r) = AtPositions(t, K)
  BY <1>7
<1> HIDE DEF K
<1> QED
  BY <1>9, <1>10, PositionsKept

\* NotifyInterfaceUp adds the network of every address of i.
LEMMA WithNetworksAll ==
  ASSUME NEW t \in Seq(Entries), NEW i \in Interfaces, locals[i] \in Seq(Locals),
         NEW k \in DOMAIN locals[i], locals[i][k].len # Width
  PROVE  \E n \in DOMAIN WithNetworks(t, i) :
           WithNetworks(t, i)[n] = Connected(locals[i][k], i)
<1> DEFINE K == {j \in DOMAIN locals[i] : locals[i][j].len # Width}
<1>1. K \in SUBSET (1..Len(locals[i])) /\ k \in K
  OBVIOUS
<1>2. PICK own : own = AtPositions(locals[i], K)
  OBVIOUS
<1>3. own \in Seq(Locals) /\ \E n \in DOMAIN own : own[n] = locals[i][k]
  <2> HIDE DEF K
  <2> QED
    BY <1>1, <1>2, EntriesAtPositions, PositionsKept
<1>4. PICK n \in DOMAIN own : own[n] = locals[i][k]
  BY <1>3
<1>5. PICK new : new = [j \in DOMAIN own |-> Connected(own[j], i)]
  OBVIOUS
<1>6. WithNetworks(t, i) = t \o new
  BY <1>2, <1>5 DEF WithNetworks
<1>7. new \in Seq(Entries) /\ Len(new) = Len(own)
  <2>1. \A j \in 1..Len(own) : Connected(own[j], i) \in Entries
    BY <1>3, ConnectedTyped
  <2>2. new \in [1..Len(own) -> Entries] /\ Len(own) \in Nat
    BY <1>3, <1>5, <2>1
  <2> QED
    BY <2>2
<1>8. new[n] = Connected(locals[i][k], i) /\ n \in 1..Len(new)
  BY <1>3, <1>4, <1>5, <1>7
<1>9. /\ Len(t) + n \in 1..Len(t \o new)
      /\ (t \o new)[Len(t) + n] = new[n]
  <2>1. Len(t) \in Nat /\ Len(new) \in Nat /\ n \in Nat
    BY <1>7, <1>8
  <2>2. Len(t \o new) = Len(t) + Len(new)
    BY <1>7, ConcatProperties
  <2>3. Len(t) + n \in 1..Len(t) + Len(new)
    BY <1>8, <2>1
  <2>4. \A j \in 1..Len(t) + Len(new) :
          (t \o new)[j] = IF j <= Len(t) THEN t[j] ELSE new[j - Len(t)]
    BY <1>7, ConcatProperties
  <2>5. ~(Len(t) + n <= Len(t)) /\ Len(t) + n - Len(t) = n
    BY <1>8, <2>1
  <2>6. PICK m : m = Len(t) + n
    OBVIOUS
  <2>7. m \in 1..Len(t) + Len(new) /\ ~(m <= Len(t)) /\ m - Len(t) = n
    BY <1>8, <2>1, <2>6
  <2>8. (t \o new)[m] = new[n]
    BY <2>4, <2>7
  <2> QED
    BY <2>2, <2>6, <2>7, <2>8
<1>10. DOMAIN (t \o new) = 1..Len(t \o new)
  BY <1>7
<1> QED
  BY <1>6, <1>8, <1>9, <1>10

\* A mask is applied once and for all.
LEMMA MaskedTwice ==
  ASSUME NEW a \in Addresses, NEW len \in Lengths
  PROVE  CombineMask(CombineMask(a, len), len) = CombineMask(a, len)
<1>1. Width \in Nat /\ Pow2 \in [0..Width -> Nat \ {0}]
  BY RoutingAssumption, PowersArePositive DEF RoutingAssumption
<1>2. PICK d \in Nat \ {0} : d = Size[len]
  BY <1>1 DEF Size, Lengths
<1>3. a \in Nat
  BY <1>1 DEF Addresses
<1>4. a - (a % d) = d * (a \div d) /\ a \div d \in Nat
  BY <1>3
<1>5. PICK q \in Nat : a - (a % d) = d * q
  BY <1>4
<1>6. (d * q) % d = 0
  OBVIOUS
<1>7. d * q - 0 = d * q
  OBVIOUS
<1> QED
  BY <1>2, <1>5, <1>6, <1>7 DEF CombineMask

\* Entry e is the connected route of address r of interface i.
IsConnected(e, r, i) ==
  e.dest = CombineMask(r.local, r.len) /\ e.len = r.len /\ e.via = i

\* Every network of an interface that is up has its entry.
ConnectedInv ==
  \A i \in Interfaces : up[i] =>
    \A k \in DOMAIN locals[i] : locals[i][k].len # Width =>
      \E n \in DOMAIN table : IsConnected(table[n], locals[i][k], i)

\* No user removes the network of an interface, and no two addresses share one.
NetworksAreApart ==
  /\ \A r \in Locals : CombineMask(r.local, r.len) \notin Removable
  /\ \A r, s \in Locals :
       CombineMask(r.local, r.len) = CombineMask(s.local, s.len) /\ r.len = s.len => r = s

\* A new interface has no address.
LEMMA ConnectedInit == Init => ConnectedInv
BY DEF Init, ConnectedInv

\* Nor does any call, on networks that are apart.
LEMMA ConnectedStep ==
  ASSUME NetworksAreApart
  PROVE  RouterInv /\ ConnectedInv /\ [Next /\ HeldOnce]_tableVars => ConnectedInv'
<1> SUFFICES ASSUME RouterInv, ConnectedInv, [Next /\ HeldOnce]_tableVars
             PROVE  ConnectedInv'
  OBVIOUS
<1>0. /\ table \in Seq(Entries) /\ Len(table) \in Nat
      /\ locals \in [Interfaces -> Seq(Locals)] /\ up \in [Interfaces -> BOOLEAN]
  BY DEF RouterInv, TypeOK
<1>1. CASE UNCHANGED tableVars
  BY <1>1 DEF tableVars, ConnectedInv
<1>2. CASE Next /\ HeldOnce
  <2> SUFFICES ASSUME NEW i \in Interfaces, up'[i], NEW k \in DOMAIN locals'[i],
                      locals'[i][k].len # Width
               PROVE  \E n \in DOMAIN table' : IsConnected(table'[n], locals'[i][k], i)
    BY DEF ConnectedInv
  <2>1. ASSUME locals'[i] = locals[i], up[i],
               \A h \in DOMAIN table : IsConnected(table[h], locals[i][k], i) =>
                 \E n \in DOMAIN table' : table'[n] = table[h]
        PROVE  \E n \in DOMAIN table' : IsConnected(table'[n], locals'[i][k], i)
    <3>1. PICK h \in DOMAIN table : IsConnected(table[h], locals[i][k], i)
      BY <2>1 DEF ConnectedInv
    <3>2. PICK n \in DOMAIN table' : table'[n] = table[h]
      BY <2>1, <3>1
    <3> QED
      BY <3>1, <3>2, <2>1
  <2>2. ASSUME NEW r \in UserRoutes, NEW j \in Interfaces, NEW metric \in Metrics,
               AddNetworkRouteTo(r, j, metric)
        PROVE  \E n \in DOMAIN table' : IsConnected(table'[n], locals'[i][k], i)
    <3>1. PICK e \in Entries : e = Route(r.dest, r.len, j, metric)
      BY RouteTyped, RoutingAssumption DEF RoutingAssumption
    <3>2. table' = Append(table, e) /\ locals' = locals /\ up' = up
      BY <2>2, <3>1 DEF AddNetworkRouteTo
    <3>3. \A h \in DOMAIN table : h \in DOMAIN table' /\ table'[h] = table[h]
      BY <1>0, <3>2, AppendEntry
    <3> QED
      BY <2>1, <3>2, <3>3
  <2>3. ASSUME NEW a \in Removable, RemoveStaticRoute(a)
        PROVE  \E n \in DOMAIN table' : IsConnected(table'[n], locals'[i][k], i)
    <3>1. table' = WithoutRoute(table, a) /\ locals' = locals /\ up' = up
      BY <2>3 DEF RemoveStaticRoute
    <3>2. locals[i][k] \in Locals
      BY <1>0, <3>1
    <3>3. CombineMask(locals[i][k].local, locals[i][k].len) # a
      BY <3>2 DEF NetworksAreApart
    <3>4. \A h \in DOMAIN table : table[h].dest # a =>
            \E n \in DOMAIN table' : table'[n] = table[h]
      BY <1>0, <3>1, WithoutRouteKeeps
    <3> QED
      BY <2>1, <3>1, <3>3, <3>4 DEF IsConnected
  <2>4. ASSUME NEW j \in Interfaces, NEW r \in Locals, AddAddress(j, r)
        PROVE  \E n \in DOMAIN table' : IsConnected(table'[n], locals'[i][k], i)
    <3>1. up' = up /\ locals' = [locals EXCEPT ![j] = Append(@, r)]
      BY <2>4 DEF AddAddress
    <3>2. Connected(r, j) \in Entries /\ IsConnected(Connected(r, j), r, j)
      BY ConnectedTyped DEF IsConnected
    <3>3. up[j] => table' = Append(table, Connected(r, j))
      BY <2>4 DEF AddAddress
    <3>4. up[j] => /\ \A h \in DOMAIN table : h \in DOMAIN table' /\ table'[h] = table[h]
                   /\ Len(table) + 1 \in DOMAIN table'
                   /\ table'[Len(table) + 1] = Connected(r, j)
      <4> SUFFICES ASSUME up[j]
                   PROVE  /\ \A h \in DOMAIN table : h \in DOMAIN table' /\ table'[h] = table[h]
                          /\ Len(table) + 1 \in DOMAIN table'
                          /\ table'[Len(table) + 1] = Connected(r, j)
        OBVIOUS
      <4>1. PICK e \in Entries : e = Connected(r, j)
        BY <3>2
      <4>2. table' = Append(table, e)
        BY <3>3, <4>1
      <4>3. \A h \in DOMAIN table : h \in DOMAIN table' /\ table'[h] = table[h]
        BY <1>0, <4>2, AppendEntry
      <4>4. Len(table) + 1 \in DOMAIN table' /\ table'[Len(table) + 1] = e
        BY <1>0, <4>2, AppendEntry
      <4> QED
        BY <4>1, <4>3, <4>4
    <3>5. ~up[j] => table' = table
      BY <2>4 DEF AddAddress
    <3>6. \A h \in DOMAIN table : h \in DOMAIN table' /\ table'[h] = table[h]
      BY <3>4, <3>5
    <3>7. CASE i # j
      BY <1>0, <2>1, <3>1, <3>6, <3>7
    <3>8. CASE i = j /\ k \in DOMAIN locals[i]
      <4>1. locals'[i][k] = locals[i][k]
        BY <1>0, <3>1, <3>8, AppendEntry
      <4>2. PICK h \in DOMAIN table : IsConnected(table[h], locals[i][k], i)
        BY <3>1, <3>8, <4>1 DEF ConnectedInv
      <4> QED
        BY <3>6, <4>1, <4>2
    <3>9. CASE i = j /\ k \notin DOMAIN locals[i]
      <4>1. locals[i] \in Seq(Locals) /\ locals'[i] = Append(locals[i], r)
        BY <1>0, <3>1, <3>9
      <4>2. locals'[i][k] = r
        <5>1. k \in 1..Len(locals[i]) + 1 /\ k \notin 1..Len(locals[i]) /\ Len(locals[i]) \in Nat
          BY <3>9, <4>1
        <5>2. k = Len(locals[i]) + 1
          BY <5>1
        <5> QED
          BY <4>1, <5>2
      <4>3. up[j]
        BY <3>1, <3>9
      <4> QED
        BY <3>2, <3>4, <3>9, <4>2, <4>3
    <3> QED
      BY <3>7, <3>8, <3>9
  <2>5. ASSUME NEW j \in Interfaces, NEW p \in 1..MaxLocals, RemoveAddress(j, p)
        PROVE  \E n \in DOMAIN table' : IsConnected(table'[n], locals'[i][k], i)
    <3>1. /\ up' = up /\ p \in DOMAIN locals[j]
          /\ locals' = [locals EXCEPT ![j] = RemoveAt(@, p)]
      BY <2>5 DEF RemoveAddress
    <3>2. PICK r \in Locals : r = locals[j][p]
      BY <1>0, <3>1
    <3>3. table' = IF up[j] THEN WithoutNetwork(table, j, r) ELSE table
      BY <2>5, <3>2 DEF RemoveAddress
    <3>4. \A h \in DOMAIN table : ~IsConnected(table[h], r, j) =>
            \E n \in DOMAIN table' : table'[n] = table[h]
      BY <1>0, <3>3, WithoutNetworkKeeps DEF IsConnected
    <3>5. CASE i # j
      <4>1. locals'[i] = locals[i] /\ up[i]
        BY <1>0, <3>1, <3>5
      <4>2. \A h \in DOMAIN table :
              IsConnected(table[h], locals[i][k], i) => ~IsConnected(table[h], r, j)
        BY <3>5 DEF IsConnected
      <4> QED
        BY <2>1, <3>4, <4>1, <4>2
    <3>6. CASE i = j
      <4>1. locals[i] \in Seq(Locals) /\ locals'[i] = RemoveAt(locals[i], p) /\ p \in 1..Len(locals[i])
        BY <1>0, <3>1, <3>6
      <4>2. /\ Len(locals'[i]) = Len(locals[i]) - 1 /\ Len(locals[i]) \in Nat
            /\ locals'[i] \in Seq(Locals)
            /\ \A q \in 1..Len(locals[i]) - 1 :
                 locals'[i][q] = IF q < p THEN locals[i][q] ELSE locals[i][q + 1]
        <5>1. PICK s \in Seq(Locals) : s = locals[i]
          BY <4>1, Zenon
        <5>2. /\ RemoveAt(s, p) \in Seq(Locals) /\ Len(RemoveAt(s, p)) = Len(s) - 1
              /\ \A q \in 1..Len(s) - 1 :
                   RemoveAt(s, p)[q] = IF q < p THEN s[q] ELSE s[q + 1]
          <6>1. p \in 1..Len(s)
            BY <4>1, <5>1
          <6> QED
            BY <6>1, RemoveAtProperties, Zenon
        <5>3. Len(s) \in Nat
          OBVIOUS
        <5> QED
          BY <4>1, <5>1, <5>2, <5>3
      <4>3. k \in 1..Len(locals[i]) - 1
        BY <4>2
      <4>4. PICK q \in 1..Len(locals[i]) : q # p /\ locals'[i][k] = locals[i][q]
        <5>1. CASE k < p
          <6>1. k \in 1..Len(locals[i]) /\ k # p
            BY <4>1, <4>2, <4>3, <5>1
          <6> QED
            BY <4>2, <4>3, <5>1, <6>1
        <5>2. CASE ~(k < p)
          <6>1. k + 1 \in 1..Len(locals[i]) /\ k + 1 # p
            BY <4>1, <4>2, <4>3, <5>2
          <6> QED
            BY <4>2, <4>3, <5>2, <6>1
        <5> QED
          BY <5>1, <5>2
      <4>5. locals[i][q] # r /\ locals[i][q] \in Locals
        <5>1. p \in DOMAIN locals[i] /\ q \in DOMAIN locals[i] \ {p} /\ RemoveAddress(i, p)
          BY <2>5, <3>1, <3>6, <4>1, <4>4
        <5>2. locals[i][q] # locals[i][p]
          BY <1>2, <5>1 DEF HeldOnce
        <5> QED
          BY <3>2, <3>6, <4>1, <4>4, <5>2
      <4>6. PICK h \in DOMAIN table : IsConnected(table[h], locals[i][q], i)
        <5>1. up[i] /\ q \in DOMAIN locals[i] /\ locals[i][q].len # Width
          BY <3>1, <4>1, <4>4
        <5> QED
          BY <5>1 DEF ConnectedInv
      <4>7. ~IsConnected(table[h], r, j)
        BY <4>5, <4>6 DEF IsConnected, NetworksAreApart
      <4> QED
        BY <3>4, <4>4, <4>6, <4>7
    <3> QED
      BY <3>5, <3>6
  <2>6. ASSUME NEW j \in Interfaces, SetUp(j)
        PROVE  \E n \in DOMAIN table' : IsConnected(table'[n], locals'[i][k], i)
    <3>1. /\ table' = WithNetworks(table, j) /\ locals' = locals
          /\ up' = [up EXCEPT ![j] = TRUE] /\ locals[j] \in Seq(Locals)
      BY <1>0, <2>6 DEF SetUp
    <3>2. \A h \in DOMAIN table : h \in DOMAIN table' /\ table'[h] = table[h]
      <4>0. PICK t : t = WithNetworks(table, j)
        OBVIOUS
      <4>1. /\ t \in Seq(Entries) /\ Len(table) <= Len(t)
            /\ \A h \in 1..Len(table) : t[h] = table[h]
        <5>1. locals[j] \in Seq(Locals) /\ table \in Seq(Entries)
          BY <1>0, <3>1
        <5>2. /\ WithNetworks(table, j) \in Seq(Entries)
              /\ Len(table) <= Len(WithNetworks(table, j))
              /\ \A h \in 1..Len(table) : WithNetworks(table, j)[h] = table[h]
          BY <5>1, WithNetworksEntries, Zenon
        <5> QED
          BY <4>0, <5>2, Zenon
      <4>2. \A h \in 1..Len(table) : h \in 1..Len(t)
        BY <1>0, <4>1
      <4>3. DOMAIN table = 1..Len(table) /\ DOMAIN t = 1..Len(t)
        BY <1>0, <4>1
      <4> QED
        BY <3>1, <4>0, <4>1, <4>2, <4>3
    <3>3. CASE i = j
      <4>1. k \in DOMAIN locals[i] /\ locals[i][k].len # Width /\ locals[i][k] \in Locals
        BY <1>0, <3>1
      <4>2. PICK n \in DOMAIN table' : table'[n] = Connected(locals[i][k], i)
        BY <1>0, <3>1, <3>3, <4>1, WithNetworksAll
      <4> QED
        BY <3>1, <4>1, <4>2, ConnectedTyped DEF IsConnected
    <3>4. CASE i # j
      BY <1>0, <2>1, <3>1, <3>2, <3>4
    <3> QED
      BY <3>3, <3>4
  <2>7. ASSUME NEW j \in Interfaces, SetDown(j)
        PROVE  \E n \in DOMAIN table' : IsConnected(table'[n], locals'[i][k], i)
    <3>1. /\ table' = WithoutInterface(table, j) /\ locals' = locals
          /\ up' = [up EXCEPT ![j] = FALSE]
      BY <2>7 DEF SetDown
    <3>2. i # j /\ up[i]
      BY <1>0, <3>1
    <3>3. \A h \in DOMAIN table : table[h].via # j =>
            \E n \in DOMAIN table' : table'[n] = table[h]
      BY <1>0, <3>1, WithoutInterfaceKeeps
    <3> QED
      BY <2>1, <3>1, <3>2, <3>3 DEF IsConnected
  <2> QED
    BY <1>2, <2>2, <2>3, <2>4, <2>5, <2>6, <2>7 DEF Next
<1> QED
  BY <1>1, <1>2

\* Every address of a network an interface is on is reached through it while it
\* is up, whatever is added, removed or switched, also if addresses are given
\* and interfaces set up again and again (MihNetDevice::Activate): the erase that
\* skips an entry in NotifyRemoveAddress never costs another address its route.
THEOREM NetworksStayReachable ==
  ASSUME NetworksAreApart
  PROVE  Init /\ [][Next /\ HeldOnce]_tableVars => []NetworksReachable
<1>1. ASSUME RouterInv, ConnectedInv, NEW i \in Interfaces, up[i],
             NEW k \in DOMAIN locals[i], NEW a \in Addresses,
             locals[i][k].len # Width,
             CombineMask(a, locals[i][k].len) =
               CombineMask(locals[i][k].local, locals[i][k].len)
      PROVE  LookupStatic(table, a, {i}) # 0
  <2>1. table \in Seq(Entries) /\ locals \in [Interfaces -> Seq(Locals)] /\ Len(table) \in Nat
    BY <1>1 DEF RouterInv, TypeOK
  <2>2. PICK r \in Locals : r = locals[i][k]
    BY <2>1
  <2>3. r.local \in Addresses /\ r.len \in Lengths
    BY RoutingAssumption DEF RoutingAssumption
  <2>4. PICK n \in DOMAIN table : IsConnected(table[n], r, i)
    BY <1>1, <2>2 DEF ConnectedInv
  <2>5. IsMatch(table[n], a)
    BY <1>1, <2>2, <2>3, <2>4, MaskedTwice DEF IsMatch, IsConnected
  <2>6. n \in Matches(table, a, {i}) /\ ~(n > Len(table))
    BY <2>1, <2>4, <2>5 DEF Matches, IsConnected
  <2>7. PICK b : /\ Sound(table, a, {i}, Len(table), b)
                 /\ LookupStatic(table, a, {i}) = b.pos
    BY <2>1, LookupSound
  <2> QED
    BY <2>6, <2>7 DEF Sound
<1>2. RouterInv /\ ConnectedInv => NetworksReachable
  BY <1>1 DEF NetworksReachable
<1>3. RouterInv /\ [Next /\ HeldOnce]_tableVars => RouterInv'
  BY RouterStep
<1>4. RouterInv /\ ConnectedInv /\ [Next /\ HeldOnce]_tableVars => ConnectedInv'
  BY ConnectedStep
<1> QED
  BY RouterInit, ConnectedInit, <1>2, <1>3, <1>4, PTL

----------------------------------------------------------------------------
(* The table of the mobility anchor.                                       *)

\* The one entry of t for m is that of a handover to interface i.
OneEntry(t, m, i) ==
  \E k \in DOMAIN t : /\ t[k] = Route(m, MihLen, i, 0)
                      /\ \A j \in DOMAIN t : t[j].dest = m => j = k

\* t has no entry for m.
NoEntry(t, m) == \A j \in DOMAIN t : t[j].dest # m

\* Every entry is that of a mobile device, or not in the way of any.
Known(e) == e.dest \in Mobiles \/ Foreign(e)

\* The inductive invariant of the anchor.
AnchorInv ==
  /\ RouterInv
  /\ asked \in [Mobiles -> Interfaces \cup {None}]
  /\ \A m \in Mobiles : asked[m] = None => NoEntry(table, m)
  /\ \A m \in Mobiles : asked[m] # None => OneEntry(table, m, asked[m])
  /\ \A k \in DOMAIN table : Known(table[k])

\* What one entry more does to the entries of the devices.
LEMMA OneMore ==
  ASSUME NEW t \in Seq(Entries), NEW e \in Entries, NEW m \in Mobiles, e.dest # m
  PROVE  /\ NoEntry(t, m) => NoEntry(Append(t, e), m)
         /\ \A i \in Interfaces : OneEntry(t, m, i) => OneEntry(Append(t, e), m, i)
<1>1. /\ Append(t, e) \in Seq(Entries) /\ Len(Append(t, e)) = Len(t) + 1
      /\ \A k \in 1..Len(t) : Append(t, e)[k] = t[k]
      /\ Append(t, e)[Len(t) + 1] = e
  BY AppendEntry
<1>2. PICK u : u = Append(t, e)
  OBVIOUS
<1>3. /\ DOMAIN u = 1..Len(t) + 1 /\ DOMAIN t = 1..Len(t) /\ Len(t) \in Nat
      /\ \A k \in 1..Len(t) : u[k] = t[k]
      /\ u[Len(t) + 1] = e
  BY <1>1, <1>2
<1>4. \A k \in DOMAIN u : u[k].dest = m => k \in DOMAIN t /\ t[k].dest = m
  <2> TAKE k \in DOMAIN u
  <2>1. k \in 1..Len(t) \/ k = Len(t) + 1
    BY <1>3
  <2> QED
    BY <1>3, <2>1
<1>5. NoEntry(t, m) => NoEntry(u, m)
  BY <1>4 DEF NoEntry
<1>6. ASSUME NEW i \in Interfaces, OneEntry(t, m, i)
      PROVE  OneEntry(u, m, i)
  <2>1. PICK k \in DOMAIN t : t[k] = Route(m, MihLen, i, 0) /\ \A j \in DOMAIN t : t[j].dest = m => j = k
    BY <1>6 DEF OneEntry
  <2>2. k \in DOMAIN u /\ u[k] = t[k]
    BY <1>3
  <2> QED
    BY <1>4, <2>1, <2>2 DEF OneEntry
<1> QED
  BY <1>2, <1>5, <1>6

\* The entry of a new path of m.
LEMMA NewEntry ==
  ASSUME NEW t \in Seq(Entries), NEW m \in Mobiles, NEW i \in Interfaces, NoEntry(t, m)
  PROVE  OneEntry(Append(t, Route(m, MihLen, i, 0)), m, i)
<1>1. PICK e \in Entries : e = Route(m, MihLen, i, 0) /\ e.dest = m
  BY RouteTyped, AnchorAssumption DEF AnchorAssumption
<1>2. PICK u : u = Append(t, e)
  OBVIOUS
<1>3. /\ DOMAIN u = 1..Len(t) + 1 /\ DOMAIN t = 1..Len(t) /\ Len(t) \in Nat
      /\ \A k \in 1..Len(t) : u[k] = t[k]
      /\ u[Len(t) + 1] = e
  BY <1>2, AppendEntry
<1>4. \A k \in DOMAIN u : u[k].dest = m => k = Len(t) + 1
  <2> TAKE k \in DOMAIN u
  <2>1. k \in 1..Len(t) \/ k = Len(t) + 1
    BY <1>3
  <2> QED
    BY <1>3, <2>1 DEF NoEntry
<1>5. Len(t) + 1 \in DOMAIN u
  BY <1>3
<1> QED
  BY <1>1, <1>2, <1>3, <1>4, <1>5 DEF OneEntry

\* RemoveStaticRoute for m takes its one entry and leaves those of the others.
LEMMA EntryRemoved ==
  ASSUME NEW t \in Seq(Entries), NEW m \in Mobiles, NEW i, OneEntry(t, m, i)
  PROVE  /\ WithoutRoute(t, m) \in Seq(Entries)
         /\ Len(WithoutRoute(t, m)) = Len(t) - 1
         /\ NoEntry(WithoutRoute(t, m), m)
         /\ \A k \in DOMAIN WithoutRoute(t, m) : \E j \in DOMAIN t : WithoutRoute(t, m)[k] = t[j]
         /\ \A n \in Mobiles : NoEntry(t, n) => NoEntry(WithoutRoute(t, m), n)
         /\ \A n \in Mobiles, h \in Interfaces :
              n # m /\ OneEntry(t, n, h) => OneEntry(WithoutRoute(t, m), n, h)
<1>1. PICK k \in DOMAIN t : /\ t[k] = Route(m, MihLen, i, 0)
                            /\ \A j \in DOMAIN t : t[j].dest = m => j = k
  BY DEF OneEntry
<1>2. t[k].dest = m
  BY <1>1 DEF Route
<1>3. Exact(t, m) = {k}
  BY <1>1, <1>2 DEF Exact
<1>4. PICK w : w = WithoutRoute(t, m)
  OBVIOUS
<1>5. /\ w \in Seq(Entries) /\ Len(w) = Len(t) - 1
      /\ \A j \in 1..Len(t) - 1 : w[j] = IF j < k THEN t[j] ELSE t[j + 1]
  BY <1>3, <1>4, WithoutRouteEntries
<1>6. /\ Len(t) \in Nat /\ k \in 1..Len(t)
      /\ DOMAIN w = 1..Len(t) - 1 /\ DOMAIN t = 1..Len(t)
  BY <1>5
<1> DEFINE Old(j) == IF j < k THEN j ELSE j + 1
<1>7. \A j \in DOMAIN w : Old(j) \in DOMAIN t /\ Old(j) # k /\ w[j] = t[Old(j)]
  BY <1>5, <1>6
<1>8. \A j \in DOMAIN t : j # k => \E h \in DOMAIN w : Old(h) = j
  <2> TAKE j \in DOMAIN t
  <2> HAVE j # k
  <2>1. CASE j < k
    <3>1. j \in DOMAIN w
      BY <1>6, <2>1
    <3> QED
      BY <2>1, <3>1
  <2>2. CASE ~(j < k)
    <3>1. j - 1 \in DOMAIN w /\ ~(j - 1 < k) /\ j - 1 + 1 = j
      BY <1>6, <2>2
    <3> QED
      BY <3>1
  <2> QED
    BY <2>1, <2>2
<1>9. \A h, j \in DOMAIN w : Old(h) = Old(j) => h = j
  BY <1>6
<1> HIDE DEF Old
<1>10. NoEntry(w, m)
  BY <1>1, <1>7 DEF NoEntry
<1>11. \A n \in Mobiles : NoEntry(t, n) => NoEntry(w, n)
  BY <1>7 DEF NoEntry
<1>12. ASSUME NEW n \in Mobiles, NEW h \in Interfaces, n # m, OneEntry(t, n, h)
       PROVE  OneEntry(w, n, h)
  <2>1. PICK l \in DOMAIN t : /\ t[l] = Route(n, MihLen, h, 0)
                              /\ \A j \in DOMAIN t : t[j].dest = n => j = l
    BY <1>12 DEF OneEntry
  <2>2. l # k
    BY <1>2, <1>12, <2>1 DEF Route
  <2>3. PICK p \in DOMAIN w : Old(p) = l
    BY <1>8, <2>2
  <2>4. w[p] = Route(n, MihLen, h, 0)
    BY <1>7, <2>1, <2>3
  <2>5. \A j \in DOMAIN w : w[j].dest = n => j = p
    BY <1>7, <1>9, <2>1, <2>3
  <2> QED
    BY <2>4, <2>5 DEF OneEntry
<1> QED
  BY <1>4, <1>5, <1>7, <1>10, <1>11, <1>12

\* Entries for other addresses behind those of the table change no device's.
LEMMA Extended ==
  ASSUME NEW t \in Seq(Entries), NEW u \in Seq(Entries), Len(t) <= Len(u),
         \A k \in 1..Len(t) : u[k] = t[k],
         NEW m \in Mobiles, \A k \in DOMAIN u : Len(t) < k => u[k].dest # m
  PROVE  /\ NoEntry(t, m) => NoEntry(u, m)
         /\ \A i \in Interfaces : OneEntry(t, m, i) => OneEntry(u, m, i)
<1>1. \A k \in DOMAIN u : u[k].dest = m => k \in DOMAIN t /\ t[k].dest = m
  <2> TAKE k \in DOMAIN u
  <2>1. k \in 1..Len(t) \/ Len(t) < k
    OBVIOUS
  <2>2. DOMAIN t = 1..Len(t)
    OBVIOUS
  <2> QED
    BY <2>1, <2>2
<1>2. \A k \in DOMAIN t : k \in DOMAIN u /\ u[k] = t[k]
  OBVIOUS
<1>3. NoEntry(t, m) => NoEntry(u, m)
  BY <1>1 DEF NoEntry
<1>4. ASSUME NEW i \in Interfaces, OneEntry(t, m, i)
      PROVE  OneEntry(u, m, i)
  <2>1. PICK k \in DOMAIN t : t[k] = Route(m, MihLen, i, 0) /\ \A j \in DOMAIN t : t[j].dest = m => j = k
    BY <1>4 DEF OneEntry
  <2> QED
    BY <1>1, <1>2, <2>1 DEF OneEntry
<1> QED
  BY <1>3, <1>4

\* The entry of m is the one LookupStatic returns, although the entries of all
\* devices and others match: none before it is better, and it is for m itself.
LEMMA OwnEntryFound ==
  ASSUME AnchorInv, NEW m \in Mobiles, asked[m] # None
  PROVE  LET k == LookupStatic(table, m, Interfaces) IN
           k # 0 /\ table[k].via = asked[m] /\ k \in DOMAIN table /\ table[k].dest = m
<1>0. /\ table \in Seq(Entries) /\ Len(table) \in Nat
      /\ \A j \in DOMAIN table : /\ table[j] \in Entries /\ table[j].via \in Interfaces
                                 /\ table[j].len \in Nat /\ table[j].metric \in Nat
                                 /\ j \in Nat /\ j <= Len(table)
      /\ MihLen \in Nat /\ m \in Addresses
  <2>1. table \in Seq(Entries)
    BY DEF AnchorInv, RouterInv, TypeOK
  <2>2. \A j \in DOMAIN table : table[j] \in Entries /\ j \in Nat /\ j <= Len(table)
    BY <2>1
  <2>3. \A len \in Lengths : len \in Nat
    BY DEF Lengths
  <2>4. \A e \in Entries : e.via \in Interfaces /\ e.len \in Nat /\ e.metric \in Nat
    BY <2>3 DEF Entries
  <2>5. MihLen \in Nat /\ m \in Addresses
    BY <2>3, AnchorAssumption DEF AnchorAssumption
  <2> QED
    BY <2>1, <2>2, <2>4, <2>5
<1>1. PICK k \in DOMAIN table : /\ table[k] = Route(m, MihLen, asked[m], 0)
                                /\ \A j \in DOMAIN table : table[j].dest = m => j = k
  BY DEF AnchorInv, OneEntry
<1>2. /\ table[k].dest = m /\ table[k].len = MihLen
      /\ table[k].metric = 0 /\ table[k].via = asked[m]
  BY <1>1 DEF Route
<1> DEFINE M == Matches(table, m, Interfaces)
           L == Leaders(table, m, Interfaces)
<1>3. k \in M
  BY <1>0, <1>1, <1>2 DEF Matches, IsMatch
<1>4. \A j \in M : j \in DOMAIN table /\ IsMatch(table[j], m)
  BY DEF Matches
<1>5. ASSUME NEW j \in M
      PROVE  table[j].len <= MihLen
  <2>1. CASE table[j].dest \in Mobiles
    <3>1. PICK n \in Mobiles : n = table[j].dest
      BY <2>1
    <3>2. asked[n] # None
      BY <1>4, <3>1 DEF AnchorInv, NoEntry
    <3>3. PICK l \in DOMAIN table : /\ table[l] = Route(n, MihLen, asked[n], 0)
                                    /\ \A h \in DOMAIN table : table[h].dest = n => h = l
      BY <3>2 DEF AnchorInv, OneEntry
    <3>4. table[j].len = MihLen
      BY <1>4, <3>1, <3>3 DEF Route
    <3> QED
      BY <1>0, <3>4
  <2>2. CASE Foreign(table[j])
    BY <1>0, <1>4, <2>2 DEF Foreign, IsMatch
  <2> QED
    BY <1>4, <2>1, <2>2 DEF AnchorInv, Known
<1>6. \A j \in M : AtLeast(table[j], table[k])
  <2> TAKE j \in M
  <2>1. table[j].len \in Nat /\ table[j].metric \in Nat /\ table[j].len <= MihLen
    BY <1>0, <1>4, <1>5
  <2> QED
    BY <1>0, <1>2, <2>1 DEF AtLeast
<1>7. k \in L
  BY <1>3, <1>6 DEF Leaders
<1>8. PICK b : /\ Sound(table, m, Interfaces, Len(table), b)
               /\ LookupStatic(table, m, Interfaces) = b.pos
  BY <1>0, LookupSound
<1>9. b.pos # 0
  BY <1>0, <1>3, <1>4, <1>8 DEF Sound
<1>10. b.pos \in L /\ table[b.pos].dest = m
  BY <1>0, <1>1, <1>2, <1>7, <1>8, <1>9 DEF Sound
<1>11. b.pos \in DOMAIN table
  BY <1>10 DEF Leaders, Matches
<1>12. b.pos = k
  BY <1>1, <1>10, <1>11
<1> QED
  BY <1>1, <1>2, <1>8, <1>9, <1>12

\* No device is registered yet.
LEMMA AnchorStarts == AnchorInit => AnchorInv
<1> SUFFICES ASSUME AnchorInit PROVE AnchorInv
  OBVIOUS
<1>1. RouterInv
  BY RouterInit DEF AnchorInit
<1>2. asked = [m \in Mobiles |-> None] /\ DOMAIN table = {}
  BY DEF AnchorInit, Init
<1> QED
  BY <1>1, <1>2 DEF AnchorInv, NoEntry

\* A call the router may make on its own.
LEMMA SurroundingsKeep ==
  ASSUME AnchorInv, Surroundings
  PROVE  AnchorInv' /\ asked' = asked
<1>0. /\ table \in Seq(Entries) /\ Len(table) \in Nat
      /\ locals \in [Interfaces -> Seq(Locals)] /\ RouterInv
  BY DEF AnchorInv, RouterInv, TypeOK
<1>1. Next /\ asked' = asked
  BY DEF Surroundings, Next
<1>2. RouterInv'
  BY <1>0, <1>1, RouterStep
<1>3. /\ Len(table) <= Len(table')
      /\ \A k \in 1..Len(table) : table'[k] = table[k]
      /\ \A k \in DOMAIN table' : Len(table) < k => Foreign(table'[k])
  <2>1. ASSUME NEW e \in Entries, table' = Append(table, e), Foreign(e)
        PROVE  <1>3!:
    <3>1. /\ Len(table') = Len(table) + 1 /\ table' \in Seq(Entries)
          /\ \A k \in 1..Len(table) : table'[k] = table[k]
          /\ table'[Len(table) + 1] = e
      BY <1>0, <2>1, AppendEntry
    <3>2. \A k \in DOMAIN table' : Len(table) < k => k = Len(table) + 1
      BY <1>0, <3>1
    <3> QED
      BY <1>0, <2>1, <3>1, <3>2
  <2>2. ASSUME NEW r \in UserRoutes, NEW i \in Interfaces, NEW metric \in Metrics,
               AddNetworkRouteTo(r, i, metric)
        PROVE  <1>3!:
    <3>1. PICK e \in Entries : e = Route(r.dest, r.len, i, metric)
      BY RouteTyped, RoutingAssumption DEF RoutingAssumption
    <3>2. Foreign(e)
      BY <3>1, AnchorAssumption DEF AnchorAssumption, Foreign, Route
    <3> QED
      BY <2>1, <2>2, <3>1, <3>2 DEF AddNetworkRouteTo
  <2>3. ASSUME NEW r \in Locals, NEW i \in Interfaces
        PROVE  Foreign(Connected(r, i))
    BY AnchorAssumption DEF AnchorAssumption, Foreign, Connected, Route
  <2>4. ASSUME NEW i \in Interfaces, NEW r \in Locals, AddAddress(i, r)
        PROVE  <1>3!:
    <3>1. CASE up[i]
      BY <2>1, <2>3, <2>4, <3>1, ConnectedTyped DEF AddAddress
    <3>2. CASE ~up[i]
      <4>1. table' = table
        BY <2>4, <3>2 DEF AddAddress
      <4> QED
        BY <1>0, <4>1
    <3> QED
      BY <3>1, <3>2
  <2>5. ASSUME NEW i \in Interfaces, SetUp(i)
        PROVE  <1>3!:
    <3>1. locals[i] \in Seq(Locals) /\ table' = WithNetworks(table, i)
      BY <1>0, <2>5 DEF SetUp
    <3>2. PICK t : t = WithNetworks(table, i)
      OBVIOUS
    <3>3. /\ Len(table) <= Len(t)
          /\ \A k \in 1..Len(table) : t[k] = table[k]
          /\ \A k \in DOMAIN t : Len(table) < k => \E r \in Locals : t[k] = Connected(r, i)
      BY <1>0, <3>1, <3>2, WithNetworksEntries
    <3> QED
      BY <2>3, <3>1, <3>2, <3>3
  <2> QED
    BY <2>2, <2>4, <2>5 DEF Surroundings
<1>4. PICK t \in Seq(Entries) : t = table'
  BY <1>2 DEF RouterInv, TypeOK
<1>5. \A m \in Mobiles : \A k \in DOMAIN t : Len(table) < k => t[k].dest # m
  BY <1>3, <1>4 DEF Foreign
<1>6. \A m \in Mobiles : /\ NoEntry(table, m) => NoEntry(t, m)
                         /\ \A i \in Interfaces : OneEntry(table, m, i) => OneEntry(t, m, i)
  BY <1>0, <1>3, <1>4, <1>5, Extended
<1>7. \A k \in DOMAIN t : Known(t[k])
  <2> TAKE k \in DOMAIN t
  <2>1. k \in 1..Len(table) \/ Len(table) < k
    BY <1>0
  <2> QED
    BY <1>0, <1>3, <1>4, <2>1 DEF AnchorInv, Known
<1>8. \A m \in Mobiles : asked[m] # None => asked[m] \in Interfaces
  BY DEF AnchorInv
<1> QED
  BY <1>1, <1>2, <1>4, <1>6, <1>7, <1>8 DEF AnchorInv

\* A device is registered: its first entry.
LEMMA RegisterKeeps ==
  ASSUME AnchorInv, NEW m \in Mobiles, NEW i \in Interfaces, Register(m, i)
  PROVE  AnchorInv'
<1>1. PICK e \in Entries : e = Route(m, MihLen, i, 0) /\ e.dest = m /\ e.via = i
  BY RouteTyped, AnchorAssumption DEF AnchorAssumption
<1>2. /\ asked[m] = None /\ up[i] /\ asked' = [asked EXCEPT ![m] = i]
      /\ table' = Append(table, e) /\ Len(table) < MaxTable
      /\ locals' = locals /\ up' = up
  BY <1>1 DEF Register, AddNetworkRouteTo
<1>3. /\ table \in Seq(Entries) /\ Len(table) \in Nat /\ MaxTable \in Nat
      /\ locals \in [Interfaces -> Seq(Locals)] /\ up \in [Interfaces -> BOOLEAN]
      /\ \A k \in DOMAIN table : up[table[k].via]
  BY RoutingAssumption
     DEF AnchorInv, RouterInv, TypeOK, NoRouteThroughDown, RoutingAssumption
<1>4. /\ table' \in Seq(Entries) /\ Len(table') = Len(table) + 1
      /\ \A k \in 1..Len(table) : table'[k] = table[k]
      /\ table'[Len(table) + 1] = e
  BY <1>2, <1>3, AppendEntry
<1>5. \A k \in DOMAIN table' : \/ k \in DOMAIN table /\ table'[k] = table[k]
                               \/ table'[k] = e
  <2> TAKE k \in DOMAIN table'
  <2>1. k \in 1..Len(table) \/ k = Len(table) + 1
    BY <1>3, <1>4
  <2> QED
    BY <1>3, <1>4, <2>1
<1>6. RouterInv'
  BY <1>1, <1>2, <1>3, <1>4, <1>5 DEF RouterInv, TypeOK, NoRouteThroughDown
<1>7. \A k \in DOMAIN table' : Known(table'[k])
  BY <1>1, <1>5 DEF AnchorInv, Known
<1>8. OneEntry(table', m, i)
  <2>1. NoEntry(table, m)
    BY <1>2 DEF AnchorInv
  <2> QED
    BY <1>1, <1>2, <1>3, <2>1, NewEntry
<1>9. \A n \in Mobiles : n # m =>
        /\ NoEntry(table, n) => NoEntry(table', n)
        /\ \A h \in Interfaces : OneEntry(table, n, h) => OneEntry(table', n, h)
  BY <1>1, <1>2, <1>3, OneMore
<1>10. /\ asked' \in [Mobiles -> Interfaces \cup {None}] /\ asked'[m] = i /\ i # None
       /\ \A n \in Mobiles : n # m => asked'[n] = asked[n]
       /\ \A n \in Mobiles : asked[n] # None => asked[n] \in Interfaces
  BY <1>2, AnchorAssumption DEF AnchorInv, AnchorAssumption
<1>11. \A n \in Mobiles : asked'[n] = None => NoEntry(table', n)
  BY <1>9, <1>10 DEF AnchorInv
<1>12. \A n \in Mobiles : asked'[n] # None => OneEntry(table', n, asked'[n])
  BY <1>8, <1>9, <1>10 DEF AnchorInv
<1> QED
  BY <1>6, <1>7, <1>10, <1>11, <1>12 DEF AnchorInv

\* A handover: the entry of the device is removed and a new one added.
LEMMA RedirectKeeps ==
  ASSUME AnchorInv, NEW m \in Mobiles, NEW i \in Interfaces, Redirect(m, i)
  PROVE  AnchorInv'
<1>1. PICK e \in Entries : e = Route(m, MihLen, i, 0) /\ e.dest = m /\ e.via = i
  BY RouteTyped, AnchorAssumption DEF AnchorAssumption
<1>2. PICK w : w = WithoutRoute(table, m)
  OBVIOUS
<1>3. /\ asked[m] # None /\ up[i] /\ asked' = [asked EXCEPT ![m] = i]
      /\ table' = Append(w, e) /\ locals' = locals /\ up' = up
  BY <1>1, <1>2 DEF Redirect, Redirected
<1>4. /\ table \in Seq(Entries) /\ Len(table) \in Nat
      /\ MaxTable \in Nat /\ Len(table) <= MaxTable
      /\ locals \in [Interfaces -> Seq(Locals)] /\ up \in [Interfaces -> BOOLEAN]
      /\ \A k \in DOMAIN table : up[table[k].via]
  BY RoutingAssumption
     DEF AnchorInv, RouterInv, TypeOK, NoRouteThroughDown, RoutingAssumption
<1>5. OneEntry(table, m, asked[m])
  BY <1>3 DEF AnchorInv
<1>6. /\ w \in Seq(Entries) /\ Len(w) = Len(table) - 1 /\ NoEntry(w, m)
      /\ \A k \in DOMAIN w : \E j \in DOMAIN table : w[k] = table[j]
      /\ \A n \in Mobiles : NoEntry(table, n) => NoEntry(w, n)
      /\ \A n \in Mobiles, h \in Interfaces :
           n # m /\ OneEntry(table, n, h) => OneEntry(w, n, h)
  BY <1>2, <1>4, <1>5, EntryRemoved
<1>7. /\ table' \in Seq(Entries) /\ Len(table') = Len(w) + 1
      /\ \A k \in 1..Len(w) : table'[k] = w[k]
      /\ table'[Len(w) + 1] = e
  BY <1>3, <1>6, AppendEntry
<1>8. \A k \in DOMAIN table' : (\E j \in DOMAIN table : table'[k] = table[j]) \/ table'[k] = e
  <2> TAKE k \in DOMAIN table'
  <2>1. k \in 1..Len(w) \/ k = Len(w) + 1
    BY <1>6, <1>7
  <2> QED
    BY <1>6, <1>7, <2>1
<1>9. Len(table') <= MaxTable
  BY <1>4, <1>6, <1>7
<1>10. RouterInv'
  <2>1. \A k \in DOMAIN table' : up'[table'[k].via]
    BY <1>1, <1>3, <1>4, <1>8
  <2> QED
    BY <1>3, <1>4, <1>7, <1>9, <2>1 DEF RouterInv, TypeOK, NoRouteThroughDown
<1>11. \A k \in DOMAIN table' : Known(table'[k])
  BY <1>1, <1>8 DEF AnchorInv, Known
<1>12. OneEntry(table', m, i)
  BY <1>1, <1>3, <1>6, NewEntry
<1>13. \A n \in Mobiles : n # m =>
         /\ NoEntry(table, n) => NoEntry(table', n)
         /\ \A h \in Interfaces : OneEntry(table, n, h) => OneEntry(table', n, h)
  BY <1>1, <1>3, <1>6, OneMore
<1>14. /\ asked' \in [Mobiles -> Interfaces \cup {None}] /\ asked'[m] = i /\ i # None
       /\ \A n \in Mobiles : n # m => asked'[n] = asked[n]
       /\ \A n \in Mobiles : asked[n] # None => asked[n] \in Interfaces
  BY <1>3, AnchorAssumption DEF AnchorInv, AnchorAssumption
<1>15. \A n \in Mobiles : asked'[n] = None => NoEntry(table', n)
  BY <1>13, <1>14 DEF AnchorInv
<1>16. \A n \in Mobiles : asked'[n] # None => OneEntry(table', n, asked'[n])
  BY <1>12, <1>13, <1>14 DEF AnchorInv
<1> QED
  BY <1>10, <1>11, <1>14, <1>15, <1>16 DEF AnchorInv

\* Every step of the anchor keeps its invariant.
LEMMA AnchorStep == AnchorInv /\ [AnchorNext]_anchorVars => AnchorInv'
<1>1. ASSUME AnchorInv, UNCHANGED anchorVars
      PROVE  AnchorInv'
  BY <1>1 DEF anchorVars, AnchorInv, RouterInv, TypeOK, NoRouteThroughDown
<1> QED
  BY <1>1, SurroundingsKeep, RegisterKeeps, RedirectKeeps DEF AnchorNext

\* The LMA forwards a packet for a device to the interface of its last handover,
\* whatever addresses and routes are added around the entries of the devices.
THEOREM AnchorForwards == AnchorSpec => []Follows
<1>1. AnchorInv => Follows
  BY OwnEntryFound DEF Follows
<1> QED
  BY AnchorStarts, AnchorStep, <1>1, PTL DEF AnchorSpec

\* The way of the packets of every device is the path it asked for.
LEMMA ViaIsAsked == ASSUME AnchorInv PROVE Via = asked
<1>1. ASSUME NEW m \in Mobiles
      PROVE  asked[m] = IF \A k \in DOMAIN table : table[k].dest # m THEN None
                        ELSE table[LookupStatic(table, m, Interfaces)].via
  <2>1. CASE asked[m] = None
    BY <2>1 DEF AnchorInv, NoEntry
  <2>2. CASE asked[m] # None
    BY <2>2, OwnEntryFound
  <2> QED
    BY <2>1, <2>2
<1>2. asked = [m \in Mobiles |-> asked[m]]
  BY DEF AnchorInv
<1> QED
  BY <1>1, <1>2 DEF Via

\* The table implements the map of paths: a call redirects the packets of one
\* device at most, and nothing but a handover redirects any.
THEOREM AnchorKeepsPaths == AnchorSpec => OnePathMoves
<1>1. AnchorInit => Paths!Init
  <2> SUFFICES ASSUME AnchorInit PROVE Paths!Init
    OBVIOUS
  <2>1. Via = asked
    BY AnchorStarts, ViaIsAsked
  <2> QED
    BY <2>1 DEF AnchorInit, Paths!Init
<1> DEFINE Abstracts == Via = asked
<1>2. AnchorInv => Abstracts
  BY ViaIsAsked
<1>3. AnchorInv' => Abstracts'
  <2> HIDE DEF Abstracts
  <2> QED
    BY <1>2, PTL
<1>4. ASSUME AnchorInv, AnchorInv', [AnchorNext]_anchorVars
      PROVE  [Paths!Next]_Via
  <2>1. Via = asked /\ Via' = asked'
    BY <1>2, <1>3, <1>4
  <2>2. ASSUME NEW m \in Mobiles, NEW i \in Interfaces, Register(m, i) \/ Redirect(m, i)
        PROVE  Paths!Next
    <3>1. asked' = [asked EXCEPT ![m] = i]
      BY <2>2 DEF Register, Redirect
    <3>2. asked'[m] = i /\ \A n \in Mobiles \ {m} : asked'[n] = asked[n]
      BY <3>1, <1>4 DEF AnchorInv
    <3> QED
      BY <2>1, <3>2 DEF Paths!Next, Paths!Move
  <2>3. CASE Surroundings
    BY <2>1, <2>3 DEF Surroundings
  <2>4. CASE UNCHANGED anchorVars
    BY <2>1, <2>4 DEF anchorVars
  <2> QED
    BY <1>4, <2>2, <2>3, <2>4 DEF AnchorNext
<1> QED
  BY AnchorStarts, AnchorStep, <1>1, <1>4, PTL DEF AnchorSpec, OnePathMoves, Paths!Spec
============================================================================
