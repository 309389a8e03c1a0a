------------------------- MODULE MihHandoverProofs -------------------------
(***************************************************************************)
(* Theorems about MihHandover, for any set of devices, any charts and any  *)
(* delays that satisfy the assumptions of that module.                     *)
(***************************************************************************)
EXTENDS MihHandover, SequenceFacts, SequenceTheorems, FiniteSetTheorems

----------------------------------------------------------------------------
(* Types of the operators.                                                 *)

\* The erase and push_back of a subscriber keep the lists lists of devices.
LEMMA SubscribeType ==
  ASSUME NEW S \in [Charts -> Seq(Devices)], NEW c \in Charts, NEW d \in Devices
  PROVE  /\ Subscribe(S, c, d) \in [Charts -> Seq(Devices)]
         /\ RemoveSub(S, c, d) \in [Charts -> Seq(Devices)]
<1>1. RemoveFirst(S[c], d) \in Seq(Devices)
  BY RemoveFirstType
<1> QED
  BY <1>1 DEF Subscribe, RemoveSub

\* So does the sequence of them that a handover makes.
LEMMA MoveSubType ==
  ASSUME NEW S \in [Charts -> Seq(Devices)], NEW two \in Charts,
         NEW one \in Charts, NEW d \in Devices
  PROVE  MoveSub(S, d, two, one) \in [Charts -> Seq(Devices)]
<1>1. RemoveSub(S, two, d) \in [Charts -> Seq(Devices)]
  BY SubscribeType
<1>2. Subscribe(RemoveSub(S, two, d), two, d) \in [Charts -> Seq(Devices)]
  BY <1>1, SubscribeType
<1> QED
  BY <1>2, SubscribeType DEF MoveSub

\* The routers' entries stay counted by natural numbers.
LEMMA RouteType ==
  ASSUME NEW R \in [Charts -> [Devices -> Nat]], NEW c \in Charts, NEW d \in Devices
  PROVE  /\ AddRoute(R, c, d) \in [Charts -> [Devices -> Nat]]
         /\ MoveRoute(R, d, c) \in [Charts -> [Devices -> Nat]]
<1>1. AddRoute(R, c, d) \in [Charts -> [Devices -> Nat]]
  BY DEF AddRoute
<1>2. RemoveRoute(R, c, d) \in [Charts -> [Devices -> Nat]]
  BY DEF RemoveRoute
<1> QED
  BY <1>1, <1>2 DEF MoveRoute, AddRoute

\* The LMA's table stays a table, whatever interface it is given.
LEMMA RedirectType ==
  ASSUME NEW L \in [Devices -> Seq(LmaInterfaces \cup {Garbage})],
         NEW d \in Devices, NEW path \in LmaInterfaces \cup {Garbage}
  PROVE  Redirect(L, d, path) \in [Devices -> Seq(LmaInterfaces \cup {Garbage})]
<1>1. L[d] # <<>> => Front(L[d]) \in Seq(LmaInterfaces \cup {Garbage})
  BY DEF Front
<1>2. Append(IF L[d] = <<>> THEN L[d] ELSE Front(L[d]), path)
        \in Seq(LmaInterfaces \cup {Garbage})
  BY <1>1
<1> QED
  BY <1>2 DEF Redirect

\* The Activate that a handover schedules is due within ActivateDelay.
LEMMA ScheduledType ==
  ASSUME NEW d \in Devices, NEW c \in Charts
  PROVE  Scheduled(d, c) \in Activation
BY ChartAssumption, DelayAssumption DEF Scheduled, Activation

----------------------------------------------------------------------------
(* Types are preserved by a request.                                       *)

Core == /\ status \in {"setup", "running", "aborted"}
        /\ subs \in [Charts -> Seq(Devices)]
        /\ routes \in [Charts -> [Devices -> Nat]]
        /\ lma \in [Devices -> Seq(LmaInterfaces \cup {Garbage})]
        /\ netid \in [Devices -> Nat]
        /\ activations \in Seq(Activation)

\* A refusal and a null dereference keep the types.
LEMMA RefuseType == Core /\ (Refuse \/ Abort) => Core'
BY DEF Core, Refuse, Abort

\* A granted handover keeps the types.
LEMMA GrantType ==
  ASSUME Core, NEW d \in Devices, NEW id, NEW tech, NEW two \in Charts,
         NEW path \in LmaInterfaces \cup {Garbage}, Grant(d, id, tech, two, path)
  PROVE  Core'
<1>1. CASE Abort
  BY <1>1, RefuseType
<1>2. CASE ~Abort
  <2>1. PICK one \in FirstOf(Named(id, tech)) :
          /\ subs' = MoveSub(subs, d, two, one)
          /\ routes' = MoveRoute(routes, d, two)
          /\ lma' = Redirect(lma, d, path)
          /\ netid' = UpdateNetId(d, two)
          /\ activations' = Append(activations, Scheduled(d, two))
          /\ UNCHANGED status
    BY <1>2 DEF Grant
  <2>2. one \in Charts
    BY DEF FirstOf, Named
  <2>3. subs' \in [Charts -> Seq(Devices)]
    BY <2>1, <2>2, MoveSubType DEF Core
  <2>4. routes' \in [Charts -> [Devices -> Nat]]
    BY <2>1, RouteType DEF Core
  <2>5. lma' \in [Devices -> Seq(LmaInterfaces \cup {Garbage})]
    BY <2>1, RedirectType DEF Core
  <2>6. netid' \in [Devices -> Nat]
    BY <2>1, ChartAssumption DEF Core, UpdateNetId
  <2>7. activations' \in Seq(Activation)
    BY <2>1, ScheduledType DEF Core
  <2> QED
    BY <2>1, <2>3, <2>4, <2>5, <2>6, <2>7 DEF Core
<1> QED
  BY <1>1, <1>2

\* The scans of RequestPSol and NIHandover yield charts.
LEMMA ClosestType ==
  ASSUME NEW p, NEW tech, NEW id
  PROVE  Closest(p, tech, id) \subseteq Charts /\ FirstOf(OfTech(tech, p)) \subseteq Charts
BY DEF Closest, FirstOf, OfTech

\* RequestPSol with technology 0 keeps the types.
LEMMA RequestClosestType ==
  ASSUME Core, NEW d \in Devices, NEW id, NEW tech, NEW p,
         RequestClosest(d, id, tech, p)
  PROVE  Core'
<1>1. CASE Refuse
  BY <1>1, RefuseType
<1>2. CASE \E two \in Closest(p, tech, netid[d]) :
             \E path \in LmaInterfaces \cup {Garbage} :
               Grant(d, id, tech, two, path)
  BY <1>2, ClosestType, GrantType
<1>3. CASE \E lte \in FirstOf(OfTech(3, p)) : Grant(d, id, tech, lte, ChartPath[lte])
  <2>1. PICK lte \in Charts : Grant(d, id, tech, lte, ChartPath[lte])
    BY <1>3, ClosestType
  <2>2. ChartPath[lte] \in LmaInterfaces
    BY ChartAssumption
  <2> QED
    BY <2>1, <2>2, GrantType
<1> QED
  BY <1>1, <1>2, <1>3 DEF RequestClosest

\* NIHandover and the handover it makes room for keep the types.
LEMMA PreemptType ==
  ASSUME Core, returns \in Seq(Return), NEW d \in Devices, NEW id, NEW tech,
         NEW two \in Charts, NEW v \in Devices, NEW pv,
         Preempt(d, id, tech, two, v, pv)
  PROVE  Core' /\ returns' \in Seq(Return)
<1>1. CASE (Refuse \/ Abort) /\ UNCHANGED returns
  BY <1>1, RefuseType
<1>2. CASE \E alt \in Closest(pv, ChartTech[two], netid[v]),
              one \in FirstOf(Named(id, tech)),
              off \in FirstOf(Named(ChartId[two], ChartTech[two])) :
         /\ ~LmaFault(v) /\ ~LmaFault(d)
         /\ routes[alt][v] < MaxRoutes
         /\ subs' = MoveSub(RemoveSub(Subscribe(subs, alt, v), off, v),
                            d, two, one)
         /\ routes' = MoveRoute(AddRoute(routes, alt, v), d, two)
         /\ lma' = Redirect(Redirect(lma, v, ChartPath[alt]),
                            d, ChartPath[two])
         /\ netid' = [netid EXCEPT ![v] = ChartId[alt], ![d] = ChartId[two]]
         /\ activations' =
              activations \o <<Scheduled(v, alt), Scheduled(d, two)>>
         /\ returns' = Append(returns, [dev |-> v, id |-> ChartId[alt],
                         tech |-> ChartTech[alt], left |-> ReturnDelay])
         /\ UNCHANGED status
  <2>1. PICK alt \in Charts, one \in Charts, off \in Charts :
         /\ subs' = MoveSub(RemoveSub(Subscribe(subs, alt, v), off, v),
                            d, two, one)
         /\ routes' = MoveRoute(AddRoute(routes, alt, v), d, two)
         /\ lma' = Redirect(Redirect(lma, v, ChartPath[alt]),
                            d, ChartPath[two])
         /\ netid' = [netid EXCEPT ![v] = ChartId[alt], ![d] = ChartId[two]]
         /\ activations' =
              activations \o <<Scheduled(v, alt), Scheduled(d, two)>>
         /\ returns' = Append(returns, [dev |-> v, id |-> ChartId[alt],
                         tech |-> ChartTech[alt], left |-> ReturnDelay])
         /\ UNCHANGED status
    BY <1>2, ClosestType DEF FirstOf, Named
  <2>2. subs' \in [Charts -> Seq(Devices)]
    <3>1. Subscribe(subs, alt, v) \in [Charts -> Seq(Devices)]
      BY SubscribeType DEF Core
    <3>2. RemoveSub(Subscribe(subs, alt, v), off, v) \in [Charts -> Seq(Devices)]
      BY <3>1, SubscribeType
    <3> QED
      BY <2>1, <3>2, MoveSubType
  <2>3. routes' \in [Charts -> [Devices -> Nat]]
    <3>1. AddRoute(routes, alt, v) \in [Charts -> [Devices -> Nat]]
      BY RouteType DEF Core
    <3> QED
      BY <2>1, <3>1, RouteType
  <2>4. lma' \in [Devices -> Seq(LmaInterfaces \cup {Garbage})]
    <3>1. ChartPath[alt] \in LmaInterfaces /\ ChartPath[two] \in LmaInterfaces
      BY ChartAssumption
    <3>2. Redirect(lma, v, ChartPath[alt]) \in [Devices -> Seq(LmaInterfaces \cup {Garbage})]
      BY <3>1, RedirectType DEF Core
    <3> QED
      BY <2>1, <3>1, <3>2, RedirectType
  <2>5. netid' \in [Devices -> Nat]
    BY <2>1, ChartAssumption DEF Core
  <2>6. activations' \in Seq(Activation)
    <3>1. Scheduled(v, alt) \in Activation /\ Scheduled(d, two) \in Activation
      BY ScheduledType
    <3> QED
      BY <2>1, <3>1 DEF Core
  <2>7. returns' \in Seq(Return)
    <3>1. [dev |-> v, id |-> ChartId[alt], tech |-> ChartTech[alt],
           left |-> ReturnDelay] \in Return
      BY ChartAssumption, DelayAssumption DEF Return
    <3> QED
      BY <2>1, <3>1
  <2> QED
    BY <2>1, <2>2, <2>3, <2>4, <2>5, <2>6, <2>7 DEF Core
<1> QED
  BY <1>1, <1>2 DEF Preempt

\* RequestPSol for an explicit technology keeps the types.
LEMMA RequestTechType ==
  ASSUME Core, returns \in Seq(Return), NEW d \in Devices, NEW id, NEW tech,
         NEW new, NEW p, RequestTech(d, id, tech, new, p)
  PROVE  Core' /\ returns' \in Seq(Return)
<1>1. CASE Refuse /\ UNCHANGED returns
  BY <1>1, RefuseType
<1>2. CASE \E two \in FirstOf(OfTech(new, p)) :
             Grant(d, id, tech, two, ChartPath[two]) /\ UNCHANGED returns
  <2>1. PICK two \in Charts :
          Grant(d, id, tech, two, ChartPath[two]) /\ UNCHANGED returns
    BY <1>2, ClosestType
  <2>2. ChartPath[two] \in LmaInterfaces
    BY ChartAssumption
  <2> QED
    BY <2>1, <2>2, GrantType
<1>3. CASE \E two \in FirstOf(OfTech(new, p)) : \E k \in Weakest(subs[two]) :
             \E pv \in Places : Preempt(d, id, tech, two, subs[two][k], pv)
  <2>1. PICK two \in Charts : \E k \in Weakest(subs[two]) : \E pv \in Places :
          Preempt(d, id, tech, two, subs[two][k], pv)
    BY <1>3, ClosestType
  <2>2. PICK k \in Weakest(subs[two]), pv \in Places :
          Preempt(d, id, tech, two, subs[two][k], pv)
    BY <2>1
  <2>3. subs[two][k] \in Devices
    BY DEF Core, Weakest
  <2> QED
    BY <2>2, <2>3, PreemptType
<1> QED
  BY <1>1, <1>2, <1>3 DEF RequestTech

----------------------------------------------------------------------------
(* Type correctness.                                                       *)

\* The fields of a scheduled event after one tick.
LEMMA PassActivations ==
  ASSUME NEW q \in Seq(Activation), \A k \in DOMAIN q : q[k].left > 0
  PROVE  Pass(q) \in Seq(Activation)
<1>1. ASSUME NEW r \in Activation, r.left > 0
      PROVE  [r EXCEPT !.left = r.left - 1] \in Activation
  <2>1. r.left - 1 \in 0..ActivateDelay
    BY <1>1, DelayAssumption DEF Activation
  <2> QED
    BY <2>1 DEF Activation
<1>2. \A k \in 1..Len(q) : q[k] \in Activation /\ q[k].left > 0
  OBVIOUS
<1>3. \A k \in 1..Len(q) : [q[k] EXCEPT !.left = q[k].left - 1] \in Activation
  BY <1>1, <1>2
<1>4. DOMAIN q = 1..Len(q) /\ Len(q) \in Nat
  OBVIOUS
<1>5. Pass(q) \in [1..Len(q) -> Activation]
  BY <1>3, <1>4, Zenon DEF Pass
<1> QED
  BY <1>4, <1>5, SeqDef, Zenon

\* The same for the returns that NIHandover scheduled.
LEMMA PassReturns ==
  ASSUME NEW q \in Seq(Return), \A k \in DOMAIN q : q[k].left > 0
  PROVE  Pass(q) \in Seq(Return)
<1>1. ASSUME NEW r \in Return, r.left > 0
      PROVE  [r EXCEPT !.left = r.left - 1] \in Return
  <2>1. r.left - 1 \in 0..ReturnDelay
    BY <1>1, DelayAssumption DEF Return
  <2> QED
    BY <2>1 DEF Return
<1>2. \A k \in 1..Len(q) : q[k] \in Return /\ q[k].left > 0
  OBVIOUS
<1>3. \A k \in 1..Len(q) : [q[k] EXCEPT !.left = q[k].left - 1] \in Return
  BY <1>1, <1>2
<1>4. DOMAIN q = 1..Len(q) /\ Len(q) \in Nat
  OBVIOUS
<1>5. Pass(q) \in [1..Len(q) -> Return]
  BY <1>3, <1>4, Zenon DEF Pass
<1> QED
  BY <1>4, <1>5, SeqDef, Zenon

\* The back-off runs down to zero.
LEMMA PassWait ==
  ASSUME NEW w \in [Devices -> 0..BackOff + 1]
  PROVE  [d \in Devices |-> IF w[d] = 0 THEN 0 ELSE w[d] - 1]
           \in [Devices -> 0..BackOff + 1]
BY DelayAssumption

\* The devices and charts of a scenario are well typed.
LEMMA TypeInit == Init => TypeOK
<1> SUFFICES ASSUME Init PROVE TypeOK
  OBVIOUS
<1>1. subs \in [Charts -> Seq(Devices)] /\ lma \in [Devices -> Seq(LmaInterfaces \cup {Garbage})]
  BY DEF Init
<1>2. netid \in [Devices -> Nat] /\ active \in [Devices -> Tech]
  BY ChartAssumption, DeviceAssumption DEF Init
<1>3. wait \in [Devices -> 0..BackOff + 1]
  BY DelayAssumption DEF Init
<1>4. activations \in Seq(Activation) /\ returns \in Seq(Return)
  BY DEF Init
<1> QED
  BY <1>1, <1>2, <1>3, <1>4 DEF Init, TypeOK

\* No step breaks the types.
LEMMA TypeStep ==
  ASSUME TypeOK, [Next]_vars
  PROVE  TypeOK'
<1> USE DEF TypeOK
<1>1. Core
  BY DEF Core
<1>2. ASSUME NEW d \in Devices, Register(d) PROVE TypeOK'
  <2>1. PICK two \in Charts :
          /\ subs' = Subscribe(subs, two, d)
          /\ routes' = AddRoute(routes, two, d)
          /\ lma' = [lma EXCEPT ![d] = Append(@, ChartPath[two])]
    BY <1>2 DEF Register, FirstOf, Named
  <2>2. subs' \in [Charts -> Seq(Devices)]
    BY <2>1, SubscribeType
  <2>3. routes' \in [Charts -> [Devices -> Nat]]
    BY <2>1, RouteType
  <2>4. lma' \in [Devices -> Seq(LmaInterfaces \cup {Garbage})]
    <3>1. ChartPath[two] \in LmaInterfaces
      BY ChartAssumption
    <3>2. Append(lma[d], ChartPath[two]) \in Seq(LmaInterfaces \cup {Garbage})
      BY <3>1
    <3> QED
      BY <2>1, <3>2
  <2> QED
    BY <1>2, <2>2, <2>3, <2>4 DEF Register
<1>3. ASSUME NEW d \in Devices, Evaluate(d) PROVE TypeOK'
  <2>1. Core' /\ returns' \in Seq(Return)
    BY <1>1, <1>3, RequestClosestType, RequestTechType DEF Evaluate
  <2>2. wait' \in [Devices -> 0..BackOff + 1]
    <3>1. wait' = [wait EXCEPT ![d] = BackOff + 1] /\ BackOff + 1 \in 0..BackOff + 1
      BY <1>3, DelayAssumption DEF Evaluate, StartBackOff
    <3> QED
      BY <3>1
  <2> QED
    BY <1>3, <2>1, <2>2 DEF Evaluate, Core
<1>4. CASE Run
  BY <1>4 DEF Run
<1>5. CASE Activate
  <2>1. activations # <<>> /\ Head(activations) \in Activation
    BY <1>5 DEF Activate
  <2>2. active' \in [Devices -> Tech]
    BY <1>5, <2>1 DEF Activate, Activation
  <2>3. activations' \in Seq(Activation)
    BY <1>5, <2>1 DEF Activate
  <2> QED
    BY <1>5, <2>2, <2>3 DEF Activate
<1>6. CASE ReturnVictim
  <2>1. returns # <<>> /\ Head(returns) \in Return
    BY <1>6 DEF ReturnVictim
  <2>2. Head(returns).dev \in Devices
    BY <2>1 DEF Return
  <2>3. Core'
    BY <1>1, <1>6, <2>2, RequestClosestType DEF ReturnVictim
  <2>4. returns' \in Seq(Return)
    BY <1>6, <2>1 DEF ReturnVictim
  <2> QED
    BY <1>6, <2>3, <2>4 DEF ReturnVictim, Core
<1>7. CASE Tick
  <2>1. Pass(activations) \in Seq(Activation)
    BY <1>7, PassActivations DEF Tick, NothingDue
  <2>2. Pass(returns) \in Seq(Return)
    BY <1>7, PassReturns DEF Tick, NothingDue
  <2>3. wait' \in [Devices -> 0..BackOff + 1]
    BY <1>7, PassWait DEF Tick
  <2> QED
    BY <1>7, <2>1, <2>2, <2>3 DEF Tick
<1>8. CASE UNCHANGED vars
  BY <1>8 DEF vars
<1> QED
  BY <1>2, <1>3, <1>4, <1>5, <1>6, <1>7, <1>8 DEF Next

\* Every variable keeps its type.
THEOREM TypeCorrect == Spec => []TypeOK
<1>1. Init => TypeOK
  BY TypeInit
<1>2. TypeOK /\ [Next]_vars => TypeOK'
  BY TypeStep
<1> QED
  BY <1>1, <1>2, PTL DEF Spec

----------------------------------------------------------------------------
(* One route per device at the LMA.                                        *)

LmaTable == [Devices -> Seq(LmaInterfaces \cup {Garbage})]

\* RemoveStaticRoute and AddNetworkRouteTo on a table that holds one entry
\* per device leave one entry per device.
LEMMA RedirectKeepsOne ==
  ASSUME NEW L \in LmaTable, \A e \in Devices : Len(L[e]) = 1,
         NEW d \in Devices, NEW path \in LmaInterfaces \cup {Garbage}
  PROVE  /\ Redirect(L, d, path) \in LmaTable
         /\ \A e \in Devices : Len(Redirect(L, d, path)[e]) = 1
<1>1. L[d] # <<>> /\ Front(L[d]) \in Seq(LmaInterfaces \cup {Garbage})
      /\ Len(Front(L[d])) = 0
  <2>1. L[d] \in Seq(LmaInterfaces \cup {Garbage}) /\ Len(L[d]) = 1
    BY DEF LmaTable
  <2>2. Front(L[d]) = SubSeq(L[d], 1, 0)
    BY <2>1 DEF Front
  <2>3. SubSeq(L[d], 1, 0) = <<>>
    BY <2>1
  <2>4. L[d] # <<>>
    <3>1. Len(<<>>) # 1
      OBVIOUS
    <3> QED
      BY <2>1, <3>1, Zenon
  <2>5. <<>> \in Seq(LmaInterfaces \cup {Garbage}) /\ Len(<<>>) = 0
    OBVIOUS
  <2>6. Front(L[d]) = <<>>
    BY <2>2, <2>3
  <2> QED
    BY <2>4, <2>5, <2>6
<1>2. Redirect(L, d, path) = [L EXCEPT ![d] = Append(Front(L[d]), path)]
  BY <1>1 DEF Redirect
<1>3. Append(Front(L[d]), path) \in Seq(LmaInterfaces \cup {Garbage})
      /\ Len(Append(Front(L[d]), path)) = 1
  BY <1>1
<1> QED
  BY <1>2, <1>3 DEF LmaTable

\* What a request does to the LMA's table: nothing, or one or two redirects.
LEMMA RequestRedirects ==
  ASSUME Core, NEW d \in Devices, NEW id, NEW tech, NEW new, NEW p,
         \/ RequestTech(d, id, tech, new, p)
         \/ RequestClosest(d, id, tech, p)
  PROVE  \/ UNCHANGED lma
         \/ \E path \in LmaInterfaces \cup {Garbage} : lma' = Redirect(lma, d, path)
         \/ \E v \in Devices : \E pv, pd \in LmaInterfaces :
              lma' = Redirect(Redirect(lma, v, pv), d, pd)
<1>1. CASE Refuse
  BY <1>1 DEF Refuse
<1>2. ASSUME NEW two \in Charts, NEW path \in LmaInterfaces \cup {Garbage},
             Grant(d, id, tech, two, path)
      PROVE  \/ UNCHANGED lma
             \/ \E q \in LmaInterfaces \cup {Garbage} : lma' = Redirect(lma, d, q)
  BY <1>2 DEF Grant, Abort
<1>3. CASE RequestClosest(d, id, tech, p)
  <2>1. \A c \in Charts : ChartPath[c] \in LmaInterfaces
    BY ChartAssumption
  <2> QED
    BY <1>1, <1>2, <1>3, <2>1, ClosestType DEF RequestClosest
<1>4. CASE RequestTech(d, id, tech, new, p)
  <2>1. \A c \in Charts : ChartPath[c] \in LmaInterfaces
    BY ChartAssumption
  <2>2. ASSUME NEW two \in Charts, NEW v \in Devices, NEW pv,
               Preempt(d, id, tech, two, v, pv)
        PROVE  \/ UNCHANGED lma
               \/ \E a, b \in LmaInterfaces :
                    lma' = Redirect(Redirect(lma, v, a), d, b)
    BY <2>1, <2>2, ClosestType DEF Preempt, Refuse, Abort
  <2>3. \A c \in Charts : \A k \in Weakest(subs[c]) : subs[c][k] \in Devices
    BY DEF Core, Weakest
  <2> QED
    BY <1>1, <1>2, <1>4, <2>1, <2>2, <2>3, ClosestType DEF RequestTech
<1> QED
  BY <1>3, <1>4

\* The inductive strengthening: before the simulation runs, a device has at
\* most the one route that SetNetId added.
OneRoute ==
  /\ TypeOK
  /\ \A d \in Devices : lma[d] # <<>> => Len(lma[d]) = 1
  /\ status # "setup" => \A d \in Devices : lma[d] # <<>>

\* A request keeps one route per device.
LEMMA RequestKeepsOne ==
  ASSUME OneRoute, status # "setup", NEW d \in Devices, NEW id, NEW tech, NEW new, NEW p,
         \/ RequestTech(d, id, tech, new, p)
         \/ RequestClosest(d, id, tech, p)
  PROVE  \A e \in Devices : Len(lma'[e]) = 1
<1>1. lma \in LmaTable /\ \A e \in Devices : Len(lma[e]) = 1
  BY DEF OneRoute, TypeOK, LmaTable
<1>2. Core
  BY DEF OneRoute, TypeOK, Core
<1>3. CASE UNCHANGED lma
  BY <1>1, <1>3
<1>4. CASE \E path \in LmaInterfaces \cup {Garbage} : lma' = Redirect(lma, d, path)
  BY <1>1, <1>4, RedirectKeepsOne
<1>5. CASE \E v \in Devices : \E pv, pd \in LmaInterfaces :
             lma' = Redirect(Redirect(lma, v, pv), d, pd)
  <2>1. PICK v \in Devices, pv \in LmaInterfaces, pd \in LmaInterfaces :
          lma' = Redirect(Redirect(lma, v, pv), d, pd)
    BY <1>5
  <2>2. /\ Redirect(lma, v, pv) \in LmaTable
        /\ \A e \in Devices : Len(Redirect(lma, v, pv)[e]) = 1
    BY <1>1, RedirectKeepsOne
  <2> QED
    BY <2>1, <2>2, RedirectKeepsOne
<1> QED
  BY <1>2, <1>3, <1>4, <1>5, RequestRedirects

\* Every step keeps the strengthening.
LEMMA OneRouteStep ==
  ASSUME OneRoute, [Next]_vars
  PROVE  OneRoute'
<1>1. TypeOK'
  BY TypeStep DEF OneRoute
<1>2. ASSUME NEW d \in Devices, Register(d) PROVE OneRoute'
  <2>1. PICK two \in Charts : lma' = [lma EXCEPT ![d] = Append(@, ChartPath[two])]
    BY <1>2 DEF Register, FirstOf, Named
  <2>2. lma[d] = <<>> /\ status = "setup" /\ status' = "setup"
    BY <1>2 DEF Register
  <2>3. Len(lma'[d]) = 1
    BY <2>1, <2>2 DEF OneRoute, TypeOK
  <2> QED
    BY <1>1, <2>1, <2>2, <2>3 DEF OneRoute, TypeOK
<1>3. ASSUME NEW d \in Devices, Evaluate(d) PROVE OneRoute'
  <2>1. PICK p, new : \/ RequestTech(d, netid[d], active[d], new, p)
                      \/ RequestClosest(d, netid[d], active[d], p)
    BY <1>3 DEF Evaluate
  <2>2. \A e \in Devices : Len(lma'[e]) = 1
    BY <1>3, <2>1, RequestKeepsOne DEF Evaluate
  <2> QED
    BY <1>1, <2>2 DEF OneRoute
<1>4. CASE Run
  BY <1>1, <1>4 DEF Run, OneRoute
<1>5. CASE Activate \/ Tick \/ UNCHANGED vars
  BY <1>1, <1>5 DEF Activate, Tick, vars, OneRoute
<1>6. CASE ReturnVictim
  <2>1. Head(returns).dev \in Devices
    <3>1. returns # <<>> /\ Head(returns) \in Return
      BY <1>6 DEF ReturnVictim, OneRoute, TypeOK
    <3> QED
      BY <3>1 DEF Return
  <2>2. PICK p : RequestClosest(Head(returns).dev, Head(returns).id,
                                Head(returns).tech, p)
    BY <1>6 DEF ReturnVictim
  <2>3. \A e \in Devices : Len(lma'[e]) = 1
    BY <1>6, <2>1, <2>2, RequestKeepsOne DEF ReturnVictim
  <2> QED
    BY <1>1, <2>3 DEF OneRoute
<1> QED
  BY <1>2, <1>3, <1>4, <1>5, <1>6 DEF Next

\* The LMA never holds two routes for one device, however handovers, radio
\* switches and returns interleave.
THEOREM AnchorHasOneRoute == Spec => []OneAnchorRoute
<1>1. Init => OneRoute
  BY TypeInit DEF Init, OneRoute
<1>2. OneRoute /\ [Next]_vars => OneRoute'
  BY OneRouteStep
<1>3. OneRoute => OneAnchorRoute
  BY DEF OneRoute, OneAnchorRoute
<1> QED
  BY <1>1, <1>2, <1>3, PTL DEF Spec

----------------------------------------------------------------------------
(* A route at the network the device is, or is about to be, on.            *)

\* Planned, with the scheduled Activates and the active technologies as
\* arguments.
PlannedIn(q, act, d, t) ==
  \/ \E k \in DOMAIN q :
       /\ q[k].dev = d /\ q[k].tech = t
       /\ \A j \in DOMAIN q : q[j].dev = d => j <= k
  \/ act[d] = t /\ \A k \in DOMAIN q : q[k].dev # d

\* PlannedIn is Planned.
LEMMA PlannedMeans ==
  ASSUME NEW d, NEW t
  PROVE  Planned(d, t) <=> PlannedIn(activations, active, d, t)
BY DEF Planned, PlannedIn

\* A radio switch that is scheduled decides for its device, and for no other.
LEMMA PlannedAppend ==
  ASSUME NEW q \in Seq(Activation), NEW r \in Activation, NEW act, NEW d, NEW t,
         r.dev # d => PlannedIn(q, act, d, t), r.dev = d => r.tech = t
  PROVE  PlannedIn(Append(q, r), act, d, t)
<1>1. /\ Append(q, r) \in Seq(Activation) /\ DOMAIN Append(q, r) = 1 .. Len(q) + 1
      /\ \A k \in DOMAIN q : Append(q, r)[k] = q[k]
      /\ Append(q, r)[Len(q) + 1] = r
      /\ DOMAIN q = 1..Len(q) /\ Len(q) \in Nat
  OBVIOUS
<1>2. CASE r.dev = d
  <2>1. Len(q) + 1 \in DOMAIN Append(q, r)
    BY <1>1
  <2>2. \A j \in DOMAIN Append(q, r) : j <= Len(q) + 1
    BY <1>1
  <2> QED
    BY <1>1, <1>2, <2>1, <2>2 DEF PlannedIn
<1>3. CASE r.dev # d
  <2>1. CASE \E k \in DOMAIN q :
               /\ q[k].dev = d /\ q[k].tech = t
               /\ \A j \in DOMAIN q : q[j].dev = d => j <= k
    <3>1. PICK k \in DOMAIN q : /\ q[k].dev = d /\ q[k].tech = t
                                /\ \A j \in DOMAIN q : q[j].dev = d => j <= k
      BY <2>1
    <3>2. \A j \in DOMAIN Append(q, r) : Append(q, r)[j].dev = d => j \in DOMAIN q
      BY <1>1, <1>3
    <3>3. k \in DOMAIN Append(q, r) /\ Append(q, r)[k] = q[k]
      BY <1>1
    <3> QED
      BY <1>1, <3>1, <3>2, <3>3 DEF PlannedIn
  <2>2. CASE act[d] = t /\ \A k \in DOMAIN q : q[k].dev # d
    <3>1. \A j \in DOMAIN Append(q, r) : j \in DOMAIN q \/ j = Len(q) + 1
      BY <1>1
    <3>2. \A j \in DOMAIN Append(q, r) : Append(q, r)[j].dev # d
      BY <1>1, <1>3, <2>2, <3>1
    <3> QED
      BY <2>2, <3>2 DEF PlannedIn
  <2> QED
    BY <1>3, <2>1, <2>2 DEF PlannedIn
<1> QED
  BY <1>2, <1>3

\* Executing the oldest scheduled switch leaves the last one in force.
LEMMA PlannedTail ==
  ASSUME NEW q \in Seq(Activation), q # <<>>, NEW act \in [Devices -> Tech],
         NEW d \in Devices, NEW t, PlannedIn(q, act, d, t)
  PROVE  PlannedIn(Tail(q), [act EXCEPT ![Head(q).dev] = Head(q).tech], d, t)
<1> DEFINE new == [act EXCEPT ![Head(q).dev] = Head(q).tech]
<1>1. /\ DOMAIN q = 1..Len(q) /\ Len(q) \in Nat \ {0} /\ Head(q) = q[1]
      /\ DOMAIN Tail(q) = 1 .. Len(q) - 1
      /\ \A j \in 1 .. Len(q) - 1 : Tail(q)[j] = q[j + 1]
  OBVIOUS
<1>2. CASE \E k \in DOMAIN q :
             /\ q[k].dev = d /\ q[k].tech = t
             /\ \A j \in DOMAIN q : q[j].dev = d => j <= k
  <2>1. PICK k \in DOMAIN q : /\ q[k].dev = d /\ q[k].tech = t
                              /\ \A j \in DOMAIN q : q[j].dev = d => j <= k
    BY <1>2
  <2>2. CASE k = 1
    <3>1. new[d] = t
      BY <1>1, <2>1, <2>2
    <3>2. \A j \in 1 .. Len(q) - 1 : j + 1 \in DOMAIN q /\ ~(j + 1 <= k)
      BY <1>1, <2>2
    <3>3. \A j \in DOMAIN Tail(q) : Tail(q)[j].dev # d
      BY <1>1, <2>1, <3>2
    <3> QED
      BY <3>1, <3>3 DEF PlannedIn
  <2>3. CASE k # 1
    <3>1. k - 1 \in 1 .. Len(q) - 1 /\ (k - 1) + 1 = k
      BY <1>1, <2>3
    <3>2. Tail(q)[k - 1] = q[k]
      BY <1>1, <3>1
    <3>3. \A j \in 1 .. Len(q) - 1 : Tail(q)[j].dev = d => j <= k - 1
      <4> TAKE j \in 1 .. Len(q) - 1
      <4>1. j + 1 \in DOMAIN q /\ Tail(q)[j] = q[j + 1]
        BY <1>1
      <4>2. q[j + 1].dev = d => j + 1 <= k
        BY <2>1, <4>1
      <4> QED
        BY <1>1, <4>1, <4>2
    <3> QED
      BY <1>1, <2>1, <3>1, <3>2, <3>3 DEF PlannedIn
  <2> QED
    BY <2>2, <2>3
<1>3. CASE act[d] = t /\ \A k \in DOMAIN q : q[k].dev # d
  <2>1. Head(q).dev # d
    BY <1>1, <1>3
  <2>2. new[d] = t
    BY <1>3, <2>1
  <2>3. \A j \in 1 .. Len(q) - 1 : j + 1 \in DOMAIN q
    BY <1>1
  <2>4. \A j \in DOMAIN Tail(q) : Tail(q)[j].dev # d
    BY <1>1, <1>3, <2>3
  <2> QED
    BY <2>2, <2>4 DEF PlannedIn
<1> QED
  BY <1>2, <1>3 DEF PlannedIn

\* The passing of time changes no plan.
LEMMA PlannedPass ==
  ASSUME NEW q \in Seq(Activation), NEW act, NEW d, NEW t, PlannedIn(q, act, d, t)
  PROVE  PlannedIn(Pass(q), act, d, t)
<1>1. DOMAIN Pass(q) = DOMAIN q
  BY DEF Pass
<1>2. \A k \in DOMAIN q : Pass(q)[k].dev = q[k].dev /\ Pass(q)[k].tech = q[k].tech
  <2> TAKE k \in DOMAIN q
  <2>1. q[k] \in Activation
    OBVIOUS
  <2>2. Pass(q)[k] = [q[k] EXCEPT !.left = q[k].left - 1]
    BY DEF Pass
  <2> QED
    BY <2>1, <2>2 DEF Activation
<1> QED
  BY <1>1, <1>2 DEF PlannedIn

\* RoutedAtTarget, for one device.
HasTarget(d) ==
  \E c \in Charts : /\ ChartId[c] = netid[d]
                    /\ Planned(d, ChartTech[c])
                    /\ routes[c][d] > 0

\* RoutedAtTarget, device by device.
LEMMA TargetMeans ==
  RoutedAtTarget <=> \A d \in Devices : lma[d] # <<>> => HasTarget(d)
BY DEF RoutedAtTarget, HasTarget, At

\* A device whose identifier, plan and routes are left alone keeps its target.
LEMMA TargetKept ==
  ASSUME NEW d \in Devices, HasTarget(d), netid'[d] = netid[d],
         \A c \in Charts : routes'[c][d] = routes[c][d],
         \A t \in Tech : PlannedIn(activations, active, d, t) =>
                           PlannedIn(activations', active', d, t)
  PROVE  HasTarget(d)'
<1>1. PICK c \in Charts : ChartId[c] = netid[d] /\ Planned(d, ChartTech[c])
                          /\ routes[c][d] > 0
  BY DEF HasTarget
<1>2. PlannedIn(activations', active', d, ChartTech[c])
  BY <1>1, PlannedMeans, ChartAssumption
<1>3. Planned(d, ChartTech[c])'
  BY <1>2 DEF Planned, PlannedIn
<1> QED
  BY <1>1, <1>3 DEF HasTarget

\* The routers of chart c and device e when d is moved to chart two.
LEMMA MoveRouteCounts ==
  ASSUME NEW R \in [Charts -> [Devices -> Nat]], NEW d \in Devices, NEW two \in Charts,
         NEW c \in Charts, NEW e \in Devices
  PROVE  /\ MoveRoute(R, d, two)[two][d] > 0
         /\ e # d => MoveRoute(R, d, two)[c][e] = R[c][e]
<1>1. /\ RemoveRoute(R, two, d) \in [Charts -> [Devices -> Nat]]
      /\ e # d => RemoveRoute(R, two, d)[c][e] = R[c][e]
  BY DEF RemoveRoute
<1> QED
  BY <1>1 DEF MoveRoute, AddRoute

\* The same for AddRouting alone.
LEMMA AddRouteCounts ==
  ASSUME NEW R \in [Charts -> [Devices -> Nat]], NEW d \in Devices, NEW two \in Charts,
         NEW c \in Charts, NEW e \in Devices
  PROVE  /\ AddRoute(R, two, d) \in [Charts -> [Devices -> Nat]]
         /\ AddRoute(R, two, d)[two][d] > 0
         /\ e # d => AddRoute(R, two, d)[c][e] = R[c][e]
BY DEF AddRoute

\* A request that changes nothing, or stops the program, moves no target.
LEMMA StutterTarget ==
  ASSUME Refuse \/ Abort, active' = active, NEW e \in Devices, HasTarget(e)
  PROVE  HasTarget(e)'
BY TargetKept DEF Refuse, Abort

\* A granted handover gives its device a target and leaves the others theirs.
LEMMA GrantTarget ==
  ASSUME Core, NEW d \in Devices, NEW id, NEW tech, NEW two \in Charts,
         NEW path, Grant(d, id, tech, two, path), active' = active,
         NEW e \in Devices, HasTarget(e)
  PROVE  HasTarget(e)'
<1>1. CASE Abort
  BY <1>1, StutterTarget
<1>2. CASE ~Abort
  <2>1. /\ routes' = MoveRoute(routes, d, two)
        /\ netid' = UpdateNetId(d, two)
        /\ activations' = Append(activations, Scheduled(d, two))
    BY <1>2 DEF Grant
  <2>2. /\ Scheduled(d, two) \in Activation
        /\ Scheduled(d, two).dev = d /\ Scheduled(d, two).tech = ChartTech[two]
    BY ScheduledType DEF Scheduled
  <2>3. CASE e = d
    <3>1. routes'[two][d] > 0
      BY <2>1, MoveRouteCounts DEF Core
    <3>2. netid'[d] = ChartId[two]
      BY <2>1 DEF Core, UpdateNetId
    <3>3. PlannedIn(activations', active', d, ChartTech[two])
      BY <2>1, <2>2, PlannedAppend DEF Core
    <3>4. Planned(d, ChartTech[two])'
      BY <3>3 DEF Planned, PlannedIn
    <3> QED
      BY <2>3, <3>1, <3>2, <3>4 DEF HasTarget
  <2>4. CASE e # d
    <3>1. \A c \in Charts : routes'[c][e] = routes[c][e]
      BY <2>1, <2>4, MoveRouteCounts DEF Core
    <3>2. netid'[e] = netid[e]
      BY <2>1, <2>4 DEF Core, UpdateNetId
    <3>3. \A t \in Tech : PlannedIn(activations, active, e, t) =>
                            PlannedIn(activations', active', e, t)
      BY <2>1, <2>2, <2>4, PlannedAppend DEF Core
    <3> QED
      BY <3>1, <3>2, <3>3, TargetKept
  <2> QED
    BY <2>3, <2>4
<1> QED
  BY <1>1, <1>2

\* NIHandover gives the victim and the requesting device a target, and leaves
\* the others theirs.
LEMMA PreemptTarget ==
  ASSUME Core, NEW d \in Devices, NEW id, NEW tech, NEW two \in Charts,
         NEW v \in Devices, NEW pv, Preempt(d, id, tech, two, v, pv),
         active' = active, NEW e \in Devices, HasTarget(e)
  PROVE  HasTarget(e)'
<1>1. CASE Refuse \/ Abort
  BY <1>1, StutterTarget
<1>2. CASE ~(Refuse \/ Abort)
  <2>1. PICK alt \in Charts :
          /\ routes' = MoveRoute(AddRoute(routes, alt, v), d, two)
          /\ netid' = [netid EXCEPT ![v] = ChartId[alt], ![d] = ChartId[two]]
          /\ activations' =
               activations \o <<Scheduled(v, alt), Scheduled(d, two)>>
    BY <1>2, ClosestType DEF Preempt
  <2>2. /\ Scheduled(v, alt) \in Activation /\ Scheduled(d, two) \in Activation
        /\ Scheduled(v, alt).dev = v /\ Scheduled(v, alt).tech = ChartTech[alt]
        /\ Scheduled(d, two).dev = d /\ Scheduled(d, two).tech = ChartTech[two]
    BY ScheduledType DEF Scheduled
  <2> DEFINE mid == Append(activations, Scheduled(v, alt))
             R == AddRoute(routes, alt, v)
  <2>3. mid \in Seq(Activation) /\ activations' = Append(mid, Scheduled(d, two))
    <3>1. ASSUME NEW q \in Seq(Activation), NEW a \in Activation, NEW b \in Activation
          PROVE  /\ Append(q, a) \in Seq(Activation)
                 /\ q \o <<a, b>> = Append(Append(q, a), b)
      OBVIOUS
    <3> QED
      BY <2>1, <2>2, <3>1 DEF Core
  <2>4. R \in [Charts -> [Devices -> Nat]] /\ R[alt][v] > 0
    BY AddRouteCounts DEF Core
  <2>5. CASE e = d
    <3>1. routes'[two][d] > 0
      BY <2>1, <2>4, MoveRouteCounts
    <3>2. netid'[d] = ChartId[two]
      BY <2>1 DEF Core
    <3>3. PlannedIn(activations', active', d, ChartTech[two])
      BY <2>2, <2>3, PlannedAppend
    <3>4. Planned(d, ChartTech[two])'
      BY <3>3 DEF Planned, PlannedIn
    <3> QED
      BY <2>5, <3>1, <3>2, <3>4 DEF HasTarget
  <2>6. CASE e # d /\ e = v
    <3>0. MoveRoute(R, d, two)[alt][v] = R[alt][v]
      BY <2>4, <2>6, MoveRouteCounts
    <3>1. routes'[alt][v] > 0
      BY <2>1, <2>4, <3>0
    <3>2. netid'[v] = ChartId[alt]
      BY <2>1, <2>6 DEF Core
    <3>3. PlannedIn(mid, active', v, ChartTech[alt])
      BY <2>2, PlannedAppend DEF Core
    <3>4. PlannedIn(activations', active', v, ChartTech[alt])
      BY <2>2, <2>3, <2>6, <3>3, PlannedAppend
    <3>5. Planned(v, ChartTech[alt])'
      BY <3>4 DEF Planned, PlannedIn
    <3> QED
      BY <2>6, <3>1, <3>2, <3>5 DEF HasTarget
  <2>7. CASE e # d /\ e # v
    <3>1. ASSUME NEW c \in Charts PROVE R[c][e] = routes[c][e]
      <4>1. routes \in [Charts -> [Devices -> Nat]]
        BY DEF Core
      <4> QED
        BY <2>7, <4>1, AddRouteCounts
    <3>2. \A c \in Charts : routes'[c][e] = routes[c][e]
      BY <2>1, <2>4, <2>7, <3>1, MoveRouteCounts, SMTT(30)
    <3>3. netid'[e] = netid[e]
      BY <2>1, <2>7 DEF Core
    <3>4. ASSUME NEW t \in Tech, PlannedIn(activations, active, e, t)
          PROVE  PlannedIn(activations', active', e, t)
      <4>1. PlannedIn(mid, active', e, t)
        BY <2>2, <2>7, <3>4, PlannedAppend DEF Core
      <4> QED
        BY <2>2, <2>3, <2>7, <4>1, PlannedAppend
    <3> QED
      BY <3>2, <3>3, <3>4, TargetKept
  <2> QED
    BY <2>5, <2>6, <2>7
<1> QED
  BY <1>1, <1>2

\* Every request leaves every device a target.
LEMMA RequestTarget ==
  ASSUME Core, NEW d \in Devices, NEW id, NEW tech, NEW new, NEW p,
         \/ RequestTech(d, id, tech, new, p)
         \/ RequestClosest(d, id, tech, p),
         active' = active, NEW e \in Devices, HasTarget(e)
  PROVE  HasTarget(e)'
<1>1. CASE Refuse
  BY <1>1, StutterTarget
<1>2. CASE \E two \in Charts : \E path : Grant(d, id, tech, two, path)
  BY <1>2, GrantTarget
<1>3. CASE \E two \in Charts : \E k \in Weakest(subs[two]) : \E pv :
             Preempt(d, id, tech, two, subs[two][k], pv)
  <2>1. PICK two \in Charts : \E k \in Weakest(subs[two]) : \E pv :
          Preempt(d, id, tech, two, subs[two][k], pv)
    BY <1>3
  <2>2. PICK k \in Weakest(subs[two]) : \E pv :
          Preempt(d, id, tech, two, subs[two][k], pv)
    BY <2>1
  <2>3. subs[two][k] \in Devices
    BY DEF Core, Weakest
  <2> QED
    BY <2>2, <2>3, PreemptTarget
<1> QED
  BY <1>1, <1>2, <1>3, ClosestType DEF RequestTech, RequestClosest

\* A request never leads back to the set-up of the simulation.
LEMMA RequestRuns ==
  ASSUME status = "running", NEW d, NEW id, NEW tech, NEW new, NEW p,
         \/ RequestTech(d, id, tech, new, p)
         \/ RequestClosest(d, id, tech, p)
  PROVE  status' # "setup"
<1>1. \A two, path : Grant(d, id, tech, two, path) => status' # "setup"
  BY DEF Grant, Abort
<1>2. \A two, v, pv : Preempt(d, id, tech, two, v, pv) => status' # "setup"
  <2>1. Refuse \/ Abort \/ UNCHANGED status => status' # "setup"
    BY DEF Refuse, Abort
  <2>2. ASSUME NEW two, NEW v, NEW pv, Preempt(d, id, tech, two, v, pv)
        PROVE  Refuse \/ Abort \/ UNCHANGED status
    BY <2>2 DEF Preempt
  <2> QED
    BY <2>1, <2>2
<1>3. Refuse => status' # "setup"
  BY DEF Refuse
<1> QED
  BY <1>1, <1>2, <1>3 DEF RequestTech, RequestClosest

\* The inductive strengthening: no radio switch is scheduled before the
\* simulation runs, so that SetNetId and the radio agree.
Targets ==
  /\ OneRoute
  /\ RoutedAtTarget
  /\ status = "setup" => activations = <<>>

\* Every step keeps the strengthening.
LEMMA TargetsStep ==
  ASSUME Targets, [Next]_vars
  PROVE  Targets'
<1>a. OneRoute'
  BY OneRouteStep DEF Targets
<1>b. (status = "setup" => activations = <<>>)'
  <2>1. ASSUME NEW d \in Devices, Evaluate(d) PROVE status' # "setup"
    BY <2>1, RequestRuns DEF Evaluate
  <2>2. CASE ReturnVictim
    <3>1. status = "running"
          /\ \E p : RequestClosest(Head(returns).dev, Head(returns).id,
                                   Head(returns).tech, p)
      BY <2>2 DEF ReturnVictim
    <3> QED
      BY <3>1, RequestRuns
  <2>3. ASSUME NEW d \in Devices, Register(d)
        PROVE  UNCHANGED <<status, activations>>
    BY <2>3 DEF Register
  <2>4. CASE Run \/ Activate \/ Tick
    BY <2>4 DEF Run, Activate, Tick
  <2>5. CASE UNCHANGED vars
    BY <2>5 DEF vars, Targets
  <2> QED
    BY <2>1, <2>2, <2>3, <2>4, <2>5 DEF Targets, Next
<1> SUFFICES ASSUME NEW e \in Devices, lma'[e] # <<>>
             PROVE  HasTarget(e)'
  BY <1>a, <1>b DEF Targets, RoutedAtTarget, HasTarget, At
<1> USE TargetMeans DEF Targets
<1>0. TypeOK /\ Core /\ (status # "setup" => \A d \in Devices : lma[d] # <<>>)
  BY DEF OneRoute, TypeOK, Core
<1>1. lma[e] # <<>> => HasTarget(e)
  OBVIOUS
<1>2. ASSUME NEW d \in Devices, Register(d) PROVE HasTarget(e)'
  <2>1. PICK two \in Named(netid[d], active[d]) :
          /\ routes' = AddRoute(routes, two, d)
          /\ lma' = [lma EXCEPT ![d] = Append(@, ChartPath[two])]
    BY <1>2 DEF Register, FirstOf
  <2>2. /\ two \in Charts /\ ChartId[two] = netid[d] /\ ChartTech[two] = active[d]
        /\ UNCHANGED <<netid, active, activations>>
    BY <1>2, <2>1 DEF Named, Register
  <2>3. CASE e = d
    <3>1. routes'[two][d] > 0
      BY <1>0, <2>1, <2>2, AddRouteCounts DEF Core
    <3>2. Planned(d, ChartTech[two])'
      <4>1. activations' = <<>> /\ active'[d] = ChartTech[two]
        BY <1>2, <2>2 DEF Register
      <4> QED
        BY <4>1 DEF Planned
    <3> QED
      BY <2>2, <2>3, <3>1, <3>2 DEF HasTarget
  <2>4. CASE e # d
    <3>1. lma[e] # <<>>
      BY <1>0, <2>1, <2>4 DEF Core
    <3>2. ASSUME NEW c \in Charts PROVE routes'[c][e] = routes[c][e]
      <4>1. routes \in [Charts -> [Devices -> Nat]]
        BY <1>0 DEF Core
      <4>2. AddRoute(routes, two, d)[c][e] = routes[c][e]
        BY <2>2, <2>4, <4>1, AddRouteCounts
      <4> QED
        BY <2>1, <4>2
    <3> QED
      BY <1>1, <2>2, <3>1, <3>2, TargetKept
  <2> QED
    BY <2>3, <2>4
<1>3. ASSUME NEW d \in Devices, Evaluate(d) PROVE HasTarget(e)'
  <2>1. PICK p, new : \/ RequestTech(d, netid[d], active[d], new, p)
                      \/ RequestClosest(d, netid[d], active[d], p)
    BY <1>3 DEF Evaluate
  <2>2. HasTarget(e) /\ active' = active
    BY <1>0, <1>1, <1>3 DEF Evaluate
  <2> QED
    BY <1>0, <2>1, <2>2, RequestTarget
<1>4. CASE Run
  BY <1>1, <1>4, TargetKept DEF Run
<1>5. CASE Activate
  <2>1. /\ activations # <<>> /\ activations' = Tail(activations)
        /\ active' = [active EXCEPT ![Head(activations).dev] = Head(activations).tech]
        /\ UNCHANGED <<netid, routes, lma>>
    BY <1>5 DEF Activate
  <2>2. \A t \in Tech : PlannedIn(activations, active, e, t) =>
                          PlannedIn(activations', active', e, t)
    BY <1>0, <2>1, PlannedTail DEF TypeOK
  <2> QED
    BY <1>1, <2>1, <2>2, TargetKept
<1>6. CASE ReturnVictim
  <2>1. Head(returns).dev \in Devices
    <3>1. returns # <<>> /\ Head(returns) \in Return
      BY <1>0, <1>6 DEF ReturnVictim, TypeOK
    <3> QED
      BY <3>1 DEF Return
  <2>2. PICK p : RequestClosest(Head(returns).dev, Head(returns).id,
                                Head(returns).tech, p)
    BY <1>6 DEF ReturnVictim
  <2>3. HasTarget(e) /\ active' = active
    BY <1>0, <1>1, <1>6 DEF ReturnVictim
  <2> QED
    BY <1>0, <2>1, <2>2, <2>3, RequestTarget
<1>7. CASE Tick
  <2>1. UNCHANGED <<netid, routes, lma, active>> /\ activations' = Pass(activations)
    BY <1>7 DEF Tick
  <2>2. \A t \in Tech : PlannedIn(activations, active, e, t) =>
                          PlannedIn(activations', active', e, t)
    BY <1>0, <2>1, PlannedPass DEF Core
  <2> QED
    BY <1>1, <2>1, <2>2, TargetKept
<1>8. CASE UNCHANGED vars
  BY <1>1, <1>8, TargetKept DEF vars
<1> QED
  BY <1>2, <1>3, <1>4, <1>5, <1>6, <1>7, <1>8 DEF Next

\* The identifier of a registered device and the technology its radio has or
\* is about to get name a chart, and the routers of that chart have a route for
\* it: also in the window in which the radio still switches, after forced
\* handovers, and after returns with arguments of long ago.
THEOREM TargetHasRoute == Spec => []RoutedAtTarget
<1>1. Init => Targets
  BY TypeInit DEF Init, Targets, OneRoute, RoutedAtTarget
<1>2. Targets /\ [Next]_vars => Targets'
  BY TargetsStep
<1>3. Targets => RoutedAtTarget
  BY DEF Targets
<1> QED
  BY <1>1, <1>2, <1>3, PTL DEF Spec

----------------------------------------------------------------------------
(* Who is moved by whom, and how many come in.                             *)

\* Redirect touches the route of its own device only.
LEMMA RedirectOthers ==
  ASSUME NEW L \in LmaTable, NEW d \in Devices, NEW path, NEW e \in Devices, e # d
  PROVE  Redirect(L, d, path)[e] = L[e]
BY DEF Redirect, LmaTable

\* Whose route a request changes: that of the asking device, and that of one
\* it outranks.
LEMMA RequestMoves ==
  ASSUME Core, NEW d \in Devices, NEW id, NEW tech, NEW new, NEW p,
         \/ RequestTech(d, id, tech, new, p)
         \/ RequestClosest(d, id, tech, p),
         NEW e \in Devices, lma'[e] # lma[e]
  PROVE  \/ e = d
         \/ RequestTech(d, id, tech, new, p) /\ Qos[e] < Qos[d]
<1>0. lma \in LmaTable
  BY DEF Core, LmaTable
<1>1. \A two, path : Grant(d, id, tech, two, path) => e = d
  BY <1>0, RedirectOthers DEF Grant, Abort
<1>2. CASE RequestClosest(d, id, tech, p)
  BY <1>1, <1>2 DEF RequestClosest, Refuse
<1>3. CASE RequestTech(d, id, tech, new, p)
  <2>1. CASE Refuse
    BY <2>1 DEF Refuse
  <2>2. CASE \E two, path : Grant(d, id, tech, two, path)
    BY <1>1, <2>2
  <2>3. CASE \E two \in Charts : \E k \in Weakest(subs[two]) : \E pv \in Places :
               /\ Outranks(d, subs[two][k])
               /\ Preempt(d, id, tech, two, subs[two][k], pv)
    <3>1. PICK two \in Charts : \E k \in Weakest(subs[two]) : \E pv \in Places :
               /\ Outranks(d, subs[two][k])
               /\ Preempt(d, id, tech, two, subs[two][k], pv)
      BY <2>3
    <3>2. PICK k \in Weakest(subs[two]), pv \in Places :
               /\ Outranks(d, subs[two][k])
               /\ Preempt(d, id, tech, two, subs[two][k], pv)
      BY <3>1
    <3>3. PICK v \in Devices : v = subs[two][k]
      BY DEF Core, Weakest
    <3>4. CASE Refuse \/ Abort
      BY <3>4 DEF Refuse, Abort
    <3>5. CASE \E alt \in Charts : lma' = Redirect(Redirect(lma, v, ChartPath[alt]), d, ChartPath[two])
      <4>1. PICK alt \in Charts :
              lma' = Redirect(Redirect(lma, v, ChartPath[alt]), d, ChartPath[two])
        BY <3>5
      <4>2. ChartPath[alt] \in LmaInterfaces
        BY ChartAssumption
      <4>3. Redirect(lma, v, ChartPath[alt]) \in LmaTable
        BY <1>0, <4>2, RedirectType DEF LmaTable
      <4>4. e = d \/ e = v
        BY <1>0, <4>1, <4>3, RedirectOthers
      <4> QED
        BY <1>3, <3>2, <3>3, <4>4 DEF Outranks
    <3> QED
      BY <3>2, <3>3, <3>4, <3>5, ClosestType DEF Preempt
  <2> QED
    BY <1>3, <2>1, <2>2, <2>3, ClosestType DEF RequestTech
<1> QED
  BY <1>2, <1>3

\* A device is moved by its own request, by the return NIHandover promised it,
\* or because a device of strictly higher QoS asked (RequestPSol, NIHandover).
THEOREM ForcedByStrongerOnly == Spec => OnlyStrongerForces
<1> DEFINE Moves ==
      \A v \in Devices : status = "running" /\ lma'[v] # lma[v] =>
        \/ wait[v] # wait'[v]
        \/ returns # <<>> /\ Head(returns).dev = v /\ returns' = Tail(returns)
        \/ \E d \in Devices : wait'[d] # wait[d] /\ Qos[d] > Qos[v]
<1>1. ASSUME TypeOK, [Next]_vars
      PROVE  Moves
  <2> SUFFICES ASSUME NEW v \in Devices, status = "running", lma'[v] # lma[v]
               PROVE  \/ wait[v] # wait'[v]
                      \/ returns # <<>> /\ Head(returns).dev = v /\ returns' = Tail(returns)
                      \/ \E d \in Devices : wait'[d] # wait[d] /\ Qos[d] > Qos[v]
    OBVIOUS
  <2>0. Core
    BY <1>1 DEF TypeOK, Core
  <2>1. ASSUME NEW d \in Devices, Evaluate(d)
        PROVE  wait[v] # wait'[v] \/ \E e \in Devices : wait'[e] # wait[e] /\ Qos[e] > Qos[v]
    <3>1. wait'[d] # wait[d]
      BY <1>1, <2>1, DelayAssumption DEF TypeOK, Evaluate, StartBackOff
    <3>2. PICK p, new : \/ RequestTech(d, netid[d], active[d], new, p)
                        \/ RequestClosest(d, netid[d], active[d], p)
      BY <2>1 DEF Evaluate
    <3>3. v = d \/ Qos[v] < Qos[d]
      BY <2>0, <3>2, RequestMoves
    <3>4. Qos[v] \in Nat /\ Qos[d] \in Nat
      BY DeviceAssumption
    <3> QED
      BY <3>1, <3>3, <3>4
  <2>2. CASE ReturnVictim
    <3>1. returns # <<>> /\ returns' = Tail(returns) /\ Head(returns) \in Return
      BY <1>1, <2>2 DEF ReturnVictim, TypeOK
    <3>2. PICK p : RequestClosest(Head(returns).dev, Head(returns).id, Head(returns).tech, p)
      BY <2>2 DEF ReturnVictim
    <3>3. ~(lma'[v] # lma[v] /\ Head(returns).dev # v)
      <4>1. Head(returns).dev \in Devices
        BY <3>1 DEF Return
      <4>2. lma \in LmaTable
        BY <2>0 DEF Core, LmaTable
      <4>3. \A two, path : Grant(Head(returns).dev, Head(returns).id, Head(returns).tech, two, path) =>
              v = Head(returns).dev
        BY <4>1, <4>2, RedirectOthers DEF Grant, Abort
      <4> QED
        BY <3>2, <4>3 DEF RequestClosest, Refuse
    <3> QED
      BY <3>1, <3>3
  <2>3. ~(\E d \in Devices : Register(d)) /\ ~Run /\ ~Activate /\ ~Tick /\ ~UNCHANGED vars
    BY DEF Register, Run, Activate, Tick, vars
  <2> QED
    BY <1>1, <2>1, <2>2, <2>3 DEF Next
<1>2. TypeOK /\ [Next]_vars => [Moves]_vars
  BY <1>1
<1>3. Spec => [][Moves]_vars
  <2> HIDE DEF Moves
  <2> QED
    BY <1>2, TypeCorrect, PTL DEF Spec
<1> QED
  BY <1>3 DEF OnlyStrongerForces

\* How many subscribers a handover adds to a chart.
LEMMA MoveSubLength ==
  ASSUME NEW S \in [Charts -> Seq(Devices)], NEW two \in Charts, NEW one \in Charts,
         NEW d \in Devices, NEW c \in Charts
  PROVE  Len(MoveSub(S, d, two, one)[c]) <= Len(S[c]) + (IF c = two THEN 1 ELSE 0)
<1> DEFINE A == RemoveSub(S, two, d)
           B == Subscribe(A, two, d)
<1>1. /\ A \in [Charts -> Seq(Devices)] /\ B \in [Charts -> Seq(Devices)]
  BY SubscribeType
<1>2. Len(A[c]) <= Len(S[c])
  BY RemoveFirstCounts DEF RemoveSub
<1>3. Len(B[c]) <= Len(A[c]) + (IF c = two THEN 1 ELSE 0)
  BY <1>1, AppendCounts DEF Subscribe
<1>4. Len(MoveSub(S, d, two, one)[c]) <= Len(B[c])
  <2>1. MoveSub(S, d, two, one)[c] = IF c = one THEN RemoveFirst(B[c], d) ELSE B[c]
    BY <1>1 DEF MoveSub, RemoveSub
  <2>2. B[c] \in Seq(Devices)
    BY <1>1
  <2>3. Len(RemoveFirst(B[c], d)) <= Len(B[c]) /\ Len(B[c]) \in Nat
    BY <2>2, RemoveFirstCounts
  <2> QED
    BY <2>1, <2>3
<1>5. /\ Len(MoveSub(S, d, two, one)[c]) \in Nat /\ Len(A[c]) \in Nat
      /\ Len(B[c]) \in Nat /\ Len(S[c]) \in Nat
  BY <1>1, MoveSubType
<1> HIDE DEF A, B
<1>6. CASE c = two
  BY <1>2, <1>3, <1>4, <1>5, <1>6
<1>7. CASE c # two
  BY <1>2, <1>3, <1>4, <1>5, <1>7
<1> QED
  BY <1>6, <1>7

\* Nobody outranks anybody, as in mihtest1.cc to mihtest6.cc, which leave the
\* QoS of their devices alone.
EqualQos == \A d, e \in Devices : Qos[d] = Qos[e]

\* min < device->GetQos () is false.
LEMMA NobodyOutranks ==
  ASSUME EqualQos, NEW d \in Devices, NEW v \in Devices
  PROVE  ~Outranks(d, v)
<1>1. Qos[d] = Qos[v] /\ Qos[d] \in Nat
  BY DeviceAssumption, EqualQos DEF EqualQos
<1> QED
  BY <1>1 DEF Outranks

\* Without preemption no chart of limited capacity grows beyond its capacity,
\* whoever asks and whoever leaves the choice to the network (RequestPSol).
THEOREM FullMeansFull == ASSUME EqualQos PROVE Spec => AdmissionControl
<1> DEFINE Room ==
      status = "running" =>
        \A c \in Charts : ChartTech[c] \in Limited /\ Len(subs'[c]) > Len(subs[c]) =>
          Len(subs'[c]) <= Capacity[ChartTech[c]]
<1>1. ASSUME TypeOK, [Next]_vars
      PROVE  Room
  <2> SUFFICES ASSUME status = "running", NEW c \in Charts, ChartTech[c] \in Limited,
                      Len(subs'[c]) > Len(subs[c])
               PROVE  Len(subs'[c]) <= Capacity[ChartTech[c]]
    OBVIOUS
  <2>1. subs \in [Charts -> Seq(Devices)] /\ TypeOK'
    BY <1>1, TypeStep DEF TypeOK
  <2>2. /\ Len(subs[c]) \in Nat /\ Len(subs'[c]) \in Nat /\ Capacity[ChartTech[c]] \in Nat
    BY <2>1, ChartAssumption DEF TypeOK
  <2>3. subs' # subs
    BY <2>2
  <2>4. ASSUME NEW d \in Devices, NEW id, NEW tech, NEW two \in Charts, NEW path,
               Grant(d, id, tech, two, path), HasRoom(two) \/ ChartTech[two] = 3
        PROVE  Len(subs'[c]) <= Capacity[ChartTech[c]]
    <3>1. PICK one \in Charts : subs' = MoveSub(subs, d, two, one)
      BY <2>3, <2>4 DEF Grant, Abort, FirstOf, Named
    <3>2. Len(subs'[c]) <= Len(subs[c]) + (IF c = two THEN 1 ELSE 0)
      BY <2>1, <3>1, MoveSubLength
    <3>3. c = two
      <4> SUFFICES ASSUME c # two PROVE FALSE
        OBVIOUS
      <4>1. Len(subs'[c]) <= Len(subs[c]) + 0
        BY <3>2
      <4> QED
        BY <2>2, <4>1
    <3>4. HasRoom(two)
      BY <2>4, <3>3 DEF Limited
    <3> QED
      BY <2>2, <3>2, <3>3, <3>4 DEF HasRoom
  <2>5. \A d \in Devices : \A id, tech, p :
          RequestClosest(d, id, tech, p) => Len(subs'[c]) <= Capacity[ChartTech[c]]
    <3> SUFFICES ASSUME NEW d \in Devices, NEW id, NEW tech, NEW p, RequestClosest(d, id, tech, p)
                 PROVE  Len(subs'[c]) <= Capacity[ChartTech[c]]
      OBVIOUS
    <3>1. \A lte \in FirstOf(OfTech(3, p)) : lte \in Charts /\ ChartTech[lte] = 3
      BY DEF FirstOf, OfTech
    <3>2. ~Refuse
      BY <2>3 DEF Refuse
    <3> QED
      BY <2>4, <3>1, <3>2, ClosestType DEF RequestClosest
  <2>6. ASSUME NEW d \in Devices, Evaluate(d)
        PROVE  Len(subs'[c]) <= Capacity[ChartTech[c]]
    <3>1. ASSUME NEW new, NEW p, RequestTech(d, netid[d], active[d], new, p)
          PROVE  Len(subs'[c]) <= Capacity[ChartTech[c]]
      <4>1. ~Refuse
        BY <2>3 DEF Refuse
      <4>2. \A two \in Charts : \A k \in Weakest(subs[two]) : ~Outranks(d, subs[two][k])
        <5> TAKE two \in Charts
        <5> TAKE k \in Weakest(subs[two])
        <5>1. PICK v \in Devices : v = subs[two][k]
          BY <2>1 DEF Weakest
        <5> QED
          BY <5>1, EqualQos, NobodyOutranks
      <4> QED
        BY <2>4, <3>1, <4>1, <4>2, ClosestType DEF RequestTech
    <3> QED
      BY <2>5, <2>6, <3>1 DEF Evaluate
  <2>7. CASE ReturnVictim
    <3>1. Head(returns) \in Return
      BY <1>1, <2>7 DEF ReturnVictim, TypeOK
    <3>2. Head(returns).dev \in Devices
      BY <3>1 DEF Return
    <3> QED
      BY <2>5, <2>7, <3>2 DEF ReturnVictim
  <2>8. ~(\E d \in Devices : Register(d)) /\ ~Run /\ ~Activate /\ ~Tick /\ ~UNCHANGED vars
    BY <2>3 DEF Register, Run, Activate, Tick, vars
  <2> QED
    BY <1>1, <2>6, <2>7, <2>8 DEF Next
<1>2. TypeOK /\ [Next]_vars => [Room]_vars
  BY <1>1
<1>3. Spec => [][Room]_vars
  <2> HIDE DEF Room
  <2> QED
    BY <1>2, TypeCorrect, PTL DEF Spec
<1> QED
  BY <1>3 DEF AdmissionControl

----------------------------------------------------------------------------
(* Devices that nobody forces.                                             *)

\* Every device chooses for itself and none outranks another, as in
\* mihtest1.cc to mihtest4.cc.
NoForcing == EqualQos /\ Dependent = {}

\* Identifier and technology name one chart, as in every scenario.
Distinguished ==
  \A c, o \in Charts : ChartId[c] = ChartId[o] /\ ChartTech[c] = ChartTech[o] => c = o

\* d is at chart c, or about to be, and lists, table and identifier agree.
AtChart(d, c) ==
  /\ ChartId[c] = netid[d]
  /\ PlannedIn(activations, active, d, ChartTech[c])
  /\ lma[d] = <<ChartPath[c]>>
  /\ Once(subs[c], d)
  /\ \A o \in Charts \ {c} : Absent(subs[o], d)

\* The same for a device that was not registered yet.
Unregistered(d) == lma[d] = <<>> /\ \A c \in Charts : Absent(subs[c], d)

(* The inductive invariant: every device is at one chart, for everybody who *)
(* knows of it, and a switch of its radio is due before its back-off ends.  *)
Calm ==
  /\ TypeOK
  /\ status # "aborted" /\ returns = <<>>
  /\ status = "setup" => activations = <<>>
  /\ status = "running" => \A d \in Devices : lma[d] # <<>>
  /\ \A d \in Devices : Unregistered(d) \/ \E c \in Charts : AtChart(d, c)
  /\ \A k \in DOMAIN activations : activations[k].left < wait[activations[k].dev]

\* The switches that are scheduled plan one technology.
LEMMA PlannedOnce ==
  ASSUME NEW q \in Seq(Activation), NEW act, NEW d, NEW t, NEW u,
         PlannedIn(q, act, d, t), PlannedIn(q, act, d, u)
  PROVE  t = u
<1>1. CASE \A k \in DOMAIN q : q[k].dev # d
  BY <1>1 DEF PlannedIn
<1>2. CASE \E k \in DOMAIN q : q[k].dev = d
  <2>1. PICK j \in DOMAIN q : /\ q[j].dev = d /\ q[j].tech = t
                              /\ \A i \in DOMAIN q : q[i].dev = d => i <= j
    BY <1>2 DEF PlannedIn
  <2>2. PICK k \in DOMAIN q : /\ q[k].dev = d /\ q[k].tech = u
                              /\ \A i \in DOMAIN q : q[i].dev = d => i <= k
    BY <1>2 DEF PlannedIn
  <2>3. j <= k /\ k <= j /\ j \in Nat /\ k \in Nat
    BY <2>1, <2>2
  <2> QED
    BY <2>1, <2>2, <2>3
<1> QED
  BY <1>1, <1>2

\* At names the chart.
LEMMA CalmAt ==
  ASSUME Distinguished, Calm, NEW d \in Devices, NEW c \in Charts, AtChart(d, c)
  PROVE  At(d) = {c}
<1>1. activations \in Seq(Activation)
  BY DEF Calm, TypeOK
<1>2. c \in At(d)
  BY PlannedMeans DEF AtChart, At
<1>3. ASSUME NEW o \in At(d) PROVE o = c
  <2>1. ChartTech[o] = ChartTech[c]
    BY <1>1, <1>3, PlannedMeans, PlannedOnce DEF AtChart, At
  <2> QED
    BY <1>3, <2>1, Distinguished DEF Distinguished, AtChart, At
<1> QED
  BY <1>2, <1>3 DEF At

\* A device that may ask has no switch of its radio pending.
LEMMA CalmSettles ==
  ASSUME Calm, NEW d \in Devices, wait[d] = 0
  PROVE  \A k \in DOMAIN activations : activations[k].dev # d
<1>1. \A k \in DOMAIN activations : activations[k].left \in Nat
  <2> TAKE k \in DOMAIN activations
  <2>1. activations[k] \in Activation
    BY DEF Calm, TypeOK
  <2> QED
    BY <2>1, DelayAssumption DEF Activation
<1> QED
  BY <1>1 DEF Calm

\* A device that nothing was done to stays where it is.
LEMMA CalmKept ==
  ASSUME NEW d \in Devices, Unregistered(d) \/ \E c \in Charts : AtChart(d, c),
         netid'[d] = netid[d], lma'[d] = lma[d],
         \A t \in Tech : PlannedIn(activations, active, d, t) =>
                           PlannedIn(activations', active', d, t),
         \A c \in Charts : /\ Once(subs[c], d) => Once(subs'[c], d)
                           /\ Absent(subs[c], d) => Absent(subs'[c], d)
  PROVE  Unregistered(d)' \/ \E c \in Charts : AtChart(d, c)'
<1>1. CASE Unregistered(d)
  <2>1. lma'[d] = <<>> /\ \A c \in Charts : Absent(subs'[c], d)
    BY <1>1 DEF Unregistered
  <2> QED
    BY <2>1 DEF Unregistered, Absent
<1>2. CASE \E c \in Charts : AtChart(d, c)
  <2>1. PICK c \in Charts : AtChart(d, c)
    BY <1>2
  <2>2. /\ ChartId[c] = netid'[d] /\ lma'[d] = <<ChartPath[c]>>
        /\ Once(subs'[c], d) /\ \A o \in Charts \ {c} : Absent(subs'[o], d)
    BY <2>1 DEF AtChart
  <2>3. PlannedIn(activations', active', d, ChartTech[c])
    BY <2>1, ChartAssumption DEF AtChart
  <2>4. AtChart(d, c)'
    BY <2>2, <2>3 DEF AtChart, PlannedIn, Once, Absent
  <2> QED
    BY <2>4
<1> QED
  BY <1>1, <1>2

\* What a handover between two charts does to the subscriber lists.
LEMMA MoveSubCounts ==
  ASSUME NEW S \in [Charts -> Seq(Devices)], NEW d \in Devices, NEW one \in Charts,
         NEW two \in Charts, one # two,
         Once(S[one], d), \A o \in Charts \ {one} : Absent(S[o], d)
  PROVE  /\ Once(MoveSub(S, d, two, one)[two], d)
         /\ \A o \in Charts \ {two} : Absent(MoveSub(S, d, two, one)[o], d)
         /\ \A e \in Devices \ {d} : \A o \in Charts :
              /\ Once(S[o], e) => Once(MoveSub(S, d, two, one)[o], e)
              /\ Absent(S[o], e) => Absent(MoveSub(S, d, two, one)[o], e)
<1>1. RemoveFirst(S[two], d) = S[two]
  BY RemoveFirstCounts
<1>2. PICK a \in Seq(Devices) : a = Append(S[two], d)
  <2>1. S[two] \in Seq(Devices)
    OBVIOUS
  <2>2. Append(S[two], d) \in Seq(Devices)
    BY <2>1
  <2> QED
    BY <2>2
<1>3. PICK r \in Seq(Devices) : r = RemoveFirst(S[one], d)
  BY RemoveFirstType
<1>4. MoveSub(S, d, two, one) = [S EXCEPT ![two] = a, ![one] = r]
  <2>1. RemoveSub(S, two, d) = S
    BY <1>1 DEF RemoveSub
  <2>2. Subscribe(S, two, d) = [S EXCEPT ![two] = a]
    BY <1>2 DEF Subscribe
  <2>3. RemoveSub([S EXCEPT ![two] = a], one, d) = [S EXCEPT ![two] = a, ![one] = r]
    BY <1>3 DEF RemoveSub
  <2> QED
    BY <2>1, <2>2, <2>3 DEF MoveSub
<1>5. PICK T : T = MoveSub(S, d, two, one)
  OBVIOUS
<1>6. T[two] = a /\ T[one] = r /\ \A o \in Charts \ {one, two} : T[o] = S[o]
  BY <1>4, <1>5
<1>7. /\ Once(a, d)
      /\ \A e : e # d /\ Once(S[two], e) => Once(a, e)
      /\ \A e : e # d /\ Absent(S[two], e) => Absent(a, e)
  <2>1. Absent(S[two], d)
    OBVIOUS
  <2> QED
    BY <1>2, <2>1, AppendCounts
<1>8. /\ Absent(r, d)
      /\ \A e : e # d /\ Once(S[one], e) => Once(r, e)
      /\ \A e : e # d /\ Absent(S[one], e) => Absent(r, e)
  BY <1>3, RemoveFirstCounts
<1> QED
  BY <1>5, <1>6, <1>7, <1>8

\* A device asks when its radio is settled: it is moved, with all that is known
\* of it, or left where it is.
LEMMA CalmGrant ==
  ASSUME Distinguished, Calm, status = "running", NEW d \in Devices, wait[d] = 0,
         NEW two \in Charts, ChartTech[two] # active[d],
         Grant(d, netid[d], active[d], two, ChartPath[two]),
         wait' = [wait EXCEPT ![d] = BackOff + 1], UNCHANGED <<active, returns>>
  PROVE  Calm'
<1>0. /\ TypeOK /\ activations \in Seq(Activation) /\ lma \in LmaTable
      /\ netid \in [Devices -> Nat] /\ subs \in [Charts -> Seq(Devices)]
      /\ wait \in [Devices -> 0..BackOff + 1]
  BY DEF Calm, TypeOK, LmaTable
<1>1. \A k \in DOMAIN activations : activations[k].dev # d
  BY CalmSettles
<1>2. PICK c \in Charts : AtChart(d, c)
  BY DEF Calm, Unregistered
<1>3. ChartTech[c] = active[d] /\ ChartId[c] = netid[d] /\ c # two
  BY <1>1, <1>2 DEF AtChart, PlannedIn
<1>4. Named(netid[d], active[d]) = {c}
  BY <1>3, Distinguished DEF Distinguished, Named
<1>5. ~LmaFault(d)
  <2>1. lma[d] = <<ChartPath[c]>> /\ ChartPath[c] \in LmaInterfaces
    BY <1>2, ChartAssumption DEF AtChart
  <2>2. \A k \in DOMAIN lma[d] : lma[d][k] = ChartPath[c]
    BY <2>1
  <2> QED
    BY <2>1, <2>2 DEF LmaFault
<1>6. /\ subs' = MoveSub(subs, d, two, c) /\ routes' = MoveRoute(routes, d, two)
      /\ lma' = Redirect(lma, d, ChartPath[two])
      /\ netid' = [netid EXCEPT ![d] = ChartId[two]]
      /\ activations' = Append(activations, Scheduled(d, two))
      /\ status' = status
  BY <1>4, <1>5 DEF Grant, FirstOf, UpdateNetId
<1>7. /\ Scheduled(d, two) \in Activation /\ Scheduled(d, two).dev = d
      /\ Scheduled(d, two).tech = ChartTech[two] /\ Scheduled(d, two).left = ActivateDelay
  BY ScheduledType DEF Scheduled
<1>8. TypeOK'
  <2>1. Core /\ ChartPath[two] \in LmaInterfaces \cup {Garbage}
    BY <1>0, ChartAssumption DEF TypeOK, Core
  <2>2. Core'
    BY <2>1, GrantType
  <2>3. wait' \in [Devices -> 0..BackOff + 1]
    <3>1. BackOff + 1 \in 0..BackOff + 1
      BY DelayAssumption
    <3> QED
      BY <1>0, <3>1
  <2> QED
    BY <1>0, <2>2, <2>3 DEF TypeOK, Core
<1>9. Once(subs[c], d) /\ \A o \in Charts \ {c} : Absent(subs[o], d)
  BY <1>2 DEF AtChart
<1>10. /\ Once(subs'[two], d)
       /\ \A o \in Charts \ {two} : Absent(subs'[o], d)
       /\ \A e \in Devices \ {d} : \A o \in Charts :
            /\ Once(subs[o], e) => Once(subs'[o], e)
            /\ Absent(subs[o], e) => Absent(subs'[o], e)
  BY <1>0, <1>3, <1>6, <1>9, MoveSubCounts
<1>11. lma'[d] = <<ChartPath[two]>> /\ \A e \in Devices \ {d} : lma'[e] = lma[e]
  <2>1. lma[d] = <<ChartPath[c]>>
    BY <1>2 DEF AtChart
  <2>2. lma[d] # <<>> /\ Front(lma[d]) = <<>>
    BY <2>1 DEF Front
  <2>3. Redirect(lma, d, ChartPath[two])[d] = Append(<<>>, ChartPath[two])
    BY <1>0, <2>2 DEF Redirect, LmaTable
  <2>4. lma'[d] = <<ChartPath[two]>>
    BY <1>6, <2>3
  <2> QED
    BY <1>0, <1>6, <2>4, RedirectOthers
<1>12. ASSUME NEW e \in Devices
       PROVE  Unregistered(e)' \/ \E o \in Charts : AtChart(e, o)'
  <2>1. CASE e = d
    <3>1. PlannedIn(activations', active', d, ChartTech[two])
      BY <1>0, <1>6, <1>7, PlannedAppend
    <3>2. ChartId[two] = netid'[d]
      BY <1>0, <1>6
    <3>3. AtChart(d, two)'
      BY <1>10, <1>11, <3>1, <3>2 DEF AtChart, PlannedIn, Once, Absent
    <3> QED
      BY <2>1, <3>3
  <2>2. CASE e # d
    <3>1. netid'[e] = netid[e] /\ lma'[e] = lma[e]
      BY <1>0, <1>6, <1>11, <2>2
    <3>2. \A t \in Tech : PlannedIn(activations, active, e, t) =>
                            PlannedIn(activations', active', e, t)
      BY <1>0, <1>6, <1>7, <2>2, PlannedAppend
    <3>3. Unregistered(e) \/ \E o \in Charts : AtChart(e, o)
      BY DEF Calm
    <3>4. \A o \in Charts : /\ Once(subs[o], e) => Once(subs'[o], e)
                            /\ Absent(subs[o], e) => Absent(subs'[o], e)
      BY <1>10, <2>2
    <3> QED
      BY <3>1, <3>2, <3>3, <3>4, CalmKept
  <2> QED
    BY <2>1, <2>2
<1>13. \A k \in DOMAIN activations' : activations'[k].left < wait'[activations'[k].dev]
  <2> TAKE k \in DOMAIN activations'
  <2>1. \/ k \in DOMAIN activations /\ activations'[k] = activations[k]
        \/ activations'[k] = Scheduled(d, two)
    BY <1>0, <1>6, <1>7, SMTT(30)
  <2>2. CASE k \in DOMAIN activations /\ activations'[k] = activations[k]
    <3>0. activations[k] \in Activation
      BY <1>0, <2>2
    <3>1. activations[k].dev # d /\ activations[k].dev \in Devices
      BY <1>1, <2>2, <3>0 DEF Activation
    <3> QED
      BY <1>0, <2>2, <3>1 DEF Calm
  <2>3. CASE activations'[k] = Scheduled(d, two)
    BY <1>0, <1>7, <2>3, DelayAssumption
  <2> QED
    BY <2>1, <2>2, <2>3
<1>14. \A e \in Devices : lma'[e] # <<>>
  BY <1>11 DEF Calm
<1> QED
  BY <1>6, <1>8, <1>12, <1>13, <1>14 DEF Calm

\* Before the simulation runs no device is anywhere.
LEMMA CalmInit == Init => Calm
<1> SUFFICES ASSUME Init PROVE Calm
  OBVIOUS
<1>1. TypeOK
  BY TypeInit
<1>2. \A d \in Devices : Unregistered(d)
  BY DEF Init, Unregistered, Absent
<1> QED
  BY <1>1, <1>2 DEF Init, Calm

\* SetNetId puts a device on one chart.
LEMMA CalmRegister ==
  ASSUME Calm, NEW d \in Devices, Register(d)
  PROVE  Calm'
<1>0. /\ subs \in [Charts -> Seq(Devices)] /\ lma \in LmaTable /\ status = "setup"
      /\ UNCHANGED <<status, netid, active, wait, activations, returns>>
      /\ lma[d] = <<>> /\ activations = <<>>
  BY DEF Calm, TypeOK, LmaTable, Register
<1>1. PICK two \in Named(netid[d], active[d]) :
        subs' = Subscribe(subs, two, d) /\ lma' = [lma EXCEPT ![d] = Append(@, ChartPath[two])]
  BY DEF Register, FirstOf
<1>2. two \in Charts /\ ChartId[two] = netid[d] /\ ChartTech[two] = active[d]
  BY DEF Named
<1>3. lma'[d] = <<ChartPath[two]>> /\ \A e \in Devices \ {d} : lma'[e] = lma[e]
  BY <1>0, <1>1 DEF LmaTable
<1>4. \A c \in Charts : Absent(subs[c], d)
  <2>1. \A c \in Charts : <<ChartPath[c]>> # <<>>
    OBVIOUS
  <2>2. \A c \in Charts : ~AtChart(d, c)
    BY <1>0, <2>1 DEF AtChart
  <2> QED
    BY <2>2 DEF Calm, Unregistered
<1>5. PICK a : a = Append(subs[two], d)
  OBVIOUS
<1>6. /\ Once(a, d)
      /\ \A e : e # d /\ Once(subs[two], e) => Once(a, e)
      /\ \A e : e # d /\ Absent(subs[two], e) => Absent(a, e)
  BY <1>0, <1>2, <1>4, <1>5, AppendCounts
<1>7. subs'[two] = a /\ \A o \in Charts \ {two} : subs'[o] = subs[o]
  BY <1>0, <1>1, <1>2, <1>5 DEF Subscribe
<1>8. ASSUME NEW e \in Devices
      PROVE  Unregistered(e)' \/ \E o \in Charts : AtChart(e, o)'
  <2>1. CASE e = d
    <3>1. PlannedIn(activations', active', d, ChartTech[two])
      BY <1>0, <1>2 DEF PlannedIn
    <3>2. Once(subs'[two], d) /\ \A o \in Charts \ {two} : Absent(subs'[o], d)
      BY <1>4, <1>6, <1>7
    <3>3. AtChart(d, two)'
      BY <1>0, <1>2, <1>3, <3>1, <3>2 DEF AtChart, PlannedIn, Once, Absent
    <3> QED
      BY <1>2, <2>1, <3>3
  <2>2. CASE e # d
    <3>1. \A o \in Charts : /\ Once(subs[o], e) => Once(subs'[o], e)
                            /\ Absent(subs[o], e) => Absent(subs'[o], e)
      BY <1>6, <1>7, <2>2
    <3>2. \A t \in Tech : PlannedIn(activations, active, e, t) =>
                            PlannedIn(activations', active', e, t)
      BY <1>0
    <3>3. Unregistered(e) \/ \E o \in Charts : AtChart(e, o)
      BY DEF Calm
    <3>4. netid'[e] = netid[e] /\ lma'[e] = lma[e]
      BY <1>0, <1>3, <2>2
    <3> QED
      BY <3>1, <3>2, <3>3, <3>4, CalmKept
  <2> QED
    BY <2>1, <2>2
<1>9. TypeOK'
  BY TypeStep DEF Calm, Next
<1> QED
  BY <1>0, <1>8, <1>9 DEF Calm

\* Nobody is forced, so every request is refused or granted as it stands.
LEMMA CalmEvaluate ==
  ASSUME NoForcing, Distinguished, Calm, NEW d \in Devices, Evaluate(d)
  PROVE  Calm'
<1>1. /\ status = "running" /\ wait[d] = 0 /\ wait' = [wait EXCEPT ![d] = BackOff + 1]
      /\ UNCHANGED active
  BY DEF Evaluate, StartBackOff
<1>2. PICK new \in Tech \ {active[d]}, p \in Places :
        RequestTech(d, netid[d], active[d], new, p)
  BY NoForcing DEF NoForcing, Evaluate
<1>3. TypeOK' /\ wait \in [Devices -> 0..BackOff + 1]
  BY TypeStep DEF Calm, Next, TypeOK
<1>4. CASE Refuse /\ UNCHANGED returns
  <2>1. /\ UNCHANGED <<status, subs, lma, netid, active, activations, returns>>
    BY <1>1, <1>4 DEF Refuse
  <2>2. \A e \in Devices : Unregistered(e)' \/ \E o \in Charts : AtChart(e, o)'
    BY <2>1, CalmKept DEF Calm
  <2>3. ASSUME NEW k \in DOMAIN activations
        PROVE  activations[k].left < wait'[activations[k].dev]
    <3>1. activations[k] \in Activation /\ activations[k].dev # d
      BY <1>1, CalmSettles DEF Calm, TypeOK
    <3>2. wait'[activations[k].dev] = wait[activations[k].dev]
      BY <1>1, <1>3, <3>1 DEF Activation
    <3> QED
      BY <3>2 DEF Calm
  <2> QED
    BY <1>3, <2>1, <2>2, <2>3 DEF Calm
<1>5. ASSUME NEW two \in FirstOf(OfTech(new, p)),
             Grant(d, netid[d], active[d], two, ChartPath[two]) /\ UNCHANGED returns
      PROVE  Calm'
  <2>1. two \in Charts /\ ChartTech[two] # active[d]
    BY DEF FirstOf, OfTech
  <2> QED
    BY <1>1, <1>5, <2>1, CalmGrant
<1>6. \A two \in FirstOf(OfTech(new, p)) : \A k \in Weakest(subs[two]) : ~Outranks(d, subs[two][k])
  <2> TAKE two \in FirstOf(OfTech(new, p))
  <2> TAKE k \in Weakest(subs[two])
  <2>1. PICK v \in Devices : v = subs[two][k]
    <3>1. two \in Charts /\ subs \in [Charts -> Seq(Devices)]
      BY ClosestType DEF Calm, TypeOK
    <3> QED
      BY <3>1 DEF Weakest
  <2> QED
    BY <2>1, NoForcing, NobodyOutranks DEF NoForcing
<1> QED
  BY <1>2, <1>4, <1>5, <1>6 DEF RequestTech

\* Every step keeps the calm.
LEMMA CalmStep ==
  ASSUME NoForcing, Distinguished, Calm, [Next]_vars
  PROVE  Calm'
<1>0. TypeOK /\ TypeOK'
  BY TypeStep DEF Calm
<1>a. /\ activations \in Seq(Activation) /\ active \in [Devices -> Tech]
      /\ wait \in [Devices -> 0..BackOff + 1]
  BY <1>0 DEF TypeOK
<1>1. ASSUME NEW d \in Devices, Register(d) PROVE Calm'
  BY <1>1, CalmRegister
<1>2. ASSUME NEW d \in Devices, Evaluate(d) PROVE Calm'
  BY <1>2, CalmEvaluate
<1>3. ASSUME UNCHANGED <<subs, lma, netid, returns>>,
             \A d \in Devices : \A t \in Tech : PlannedIn(activations, active, d, t) =>
                                  PlannedIn(activations', active', d, t)
      PROVE  \A d \in Devices : Unregistered(d)' \/ \E o \in Charts : AtChart(d, o)'
  BY <1>3, CalmKept DEF Calm
<1>4. CASE Run \/ UNCHANGED vars
  <2>1. /\ UNCHANGED <<subs, lma, netid, returns, activations, active, wait>>
        /\ status' = status \/ Run
    BY <1>4 DEF Run, vars
  <2>2. \A d \in Devices : Unregistered(d)' \/ \E o \in Charts : AtChart(d, o)'
    BY <1>3, <2>1
  <2> QED
    BY <1>0, <1>4, <2>1, <2>2 DEF Calm, Run
<1>5. CASE Activate
  <2>1. /\ activations # <<>> /\ activations' = Tail(activations)
        /\ active' = [active EXCEPT ![Head(activations).dev] = Head(activations).tech]
        /\ UNCHANGED <<status, subs, lma, netid, returns, wait>>
    BY <1>5 DEF Activate
  <2>2. \A d \in Devices : Unregistered(d)' \/ \E o \in Charts : AtChart(d, o)'
    BY <1>a, <1>3, <2>1, PlannedTail
  <2>3. \A k \in DOMAIN activations' : k + 1 \in DOMAIN activations /\ activations'[k] = activations[k + 1]
    BY <1>a, <2>1
  <2>4. \A k \in DOMAIN activations' : activations'[k].left < wait'[activations'[k].dev]
    BY <2>1, <2>3 DEF Calm
  <2>5. status = "running"
    BY <1>5 DEF Activate
  <2> QED
    BY <1>0, <2>1, <2>2, <2>4, <2>5 DEF Calm
<1>6. ~ReturnVictim
  BY DEF Calm, ReturnVictim
<1>7. CASE Tick
  <2>1. /\ status = "running" /\ activations' = Pass(activations) /\ returns' = Pass(returns)
        /\ \A k \in DOMAIN activations : activations[k].left > 0
        /\ wait' = [d \in Devices |-> IF wait[d] = 0 THEN 0 ELSE wait[d] - 1]
        /\ UNCHANGED <<status, subs, lma, netid, active>>
    BY <1>7 DEF Tick, NothingDue
  <2>2. returns' = <<>> /\ returns = <<>>
    <3>1. returns = <<>> /\ DOMAIN returns = {}
      BY DEF Calm
    <3>2. Pass(returns) = [k \in {} |-> [returns[k] EXCEPT !.left = @ - 1]]
      BY <3>1 DEF Pass
    <3>3. Pass(returns) = <<>>
      BY <3>2
    <3> QED
      BY <2>1, <3>1, <3>3
  <2>3. \A d \in Devices : \A t \in Tech : PlannedIn(activations, active, d, t) =>
                                  PlannedIn(activations', active', d, t)
    BY <1>a, <2>1, PlannedPass
  <2>4. \A d \in Devices : Unregistered(d)' \/ \E o \in Charts : AtChart(d, o)'
    BY <1>3, <2>1, <2>2, <2>3
  <2>5. ASSUME NEW k \in DOMAIN activations'
        PROVE  activations'[k].left < wait'[activations'[k].dev]
    <3>1. k \in DOMAIN activations /\ activations'[k] = [activations[k] EXCEPT !.left = activations[k].left - 1]
      BY <2>1 DEF Pass
    <3>2. activations[k] \in Activation
      BY <1>a, <3>1
    <3>3. /\ activations'[k].left = activations[k].left - 1
          /\ activations'[k].dev = activations[k].dev /\ activations[k].dev \in Devices
      BY <3>1, <3>2 DEF Activation
    <3>4. activations[k].left < wait[activations[k].dev] /\ activations[k].left > 0
      BY <2>1, <3>1 DEF Calm
    <3>5. activations[k].left \in Nat
      BY <3>2, DelayAssumption DEF Activation
    <3> QED
      BY <1>a, <2>1, <3>3, <3>4, <3>5, DelayAssumption
  <2> QED
    BY <1>0, <2>1, <2>2, <2>4, <2>5 DEF Calm
<1> QED
  BY <1>1, <1>2, <1>4, <1>5, <1>6, <1>7 DEF Next

LEMMA CalmHolds == ASSUME NoForcing, Distinguished PROVE Spec => []Calm
<1>1. Calm /\ [Next]_vars => Calm'
  BY CalmStep
<1> QED
  BY <1>1, CalmInit, PTL DEF Spec

\* A device that may ask again has no radio switch pending, so that the
\* identifier and the technology it names as its old network belong together
\* (eval () and Activate of MihNetDevice).
THEOREM AsksWhenSettled == ASSUME NoForcing, Distinguished PROVE Spec => []Settled
<1>1. Calm => Settled
  BY CalmSettles DEF Settled
<1> QED
  BY <1>1, CalmHolds, PTL

\* The subscribers of a chart are connected to it, or are about to be
\* (m_subs of NetChart).
THEOREM SubscribersAreConnected ==
  ASSUME NoForcing, Distinguished PROVE Spec => []SubscribersConnected
<1>1. ASSUME Calm PROVE SubscribersConnected
  <2> SUFFICES ASSUME NEW c \in Charts, NEW k \in DOMAIN subs[c] PROVE c \in At(subs[c][k])
    BY DEF SubscribersConnected
  <2>1. PICK d \in Devices : d = subs[c][k]
    BY <1>1 DEF Calm, TypeOK
  <2>2. ~Absent(subs[c], d)
    BY <2>1 DEF Absent
  <2>3. AtChart(d, c)
    BY <1>1, <2>2 DEF Calm, Unregistered, AtChart
  <2> QED
    BY <1>1, <2>1, <2>3, CalmAt
<1> QED
  BY <1>1, CalmHolds, PTL

\* A device is on the list of the chart it is at exactly once: the length that
\* RequestPSol compares with the capacity is the number of devices there.
THEOREM EveryoneCountsOnce ==
  ASSUME NoForcing, Distinguished PROVE Spec => []CountedOnce
<1>1. ASSUME Calm PROVE CountedOnce
  <2> SUFFICES ASSUME NEW d \in Devices, NEW c \in At(d), lma[d] # <<>>
               PROVE  Once(subs[c], d)
    BY DEF CountedOnce, Once
  <2>1. PICK o \in Charts : AtChart(d, o)
    BY <1>1 DEF Calm, Unregistered
  <2>2. c = o
    BY <1>1, <2>1, CalmAt
  <2> QED
    BY <2>1, <2>2 DEF AtChart
<1> QED
  BY <1>1, CalmHolds, PTL

\* The LMA sends the traffic of a device towards the chart it is at (m_paths).
THEOREM AnchorFollowsDevice ==
  ASSUME NoForcing, Distinguished PROVE Spec => []AnchorFollows
<1>1. ASSUME Calm PROVE AnchorFollows
  <2> SUFFICES ASSUME NEW d \in Devices, NEW c \in At(d), status = "running"
               PROVE  lma[d] = <<ChartPath[c]>>
    BY DEF AnchorFollows
  <2>1. PICK o \in Charts : AtChart(d, o)
    BY <1>1 DEF Calm, Unregistered
  <2>2. c = o
    BY <1>1, <2>1, CalmAt
  <2> QED
    BY <2>1, <2>2 DEF AtChart
<1> QED
  BY <1>1, CalmHolds, PTL

\* No request ends in a null chart or a null interface (RequestPSol,
\* RemoveStaticRoute).
THEOREM NeverAborts == ASSUME NoForcing, Distinguished PROVE Spec => []NoAbort
<1>1. Calm => NoAbort
  BY DEF Calm, NoAbort
<1> QED
  BY <1>1, CalmHolds, PTL

----------------------------------------------------------------------------
(* Each device on its own.                                                 *)

\* OwnSwitches, of any list of scheduled switches.
OwnIn(q, d) ==
  LET K == {k \in DOMAIN q : q[k].dev = d}
  IN  [n \in 1..Cardinality(K) |->
         LET a == q[CHOOSE k \in K : Cardinality({j \in K : j <= k}) = n]
         IN  [tech |-> a.tech, left |-> a.left]]

\* A scheduled switch as its device sees it.
Seen(a) == [tech |-> a.tech, left |-> a.left]

\* A device without a scheduled switch.
LEMMA OwnNone ==
  ASSUME NEW q \in Seq(Activation), NEW d, \A k \in DOMAIN q : q[k].dev # d
  PROVE  OwnIn(q, d) = <<>>
<1>1. {k \in DOMAIN q : q[k].dev = d} = {}
  OBVIOUS
<1>2. OwnIn(q, d) = [n \in 1..Cardinality({}) |->
         LET a == q[CHOOSE k \in {} : Cardinality({j \in {} : j <= k}) = n]
         IN  [tech |-> a.tech, left |-> a.left]]
  BY <1>1 DEF OwnIn
<1>3. 1..Cardinality({}) = {}
  BY FS_EmptySet
<1> QED
  BY <1>2, <1>3

\* A device with one.
LEMMA OwnOne ==
  ASSUME NEW q \in Seq(Activation), NEW d, NEW k \in DOMAIN q,
         \A j \in DOMAIN q : q[j].dev = d <=> j = k
  PROVE  OwnIn(q, d) = <<Seen(q[k])>>
<1>0. k \in Nat
  OBVIOUS
<1>1. {i \in DOMAIN q : q[i].dev = d} = {k}
  OBVIOUS
<1>2. Cardinality({k}) = 1
  BY FS_Singleton
<1> DEFINE at == CHOOSE i \in {k} : Cardinality({j \in {k} : j <= i}) = 1
<1>3. {j \in {k} : j <= k} = {k}
  BY <1>0
<1>4. at = k
  BY <1>2, <1>3
<1> DEFINE f(n) == LET a == q[CHOOSE i \in {k} : Cardinality({j \in {k} : j <= i}) = n]
                   IN  [tech |-> a.tech, left |-> a.left]
<1>5. OwnIn(q, d) = [n \in 1..Cardinality({k}) |-> f(n)]
  BY <1>1 DEF OwnIn
<1>6. f(1) = Seen(q[k])
  BY <1>4 DEF Seen
<1>7. \A n \in 1..1 : f(n) = Seen(q[k])
  BY <1>6
<1> HIDE DEF f
<1>8. PICK x : x = Seen(q[k])
  OBVIOUS
<1>9. OwnIn(q, d) = [n \in 1..1 |-> x]
  BY <1>2, <1>5, <1>7, <1>8
<1>10. [n \in 1..1 |-> x] = <<x>>
  OBVIOUS
<1> QED
  BY <1>8, <1>9, <1>10

\* No device has two scheduled switches.
Alone == \A j, k \in DOMAIN activations : activations[j].dev = activations[k].dev => j = k

\* What a device sees of two lists in which it has the same switch.
LEMMA OwnSame ==
  ASSUME NEW q \in Seq(Activation), NEW r \in Seq(Activation), NEW d,
         \/ /\ \A k \in DOMAIN q : q[k].dev # d
            /\ \A k \in DOMAIN r : r[k].dev # d
         \/ \E k \in DOMAIN q, i \in DOMAIN r :
              /\ \A j \in DOMAIN q : q[j].dev = d <=> j = k
              /\ \A j \in DOMAIN r : r[j].dev = d <=> j = i
              /\ q[k] = r[i]
  PROVE  OwnIn(q, d) = OwnIn(r, d)
<1>1. CASE /\ \A k \in DOMAIN q : q[k].dev # d
           /\ \A k \in DOMAIN r : r[k].dev # d
  BY <1>1, OwnNone
<1>2. CASE \E k \in DOMAIN q, i \in DOMAIN r :
             /\ \A j \in DOMAIN q : q[j].dev = d <=> j = k
             /\ \A j \in DOMAIN r : r[j].dev = d <=> j = i
             /\ q[k] = r[i]
  <2>1. PICK k \in DOMAIN q, i \in DOMAIN r :
             /\ \A j \in DOMAIN q : q[j].dev = d <=> j = k
             /\ \A j \in DOMAIN r : r[j].dev = d <=> j = i
             /\ q[k] = r[i]
    BY <1>2
  <2>2. OwnIn(q, d) = <<Seen(q[k])>>
    BY <2>1, OwnOne
  <2>3. OwnIn(r, d) = <<Seen(r[i])>>
    BY <2>1, OwnOne
  <2> QED
    BY <2>1, <2>2, <2>3
<1> QED
  BY <1>1, <1>2

\* A device sees no switch, or one.
LEMMA OwnCases ==
  ASSUME Alone, activations \in Seq(Activation), NEW d \in Devices
  PROVE  \/ \A k \in DOMAIN activations : activations[k].dev # d
         \/ \E k \in DOMAIN activations :
              \A j \in DOMAIN activations : activations[j].dev = d <=> j = k
BY DEF Alone

\* The answer to a request of a device that nobody forces.
LEMMA CalmAnswer ==
  ASSUME NoForcing, Distinguished, Calm, NEW d \in Devices, Evaluate(d)
  PROVE  \/ UNCHANGED activations
         \/ \E two \in Charts : /\ ChartTech[two] # active[d]
                                /\ activations' = Append(activations, Scheduled(d, two))
<1>1. PICK new \in Tech \ {active[d]}, p \in Places :
        RequestTech(d, netid[d], active[d], new, p)
  BY NoForcing DEF NoForcing, Evaluate
<1>2. CASE Refuse
  BY <1>2 DEF Refuse
<1>3. ASSUME NEW two \in FirstOf(OfTech(new, p)),
             Grant(d, netid[d], active[d], two, ChartPath[two])
      PROVE  \/ UNCHANGED activations
             \/ /\ ChartTech[two] # active[d] /\ two \in Charts
                /\ activations' = Append(activations, Scheduled(d, two))
  <2>1. two \in Charts /\ ChartTech[two] # active[d]
    BY DEF FirstOf, OfTech
  <2> QED
    BY <1>3, <2>1 DEF Grant, Abort
<1>4. \A two \in FirstOf(OfTech(new, p)) : \A k \in Weakest(subs[two]) : ~Outranks(d, subs[two][k])
  <2> TAKE two \in FirstOf(OfTech(new, p))
  <2> TAKE k \in Weakest(subs[two])
  <2>1. PICK v \in Devices : v = subs[two][k]
    <3>1. two \in Charts /\ subs \in [Charts -> Seq(Devices)]
      BY ClosestType DEF Calm, TypeOK
    <3> QED
      BY <3>1 DEF Weakest
  <2> QED
    BY <2>1, NoForcing, NobodyOutranks DEF NoForcing
<1> QED
  BY <1>1, <1>2, <1>3, <1>4 DEF RequestTech

\* The passing of time, switch by switch.
LEMMA PassFields ==
  ASSUME NEW q \in Seq(Activation)
  PROVE  /\ DOMAIN Pass(q) = DOMAIN q
         /\ \A k \in DOMAIN q : /\ Pass(q)[k].dev = q[k].dev
                                /\ Pass(q)[k].tech = q[k].tech
                                /\ Pass(q)[k].left = q[k].left - 1
<1> SUFFICES ASSUME NEW k \in DOMAIN q
             PROVE  /\ Pass(q)[k].dev = q[k].dev /\ Pass(q)[k].tech = q[k].tech
                    /\ Pass(q)[k].left = q[k].left - 1
  BY DEF Pass
<1>1. q[k] \in Activation
  OBVIOUS
<1>2. Pass(q)[k] = [q[k] EXCEPT !.left = q[k].left - 1]
  BY DEF Pass
<1> QED
  BY <1>1, <1>2 DEF Activation

\* No step schedules a second switch for a device.
LEMMA AloneStep ==
  ASSUME NoForcing, Distinguished, Calm, Alone, [Next]_vars
  PROVE  Alone'
<1>0. activations \in Seq(Activation)
  BY DEF Calm, TypeOK
<1>1. CASE UNCHANGED activations
  BY <1>1 DEF Alone
<1>2. ASSUME NEW d \in Devices, Evaluate(d) PROVE Alone'
  <2>1. \A k \in DOMAIN activations : activations[k].dev # d
    BY <1>2, CalmSettles DEF Evaluate
  <2>2. CASE \E two \in Charts : activations' = Append(activations, Scheduled(d, two))
    <3>1. PICK a \in Activation : a.dev = d /\ activations' = Append(activations, a)
      BY <2>2, ScheduledType DEF Scheduled
    <3>2. \A k \in DOMAIN activations' : \/ k \in DOMAIN activations /\ activations'[k] = activations[k]
                                         \/ k = Len(activations) + 1 /\ activations'[k] = a
      BY <1>0, <3>1
    <3> QED
      BY <2>1, <3>1, <3>2 DEF Alone
  <2> QED
    BY <1>1, <1>2, <2>2, CalmAnswer
<1>3. CASE Activate
  <2>1. activations # <<>> /\ activations' = Tail(activations)
    BY <1>3 DEF Activate
  <2>2. \A k \in DOMAIN activations' :
          k \in Nat /\ k + 1 \in DOMAIN activations /\ activations'[k] = activations[k + 1]
    BY <1>0, <2>1
  <2>3. ASSUME NEW j \in DOMAIN activations', NEW k \in DOMAIN activations',
               activations'[j].dev = activations'[k].dev
        PROVE  j = k
    <3>1. j + 1 = k + 1
      BY <2>2, <2>3 DEF Alone
    <3> QED
      BY <2>2, <3>1
  <2> QED
    BY <2>3 DEF Alone
<1>4. CASE Tick
  BY <1>0, <1>4, PassFields DEF Tick, Alone
<1>5. ~ReturnVictim
  BY DEF Calm, ReturnVictim
<1> QED
  BY <1>1, <1>2, <1>3, <1>4, <1>5 DEF Next, Register, Run, vars

\* At the start a device is a HandoverRequests.
LEMMA RequestsStart ==
  ASSUME Init, NEW d \in Devices
  PROVE  Requests(d)!Init
<1>1. OwnSwitches(d) = <<>>
  <2>1. activations \in Seq(Activation) /\ \A k \in DOMAIN activations : activations[k].dev # d
    BY DEF Init
  <2>2. OwnIn(activations, d) = <<>>
    BY <2>1, OwnNone
  <2> QED
    BY <2>2 DEF OwnSwitches, OwnIn
<1>2. active[d] \in Tech /\ wait[d] = 0
  BY TypeInit DEF Init, TypeOK
<1>3. (d \in Dependent) \in BOOLEAN
  OBVIOUS
<1> QED
  BY <1>1, <1>2, <1>3 DEF Requests!Init

\* Every step is a step of the requests of d, or does not show in them.
LEMMA RequestsGoOn ==
  ASSUME NoForcing, Distinguished, Calm, Alone, Next, NEW d \in Devices
  PROVE  [Requests(d)!Next]_(Requests(d)!requestVars)
<1> DEFINE own == OwnIn(activations, d)
           next == OwnIn(activations', d)
<1>0. /\ activations \in Seq(Activation) /\ activations' \in Seq(Activation)
      /\ wait \in [Devices -> 0..BackOff + 1] /\ active \in [Devices -> Tech]
  BY TypeStep DEF Calm, TypeOK
<1>1. OwnSwitches(d) = own /\ OwnSwitches(d)' = next
  BY DEF OwnSwitches, OwnIn
<1>2. \/ \A k \in DOMAIN activations : activations[k].dev # d
      \/ \E k \in DOMAIN activations :
           \A j \in DOMAIN activations : activations[j].dev = d <=> j = k
  BY <1>0, OwnCases
<1>3. ASSUME wait'[d] = wait[d], active'[d] = active[d], next = own
      PROVE  UNCHANGED Requests(d)!requestVars
  BY <1>1, <1>3 DEF Requests!requestVars
<1> HIDE DEF own, next
<1>4. CASE UNCHANGED <<activations, wait, active>>
  BY <1>3, <1>4 DEF own, next
<1>5. ASSUME NEW e \in Devices, Evaluate(e), e # d
      PROVE  UNCHANGED Requests(d)!requestVars
  <2>1. wait'[d] = wait[d] /\ active'[d] = active[d]
    BY <1>0, <1>5 DEF Evaluate, StartBackOff
  <2>2. CASE UNCHANGED activations
    BY <1>3, <2>1, <2>2 DEF own, next
  <2>3. CASE \E two \in Charts : activations' = Append(activations, Scheduled(e, two))
    <3>1. PICK a \in Activation : a.dev = e /\ activations' = Append(activations, a)
      BY <2>3, <1>5, ScheduledType DEF Scheduled
    <3>2. /\ \A k \in DOMAIN activations' : \/ k \in DOMAIN activations
                                            \/ activations'[k] = a
          /\ \A k \in DOMAIN activations : k \in DOMAIN activations' /\ activations'[k] = activations[k]
      BY <1>0, <3>1
    <3>3. next = own
      <4>1. CASE \A k \in DOMAIN activations : activations[k].dev # d
        <5>1. \A k \in DOMAIN activations' : activations'[k].dev # d
          BY <1>5, <3>1, <3>2, <4>1
        <5> QED
          BY <1>0, <4>1, <5>1, OwnSame DEF own, next
      <4>2. CASE \E k \in DOMAIN activations :
                   \A j \in DOMAIN activations : activations[j].dev = d <=> j = k
        <5>1. PICK k \in DOMAIN activations :
                   \A j \in DOMAIN activations : activations[j].dev = d <=> j = k
          BY <4>2
        <5>2. k \in DOMAIN activations' /\ activations'[k] = activations[k]
          BY <3>2
        <5>3. \A j \in DOMAIN activations' : activations'[j].dev = d <=> j = k
          BY <1>5, <3>1, <3>2, <5>1, <5>2
        <5> QED
          BY <1>0, <5>1, <5>2, <5>3, OwnSame DEF own, next
      <4> QED
        BY <1>2, <4>1, <4>2
    <3> QED
      BY <1>3, <2>1, <3>3
  <2> QED
    BY <1>5, <2>2, <2>3, CalmAnswer
<1>6. CASE Evaluate(d)
  <2>1. /\ wait[d] = 0 /\ wait'[d] = BackOff + 1 /\ active' = active
    BY <1>0, <1>6 DEF Evaluate, StartBackOff
  <2>2. \A k \in DOMAIN activations : activations[k].dev # d
    BY <2>1, CalmSettles
  <2>3. own = <<>>
    BY <1>0, <2>2, OwnNone DEF own
  <2>4. CASE UNCHANGED activations
    <3>1. next = own
      BY <2>4 DEF own, next
    <3>2. Requests(d)!Ask
      BY <1>1, <2>1, <3>1 DEF Requests!Ask
    <3> QED
      BY <3>2 DEF Requests!Next
  <2>5. CASE \E two \in Charts : /\ ChartTech[two] # active[d]
                                 /\ activations' = Append(activations, Scheduled(d, two))
    <3>1. PICK two \in Charts : /\ ChartTech[two] # active[d]
                                /\ activations' = Append(activations, Scheduled(d, two))
      BY <2>5
    <3>2. PICK a \in Activation : a = Scheduled(d, two)
      BY <3>1, ScheduledType
    <3>3. a.dev = d /\ Seen(a) = [tech |-> ChartTech[two], left |-> ActivateDelay]
      BY <3>2 DEF Scheduled, Seen
    <3>4. PICK n \in DOMAIN activations' :
            /\ activations'[n] = a
            /\ \A j \in DOMAIN activations' : \/ j = n
                                              \/ j \in DOMAIN activations /\ activations'[j] = activations[j]
      <4>1. Len(activations) + 1 \in DOMAIN activations' /\ activations'[Len(activations) + 1] = a
        BY <1>0, <3>1, <3>2
      <4>2. \A j \in DOMAIN activations' : \/ j = Len(activations) + 1
                                           \/ j \in DOMAIN activations /\ activations'[j] = activations[j]
        BY <1>0, <3>1, <3>2
      <4> QED
        BY <4>1, <4>2
    <3>5. \A j \in DOMAIN activations' : activations'[j].dev = d <=> j = n
      BY <2>2, <3>3, <3>4
    <3>6. next = <<Seen(a)>>
      BY <1>0, <3>4, <3>5, OwnOne DEF next
    <3>7. next = Append(own, [tech |-> ChartTech[two], left |-> ActivateDelay])
      BY <2>3, <3>3, <3>6
    <3>8. ChartTech[two] \in Requests(d)!Answers
      BY <3>1, ChartAssumption, NoForcing DEF NoForcing, Requests!Answers
    <3>9. Requests(d)!Ask
      BY <1>1, <2>1, <3>7, <3>8 DEF Requests!Ask
    <3> QED
      BY <3>9 DEF Requests!Next
  <2> QED
    BY <1>6, <2>4, <2>5, CalmAnswer
<1>7. CASE Activate
  <2>0. PICK a \in Activation : a = Head(activations)
    BY <1>0, <1>7 DEF Activate
  <2>1. /\ activations # <<>> /\ activations' = Tail(activations) /\ a.left = 0
        /\ a = activations[1] /\ 1 \in DOMAIN activations
        /\ active' = [active EXCEPT ![a.dev] = a.tech] /\ wait' = wait
    BY <1>0, <1>7, <2>0 DEF Activate
  <2>2. /\ \A k \in DOMAIN activations' : /\ k \in Nat /\ k + 1 \in DOMAIN activations /\ k + 1 # 1
                                          /\ activations'[k] = activations[k + 1]
    BY <1>0, <2>1
  <2>3. CASE a.dev = d
    <3>1. \A j \in DOMAIN activations : activations[j].dev = d <=> j = 1
      BY <2>1, <2>3 DEF Alone
    <3>2. own = <<Seen(a)>>
      BY <1>0, <2>1, <3>1, OwnOne, SMTT(30) DEF own
    <3>3. \A k \in DOMAIN activations' : activations'[k].dev # d
      BY <2>2, <3>1
    <3>4. next = <<>>
      BY <1>0, <3>3, OwnNone DEF next
    <3>5. active'[d] = Seen(a).tech /\ Seen(a).left = 0
      BY <1>0, <2>1, <2>3 DEF Seen, Activation
    <3>6. own # <<>> /\ Head(own) = Seen(a) /\ Tail(own) = <<>>
      BY <3>2
    <3>7. Requests(d)!Switch
      BY <1>1, <2>1, <3>4, <3>5, <3>6 DEF Requests!Switch
    <3> QED
      BY <3>7 DEF Requests!Next
  <2>4. CASE a.dev # d
    <3>1. active'[d] = active[d]
      BY <1>0, <2>1, <2>4
    <3>2. next = own
      <4>1. CASE \A k \in DOMAIN activations : activations[k].dev # d
        <5>1. \A k \in DOMAIN activations' : activations'[k].dev # d
          BY <2>2, <4>1
        <5> QED
          BY <1>0, <4>1, <5>1, OwnSame DEF own, next
      <4>2. CASE \E k \in DOMAIN activations :
                   \A j \in DOMAIN activations : activations[j].dev = d <=> j = k
        <5>1. PICK k \in DOMAIN activations :
                   \A j \in DOMAIN activations : activations[j].dev = d <=> j = k
          BY <4>2
        <5>2. k # 1
          BY <2>1, <2>4, <5>1
        <5>3. k - 1 \in DOMAIN activations' /\ activations'[k - 1] = activations[k]
          BY <1>0, <2>1, <5>2
        <5>4. \A j \in DOMAIN activations' : activations'[j].dev = d <=> j = k - 1
          <6> TAKE j \in DOMAIN activations'
          <6>1. activations'[j].dev = d <=> j + 1 = k
            BY <2>2, <5>1
          <6> QED
            BY <1>0, <2>2, <6>1
        <5> QED
          BY <1>0, <5>1, <5>3, <5>4, OwnSame DEF own, next
      <4> QED
        BY <1>2, <4>1, <4>2
    <3> QED
      BY <1>3, <2>1, <3>1, <3>2
  <2> QED
    BY <2>3, <2>4
<1>8. CASE Tick
  <2>1. /\ activations' = Pass(activations) /\ active' = active
        /\ \A k \in DOMAIN activations : activations[k].left > 0
        /\ wait'[d] = IF wait[d] = 0 THEN 0 ELSE wait[d] - 1
    BY <1>8 DEF Tick, NothingDue
  <2>2. CASE \A k \in DOMAIN activations : activations[k].dev # d
    <3>1. \A k \in DOMAIN activations' : activations'[k].dev # d
      BY <1>0, <2>1, <2>2, PassFields
    <3>2. own = <<>> /\ next = <<>>
      BY <1>0, <2>2, <3>1, OwnNone DEF own, next
    <3>3. Requests(d)!NothingDue
      BY <1>1, <3>2 DEF Requests!NothingDue
    <3>4. next = [k \in DOMAIN own |-> [own[k] EXCEPT !.left = @ - 1]]
      <4>1. DOMAIN own = {}
        BY <3>2
      <4> QED
        BY <3>2, <4>1
    <3>5. Requests(d)!Tick
      BY <1>1, <2>1, <3>3, <3>4 DEF Requests!Tick
    <3> QED
      BY <3>5 DEF Requests!Next
  <2>3. CASE \E k \in DOMAIN activations :
               \A j \in DOMAIN activations : activations[j].dev = d <=> j = k
    <3>1. PICK k \in DOMAIN activations :
                 \A j \in DOMAIN activations : activations[j].dev = d <=> j = k
      BY <2>3
    <3>2. k \in DOMAIN activations' /\ \A j \in DOMAIN activations' : activations'[j].dev = d <=> j = k
      BY <1>0, <2>1, <3>1, PassFields
    <3>3. own = <<Seen(activations[k])>> /\ next = <<Seen(activations'[k])>>
      BY <1>0, <3>1, <3>2, OwnOne DEF own, next
    <3>4. PICK t, l : t = activations[k].tech /\ l = activations[k].left
      OBVIOUS
    <3>5. Seen(activations[k]) = [tech |-> t, left |-> l] /\ Seen(activations'[k]) = [tech |-> t, left |-> l - 1]
      BY <1>0, <2>1, <3>1, <3>4, PassFields DEF Seen
    <3>6. l > 0
      BY <2>1, <3>1, <3>4
    <3>7. DOMAIN own = {1} /\ own[1] = [tech |-> t, left |-> l]
      BY <3>3, <3>5
    <3>8. Requests(d)!NothingDue
      BY <1>1, <3>6, <3>7 DEF Requests!NothingDue
    <3>9. next = [i \in DOMAIN own |-> [own[i] EXCEPT !.left = @ - 1]]
      <4>1. next = <<[tech |-> t, left |-> l - 1]>>
        BY <3>3, <3>5
      <4>2. [own[1] EXCEPT !.left = own[1].left - 1] = [tech |-> t, left |-> l - 1]
        BY <3>7
      <4>3. [i \in DOMAIN own |-> [own[i] EXCEPT !.left = @ - 1]] = [i \in {1} |-> [tech |-> t, left |-> l - 1]]
        BY <3>7, <4>2
      <4>4. {1} = 1..1
        OBVIOUS
      <4> QED
        BY <4>1, <4>3, <4>4
    <3>10. Requests(d)!Tick
      BY <1>1, <2>1, <3>8, <3>9 DEF Requests!Tick
    <3> QED
      BY <3>10 DEF Requests!Next
  <2> QED
    BY <1>2, <2>2, <2>3
<1>9. ~ReturnVictim
  BY DEF Calm, ReturnVictim
<1>10. (\E e \in Devices : Register(e)) \/ Run => UNCHANGED <<activations, wait, active>>
  BY DEF Register, Run
<1> QED
  BY <1>4, <1>5, <1>6, <1>7, <1>8, <1>9, <1>10 DEF Next

\* As long as nobody is forced every device goes its own way: its requests,
\* its back-off and the switches of its radio are those of a HandoverRequests,
\* whatever the other devices do (eval (), RequestPSol, Activate).
THEOREM DevicesAreIndependent ==
  ASSUME NoForcing, Distinguished PROVE Spec => Independence
<1> DEFINE Steps == \A d \in Devices : [Requests(d)!Next]_(Requests(d)!requestVars)
           Starts == \A d \in Devices : Requests(d)!Init
<1>1. Init => Alone /\ Starts
  BY RequestsStart DEF Init, Alone
<1>2. Calm /\ Alone /\ [Next]_vars => Alone'
  BY AloneStep
<1>3. Calm /\ Alone /\ [Next]_vars => [Steps]_vars
  BY RequestsGoOn
<1>4. Spec => []Calm
  BY CalmHolds
<1>5. Spec => Starts /\ [][Steps]_vars
  <2> HIDE DEF Starts, Steps
  <2> QED
    BY <1>1, <1>2, <1>3, <1>4, PTL DEF Spec
<1> QED
  BY <1>5 DEF Independence
============================================================================
