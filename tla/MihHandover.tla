---------------------------- MODULE MihHandover ----------------------------
(***************************************************************************)
(* The media-independent handover of rena/src/mih: the NetworkManager with *)
(* its NetCharts (one per access network), the routing entries it keeps in *)
(* the access routers and in the mobility anchor (LMA), and the part of    *)
(* every MihNetDevice that takes part in a handover.                       *)
(*                                                                         *)
(* A handover changes the subscriber lists, the routing tables and the     *)
(* network identifier of the device at once, but the radio of the device   *)
(* only after ActivateDelay.  A device that was forced off a full network  *)
(* is offered a new one after ReturnDelay, with the identifiers it had     *)
(* when it was forced off.                                                 *)
(***************************************************************************)
EXTENDS Naturals, SequencesExt

CONSTANTS
  Devices,        \* the nodes with a MihNetDevice
  NCharts,        \* number of access networks, in AddNetChart order
  ChartId,        \* m_id of each chart
  ChartTech,      \* m_tech: 1 is WiFi, 2 is WiMAX, 3 is LTE
  ChartPath,      \* m_paths: interface of the LMA towards the chart
  LmaInterfaces,  \* the interfaces the LMA has
  Garbage,        \* stands for every word that is no interface of the LMA
  Places,         \* places a device can be at when a request is served
  Distance,       \* Distance[p][c]: from place p to the AP of chart c
  Reach,          \* Reach[t]: range of technology t (110, 700, 2000 m)
  Capacity,       \* Capacity[t]: subscribers of a WiFi (2), WiMAX (5) chart
  Qos,            \* m_qos of each device
  Dependent,      \* devices that leave the choice to the network
  FirstChart,     \* the chart each device is registered at by SetNetId
  ActivateDelay,  \* 0.05 s, in ticks
  BackOff,        \* 10 s, in ticks (9 s to 10 s: m_timeout is an int)
  ReturnDelay,    \* 200 s, in ticks
  MaxRoutes       \* model bound on copies of one route in one router

Charts == 1..NCharts
Tech == 1..3
Limited == {1, 2}   \* the technologies whose charts can be full

ASSUME ChartAssumption ==
  /\ NCharts \in Nat
  /\ ChartId \in [Charts -> Nat]
  /\ ChartTech \in [Charts -> Tech]
  /\ ChartPath \in [Charts -> LmaInterfaces]
  /\ Garbage \notin LmaInterfaces
  /\ Distance \in [Places -> [Charts -> Nat]]
  /\ Reach \in [Tech -> Nat]
  /\ Capacity \in [Limited -> Nat \ {0}]

(* GetQos () is compared with an initial minimum of 100; a victim is       *)
(* always found when every m_qos is below it.                              *)
ASSUME DeviceAssumption ==
  /\ Qos \in [Devices -> 0..99]
  /\ Dependent \subseteq Devices
  /\ FirstChart \in [Devices -> Charts]

ASSUME DelayAssumption ==
  /\ ActivateDelay \in Nat /\ BackOff \in Nat /\ ReturnDelay \in Nat
  /\ ActivateDelay <= BackOff
  /\ MaxRoutes \in Nat

VARIABLES
  status,       \* "setup", "running", or "aborted" after a null dereference
  subs,         \* NetChart::m_subs, one sequence per chart
  routes,       \* routes[c][d]: entries for d in the routers of chart c
  lma,          \* lma[d]: interfaces of the LMA's entries for d, oldest first
  netid,        \* MihNetDevice::m_netid
  active,       \* MihNetDevice::m_active
  wait,         \* ticks until eval () is past m_timeout + 10 s
  activations,  \* scheduled MihNetDevice::Activate, in time order
  returns       \* scheduled RequestPSol (..., 0) of NIHandover, in time order

vars == <<status, subs, routes, lma, netid, active, wait, activations, returns>>

Activation == [dev : Devices, tech : Tech, left : 0..ActivateDelay]
Return == [dev : Devices, id : Nat, tech : Tech, left : 0..ReturnDelay]

TypeOK ==
  /\ status \in {"setup", "running", "aborted"}
  /\ subs \in [Charts -> Seq(Devices)]
  /\ routes \in [Charts -> [Devices -> Nat]]
  /\ lma \in [Devices -> Seq(LmaInterfaces \cup {Garbage})]
  /\ netid \in [Devices -> Nat]
  /\ active \in [Devices -> Tech]
  /\ wait \in [Devices -> 0..BackOff + 1]
  /\ activations \in Seq(Activation)
  /\ returns \in Seq(Return)

----------------------------------------------------------------------------
(* The charts: which ones a request may name, and what it does to them.    *)

\* The element of S that a scan of m_netcharts meets first (none if S = {}).
FirstOf(S) == {c \in S : \A o \in S : c <= o}

\* The charts a scan for (netchartid, tech) can stop at; {} leaves a null Ptr.
Named(id, tech) == {c \in Charts : ChartId[c] = id /\ ChartTech[c] = tech}

InRange(p, c) == Distance[p][c] < Reach[ChartTech[c]]

\* The charts RequestPSol accepts for an explicit technology.
OfTech(tech, p) == {c \in Charts : ChartTech[c] = tech /\ InRange(p, c)}

\* The closest chart in range other than (tech, id), the first one of a tie.
Closest(p, tech, id) ==
  LET Other == {c \in Charts : InRange(p, c)} \ Named(id, tech)
  IN  {c \in Other : \A o \in Other :
         \/ Distance[p][c] < Distance[p][o]
         \/ Distance[p][c] = Distance[p][o] /\ c <= o}

\* Mutant: one subscriber too many.
HasRoomOffByOne(c) ==
  ChartTech[c] \in Limited => Len(subs[c]) <= Capacity[ChartTech[c]]
HasRoom(c) ==
  ChartTech[c] \in Limited => Len(subs[c]) < Capacity[ChartTech[c]]

\* Positions of the subscribers with the least QoS, the first of them only.
Weakest(s) ==
  {k \in DOMAIN s : \A j \in DOMAIN s :
     \/ Qos[s[k]] < Qos[s[j]]
     \/ Qos[s[k]] = Qos[s[j]] /\ k <= j}

\* min < device->GetQos ().
Outranks(d, v) == Qos[v] < Qos[d]

Subscribe(S, c, d) == [S EXCEPT ![c] = Append(@, d)]
RemoveSub(S, c, d) == [S EXCEPT ![c] = RemoveFirst(@, d)]

AddRoute(R, c, d) == [R EXCEPT ![c][d] = @ + 1]
RemoveRoute(R, c, d) == [R EXCEPT ![c][d] = IF @ = 0 THEN 0 ELSE @ - 1]

(* RemoveStaticRoute at the LMA drops the last entry for d; it looks up    *)
(* the source address of every entry for d on the way, which dereferences  *)
(* null when the entry names no interface.                                 *)
\* Mutants: the earlier entry stays; every entry that matches is replaced, and
\* all of them match under the mask 255.0.0.0.
RedirectKeepingOld(L, d, path) == [L EXCEPT ![d] = Append(@, path)]
RedirectMatching(L, d, path) ==
  [o \in Devices |-> IF L[o] = <<>> THEN L[o] ELSE Append(Front(L[o]), path)]
Redirect(L, d, path) ==
  [L EXCEPT ![d] = Append(IF @ = <<>> THEN @ ELSE Front(@), path)]
LmaFault(d) == \E k \in DOMAIN lma[d] : lma[d][k] \notin LmaInterfaces

\* Mutant: Activate is scheduled with the old technology.
ScheduledStale(d, c) ==
  [dev |-> d, tech |-> active[d], left |-> ActivateDelay]
Scheduled(d, c) ==
  [dev |-> d, tech |-> ChartTech[c], left |-> ActivateDelay]

----------------------------------------------------------------------------
(* Outcomes of a request.                                                  *)

Refuse == UNCHANGED <<status, subs, routes, lma, netid, activations>>

Abort ==
  /\ status' = "aborted"
  /\ UNCHANGED <<subs, routes, lma, netid, activations>>

\* Subscribers and routes after d was moved to chart two and taken off one.
\* Mutants: the old chart is not told; the removal follows the addition.
MoveSubKeepingOld(S, d, two, one) == Subscribe(RemoveSub(S, two, d), two, d)
MoveSubSwapped(S, d, two, one) ==
  RemoveSub(RemoveSub(Subscribe(S, two, d), two, d), one, d)
MoveSub(S, d, two, one) ==
  RemoveSub(Subscribe(RemoveSub(S, two, d), two, d), one, d)
\* Mutant: the new route is the one removed.
MoveRouteSwapped(R, d, two) == RemoveRoute(AddRoute(R, two, d), two, d)
MoveRoute(R, d, two) == AddRoute(RemoveRoute(R, two, d), two, d)

UpdateNetId(d, c) == [netid EXCEPT ![d] = ChartId[c]]

(* Hand d over to chart two; (id, tech) names the chart it is taken off    *)
(* and path is the interface the LMA is to use.                            *)
Grant(d, id, tech, two, path) ==
  IF Named(id, tech) = {} \/ LmaFault(d)
  THEN Abort
  ELSE \E one \in FirstOf(Named(id, tech)) :
         /\ subs' = MoveSub(subs, d, two, one)
         /\ routes' = MoveRoute(routes, d, two)
         /\ lma' = Redirect(lma, d, path)
         /\ netid' = UpdateNetId(d, two)
         /\ activations' = Append(activations, Scheduled(d, two))
         /\ UNCHANGED status

(* NIHandover of victim v, at place pv, off the full chart two, then the   *)
(* handover of d to it.  NIHandover adds the victim to chart alt without   *)
(* removing an earlier route and without a capacity check.                 *)
Preempt(d, id, tech, two, v, pv) ==
  LET alts == Closest(pv, ChartTech[two], netid[v])
  IN  \/ alts = {} /\ Refuse /\ UNCHANGED returns
      \/ /\ alts # {}
         /\ Named(id, tech) = {} \/ LmaFault(v) \/ LmaFault(d)
         /\ Abort /\ UNCHANGED returns
      \/ \E alt \in alts, one \in FirstOf(Named(id, tech)),
            off \in FirstOf(Named(ChartId[two], ChartTech[two])) :
         /\ ~LmaFault(v) /\ ~LmaFault(d)
         /\ routes[alt][v] < MaxRoutes
         /\ subs' = MoveSub(RemoveSub(Subscribe(subs, alt, v), off, v),
                            d, two, one)
         /\ routes' = MoveRoute(AddRoute(routes, alt, v), d, two)
         /\ lma' = Redirect(Redirect(lma, v, ChartPath[alt]),
                            d, ChartPath[two])
         /\ netid' = [netid EXCEPT ![v] = ChartId[alt], ![d] = ChartId[two]]
         /\ activations' =
              activations \o <<Scheduled(v, alt), Scheduled(d, two)>>
         /\ returns' = Append(returns, [dev |-> v, id |-> ChartId[alt],
                         tech |-> ChartTech[alt], left |-> ReturnDelay])
         /\ UNCHANGED status

(* RequestPSol for an explicit technology: the first chart of that         *)
(* technology in range, if need be at the cost of its weakest subscriber.  *)
RequestTech(d, id, tech, new, p) ==
  \/ OfTech(new, p) = {} /\ Refuse /\ UNCHANGED returns
  \/ \E two \in FirstOf(OfTech(new, p)) :
       \/ /\ HasRoom(two)
          /\ Grant(d, id, tech, two, ChartPath[two])
          /\ UNCHANGED returns
       \/ /\ ~HasRoom(two)
          /\ \E k \in Weakest(subs[two]) :
               LET v == subs[two][k] IN
               \/ ~Outranks(d, v) /\ Refuse /\ UNCHANGED returns
               \/ Outranks(d, v) /\ \E pv \in Places :
                                       Preempt(d, id, tech, two, v, pv)

(* RequestPSol with technology 0: the closest chart, or LTE when that one  *)
(* is full.  The LMA's interface is read at m_paths[j] with j one past the *)
(* end: any value.                                                         *)
RequestClosest(d, id, tech, p) ==
  LET near == Closest(p, tech, netid[d])
  IN  \/ near = {} /\ Refuse
      \/ \E two \in near : /\ HasRoom(two)
                           /\ \E path \in LmaInterfaces \cup {Garbage} :
                                Grant(d, id, tech, two, path)
      \/ \E two \in near :
           /\ ~HasRoom(two)
           /\ \/ OfTech(3, p) = {} /\ Refuse
              \/ \E lte \in FirstOf(OfTech(3, p)) :
                   Grant(d, id, tech, lte, ChartPath[lte])

----------------------------------------------------------------------------
(* Steps.                                                                  *)

Init ==
  /\ status = "setup"
  /\ subs = [c \in Charts |-> <<>>]
  /\ routes = [c \in Charts |-> [d \in Devices |-> 0]]
  /\ lma = [d \in Devices |-> <<>>]
  /\ netid = [d \in Devices |-> ChartId[FirstChart[d]]]
  /\ active = [d \in Devices |-> ChartTech[FirstChart[d]]]
  /\ wait = [d \in Devices |-> 0]
  /\ activations = <<>>
  /\ returns = <<>>

\* SetNetId of a device whose first technology was activated: RequestPSol 4.
Register(d) ==
  /\ status = "setup" /\ lma[d] = <<>>
  /\ \E two \in FirstOf(Named(netid[d], active[d])) :
       /\ subs' = Subscribe(subs, two, d)
       /\ routes' = AddRoute(routes, two, d)
       /\ lma' = [lma EXCEPT ![d] = Append(@, ChartPath[two])]
  /\ UNCHANGED <<status, netid, active, wait, activations, returns>>

\* Simulator::Run, after every device was registered.
Run ==
  /\ status = "setup" /\ \A d \in Devices : lma[d] # <<>>
  /\ status' = "running"
  /\ UNCHANGED <<subs, routes, lma, netid, active, wait, activations, returns>>

\* m_timeout = now; mutant: never set.
NoBackOff(d) == wait
StartBackOff(d) == [wait EXCEPT ![d] = BackOff + 1]

(* eval () past its back-off asks for a network: a dependent device for    *)
(* any, another one for a technology that is not active.  The back-off     *)
(* restarts whatever the answer.                                           *)
Evaluate(d) ==
  /\ status = "running" /\ wait[d] = 0
  /\ \E p \in Places :
       \/ /\ d \in Dependent
          /\ RequestClosest(d, netid[d], active[d], p)
          /\ UNCHANGED returns
       \/ /\ d \notin Dependent
          /\ \E new \in Tech \ {active[d]} :
               RequestTech(d, netid[d], active[d], new, p)
  /\ wait' = StartBackOff(d)
  /\ UNCHANGED active

\* The oldest scheduled Activate is due.
Activate ==
  /\ status = "running" /\ activations # <<>>
  /\ LET a == Head(activations) IN
       /\ a.left = 0
       /\ active' = [active EXCEPT ![a.dev] = a.tech]
  /\ activations' = Tail(activations)
  /\ UNCHANGED <<status, subs, routes, lma, netid, wait, returns>>

\* The oldest request scheduled by NIHandover is due.
ReturnVictim ==
  /\ status = "running" /\ returns # <<>>
  /\ LET r == Head(returns) IN
       /\ r.left = 0
       /\ \E p \in Places : RequestClosest(r.dev, r.id, r.tech, p)
  /\ returns' = Tail(returns)
  /\ UNCHANGED <<active, wait>>

Pass(q) == [k \in DOMAIN q |-> [q[k] EXCEPT !.left = @ - 1]]

\* Mutant: time overtakes an Activate that is due.
NoReturnDue == \A k \in DOMAIN returns : returns[k].left > 0
NothingDue ==
  /\ \A k \in DOMAIN activations : activations[k].left > 0
  /\ \A k \in DOMAIN returns : returns[k].left > 0

\* Simulated time advances; no event that is due is left behind.
Tick ==
  /\ status = "running"
  /\ activations # <<>> \/ returns # <<>> \/ \E d \in Devices : wait[d] > 0
  /\ NothingDue
  /\ activations' = Pass(activations)
  /\ returns' = Pass(returns)
  /\ wait' = [d \in Devices |-> IF wait[d] = 0 THEN 0 ELSE wait[d] - 1]
  /\ UNCHANGED <<status, subs, routes, lma, netid, active>>

Next ==
  \/ \E d \in Devices : Register(d) \/ Evaluate(d)
  \/ Run \/ Activate \/ ReturnVictim \/ Tick

Spec == Init /\ [][Next]_vars

(* The event loop executes every due event and time goes on: the steps of  *)
(* the simulator are fair, the requests of the devices are not.            *)
FairSpec == Spec /\ WF_vars(Activate) /\ WF_vars(ReturnVictim) /\ WF_vars(Tick)

----------------------------------------------------------------------------
(* Properties.                                                             *)

\* The technology the radio of d has once the scheduled Activates are done.
Planned(d, t) ==
  \/ \E k \in DOMAIN activations :
       /\ activations[k].dev = d /\ activations[k].tech = t
       /\ \A j \in DOMAIN activations : activations[j].dev = d => j <= k
  \/ active[d] = t /\ \A k \in DOMAIN activations : activations[k].dev # d

\* The chart the last handover of d led to (at most one if ids are unique).
At(d) == {c \in Charts : ChartId[c] = netid[d] /\ Planned(d, ChartTech[c])}

\* The LMA holds one route per device: LookupStatic takes the first entry for
\* an address and RemoveStaticRoute drops the last one, so with two entries a
\* handover would leave the traffic on the path it meant to abandon.
OneAnchorRoute == status # "setup" => \A d \in Devices : Len(lma[d]) = 1

\* Network identifier and (scheduled) technology always name a chart, and its
\* routers have a route for the device, also while the radio still switches.
RoutedAtTarget ==
  \A d \in Devices : lma[d] # <<>> => \E c \in At(d) : routes[c][d] > 0

\* A device that may ask again has no radio switch pending: the pair
\* (m_netid, m_active) it passes as its old network is then consistent.
Settled ==
  \A d \in Devices : wait[d] = 0 =>
    \A k \in DOMAIN activations : activations[k].dev # d

\* The scheduled switches of the radio of d, in time order.
OwnSwitches(d) ==
  LET K == {k \in DOMAIN activations : activations[k].dev = d}
  IN  [n \in 1..Cardinality(K) |->
         LET a == activations[CHOOSE k \in K : Cardinality({j \in K : j <= k}) = n]
         IN  [tech |-> a.tech, left |-> a.left]]

\* As long as nobody is forced, each device is a HandoverRequests: no request,
\* radio switch or delay of another one shows in its own.
Requests(d) == INSTANCE HandoverRequests WITH
  dependent <- d \in Dependent, MinGap <- BackOff + 1,
  active <- active[d], wait <- wait[d], switches <- OwnSwitches(d)
Independence ==
  /\ \A d \in Devices : Requests(d)!Init
  /\ [][\A d \in Devices :
          [Requests(d)!Next]_(Requests(d)!requestVars)]_vars

\* netchart.h: m_subs holds "The Subscribers connected to this network".
SubscribersConnected ==
  \A c \in Charts : \A k \in DOMAIN subs[c] : c \in At(subs[c][k])

\* A device is on the list of the chart it is at exactly once: the length that
\* admission compares with the capacity is the number of devices there.
CountedOnce ==
  \A d \in Devices : \A c \in At(d) :
    lma[d] # <<>> =>
      \E k \in DOMAIN subs[c] : \A j \in DOMAIN subs[c] :
        subs[c][j] = d <=> j = k

\* network-manager.h: m_paths holds "The interfaces for each NetChart from the
\* LMA"; the LMA sends the traffic of a device towards the chart it is at.
AnchorFollows ==
  \A d \in Devices : \A c \in At(d) :
    status = "running" => lma[d] = <<ChartPath[c]>>

\* No request dereferences a null chart or a null interface.
NoAbort == status # "aborted"

\* No chart of limited capacity ever grows beyond its capacity (it may be
\* registered beyond it by SetNetId, and then only shrinks).
AdmissionControl ==
  [][status = "running" =>
       \A c \in Charts :
         ChartTech[c] \in Limited /\ Len(subs'[c]) > Len(subs[c]) =>
           Len(subs'[c]) <= Capacity[ChartTech[c]]]_vars

\* A device is moved by its own request, by the return NIHandover promised it,
\* or because a device of strictly higher QoS asked at the same instant.
OnlyStrongerForces ==
  [][\A v \in Devices : status = "running" /\ lma'[v] # lma[v] =>
       \/ wait[v] # wait'[v]
       \/ returns # <<>> /\ Head(returns).dev = v /\ returns' = Tail(returns)
       \/ \E d \in Devices : wait'[d] # wait[d] /\ Qos[d] > Qos[v]]_vars

\* The path of the LMA and the radio meet: once the LMA sends the traffic of d
\* to a chart, the radio of d gets the technology of that chart or the LMA
\* changes its mind.
PathReached ==
  \A d \in Devices : \A c \in Charts :
    (status = "running" /\ lma[d] = <<ChartPath[c]>>) ~>
      (active[d] = ChartTech[c] \/ lma[d] # <<ChartPath[c]>>)
============================================================================
