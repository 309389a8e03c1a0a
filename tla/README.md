# A verification project for the media-independent handover of tesis-ns3

The repository is the software of a thesis on vertical handover: two copies of
the ns-3 network simulator, `src/lena` (the upstream LTE development tree) and
`src/rena` (the same simulator with the thesis' additions).  What the thesis
adds is small and is where the program's own logic is: a *media-independent
handover* (MIH) module, `src/rena/src/mih`, and edits of the IPv4 static
routing table, of `Node`, and of the receive paths of the WiFi, WiMAX and LTE
models, which tag packets with the quality of the link.

The project models that logic and the parts of the simulator it rests on.

## 1. Inventory

### 1.1 Components, their state and their operations

| component (under `src/rena/`) | state | operations |
|---|---|---|
| network manager, `src/mih/model/network-manager.*` | `m_netcharts`, `m_paths` (fixed after set-up), the anchor node `lma` | `AddNetChart`, `RequestPSol` (three forms: 4 registers, 1..3 asks for a technology, 0 leaves the choice to the network), `NIHandover` |
| network chart, `src/mih/model/netchart.*` (one per access network) | `m_subs`, the routing tables of its routers, `m_connections` (never read) | `AddRouting`, `RemoveRouting`, `RemoveSub`, `GetSubs` |
| MIH device, `src/mih/model/mih-net-device.*` (one per mobile node) | `m_netid`, `m_active`, `m_timeout`, link estimates `p_*` and warnings `hop_*`, receive callbacks of the real devices | `SetNetId`, `UpdateNetId`, `UpdateParameter`, `eval`, `Activate`, `Send`, `NonPromiscReceiveFromDevice` |
| static routing, `src/internet/model/ipv4-static-routing.cc` | `m_networkRoutes`, an ordered list of (entry, metric) | `AddNetworkRouteTo`, `RemoveRoute`, `RemoveStaticRoute` (added by the thesis), `LookupStatic` (edited), `NotifyInterfaceUp/Down`, `NotifyAdd/RemoveAddress` |
| IPv4 interfaces, `src/internet/model/ipv4-l3-protocol.cc`, `ipv4-interface.cc` | addresses and up/down state of every interface | `AddAddress`, `RemoveAddress`, `SetUp`, `SetDown` |
| reception path, `Node::ReceiveFromDevice`, `src/network/model/mih-tag.*`, the PHYs | the receive callback of every real device | attach a link quality to a received frame, deliver the frame to the node or to the MIH device, report the quality |
| MIH helper, `src/mih/helper/mih-helper.cc` | none | `InstallPriv`, `Activate`, `SetNetId`, called while a scenario is set up |
| simulator event loop, `src/core/model/default-simulator-impl.cc`, `event-impl.cc` | `m_events`, `m_destroyEvents`, `m_eventsWithContext` with its flag, current time and uid, `m_unscheduledEvents`, `m_stop` | `Schedule*`, `Remove`, `Cancel`, `IsExpired`, `Stop`, `Run`, `Destroy`; `ScheduleWithContext` also from other threads |
| schedulers, `src/core/model/{map,list,heap,calendar}-scheduler.cc` | the events not yet run, in four data structures | `Insert`, `PeekNext`, `RemoveNext`, `Remove` |
| test runner, `test.py` | two queues, `thread_exit`, the counters | dispatch, worker threads, collection of the results, Ctrl-C |
| visualizer, `src/visualizer/visualizer/core.py` | `SimulationThread`'s lock, `go`, `quit`; the view's timers, the play button | `run`, `update_view_timeout`, `_speed_changed`, `_on_play_button_toggled`, `_quit` |

The access technologies themselves (WiFi association, WiMAX ranging and service
flows, LTE RRC/RLC) are ns-3's; the rest of the tree is ns-3's other forty
modules, generated Python bindings, build output and a vendored copy of waf.
PROJECT.json lists them all with the reason they are left out.

### 1.2 How the components interact

A received frame carries a tag; the device updates its estimates and calls
`eval`, which at most every ten seconds calls `RequestPSol`.  The manager picks
a chart, changes the chart's subscriber list and its routers' tables, the
anchor's routing table and the device's `m_netid`, all synchronously, and
*schedules* `MihNetDevice::Activate` 0.05 s later, which switches the radio
(`m_active`).  When the chart is full and holds a subscriber of lower QoS,
`NIHandover` first moves that subscriber elsewhere and *schedules* a request on
its behalf 200 s later.  All of this runs in one thread; what interleaves is
events: requests of different devices, radio switches, returns.

The events are kept by a `Scheduler` that the program may exchange with
`SetScheduler`, and run by `DefaultSimulatorImpl::Run`, which other threads (an
emulated device, a tap) hand events to with `ScheduleWithContext`.  Around the
simulator are two Python programs with threads of their own: `test.py`, which
runs the test suites in parallel, and the visualizer, whose GTK thread and
simulation thread take turns.

### 1.3 What is hard here

- the 50 ms in which `m_netid` is new and `m_active` old;
- the 200 s for which the arguments of the victim's return are kept;
- subscriber lists that are updated by (id, technology) names which may no
  longer be those of the network the device is on;
- a routing table whose removal and look-up choose different ends of the list;
- capacity tests on lists that may hold phantoms or lack subscribers.

- timers that are ints, so that delays are up to a second shorter than they
  read; estimates that are stale while a warning is on;
- words read past the end of `m_paths`, and null pointers dereferenced half-way
  through a handover;
- receive callbacks that change hands at every switch of the radio, while
  frames that are passed on are read a second time;
- array and calendar invariants that every operation of a scheduler relies on;
- a flag read outside of its critical section, a counter kept by hand in six
  places, event ids whose expiry is decided by comparing (time, uid);
- queues shared by threads that must all end, also after Ctrl-C; a GTK callback
  that dispatches GTK events, and a thread that must not miss its last wake-up.

What makes each component correct, in one line: *manager and charts*: the
subscriber lists, the routes and the identifiers of the devices tell the same
story; *device*: one request at a time, no oscillation, no lost network
chosen; *routing table*: the look-up is a well-defined choice and the table
follows the interfaces; *anchor*: one path per device and a handover moves one
device; *reception*: every report counts once and the stack hears the active
device only; *schedulers*: the next event is the earliest; *event loop*: an
event runs at most once, never after its id has expired, and none is hidden;
*test runner*: no job is lost, and 0 means that every test passed; *visualizer*:
a timer that can be stopped whenever it plays, no lost wake-up.

PROJECT.json lists the hazards with their lines and the properties that cover
them.

## 2. Plan

| step | modules | status |
|---|---|---|
| 1 | `MihHandover`: the manager, the charts, the anchor and the devices together | done |
| 2 | `MihHandoverProofs`, `SequenceFacts`: type correctness, one route per device at the anchor, a route at the target | done |
| 3 | `StaticRouting`: the routing table under every call; `AnchorRouting`: the manager's use of it; `PathMap`: what the anchor promises | done |
| 4 | `HandoverRequests`: what the manager relies on of one device, and its proofs; `LinkEvaluation`: estimates and choice of a network | done |
| 5 | `MihDevice`: the receive callbacks and the reception path, with `LinkEvaluation` | done |
| 6 | `EventKeys`, `EventList`, `HeapScheduler`, `CalendarScheduler`, `Schedulers`: the schedulers; `Simulator`: the event loop | done |
| 7 | `TestRunner`, `Visualizer`: the threads of the Python tools | done |
| 8 | `SimulatorProofs`, `MihDeviceProofs`, `RoutingProofs`, `ToolProofs`, more of `MihHandoverProofs` | done |
| 9 | `SchedulersProofs`: the structure of the list, the heap and the calendar, `InOrder`, `EarlyPeekIsNext`, `ListKept` | done |
| 10 | protocols the handover rests on: WiFi association, WiMAX ranging and service flows, LTE RLC reassembly, ARP cache | not begun |

Composition: `AnchorRouting` extends `StaticRouting`; `MihDevice` extends
`LinkEvaluation` and adds the node's side; `Schedulers` joins the three data
structures and is shown to implement `EventList`, which `Simulator` has in the
place of its scheduler; `MihHandover` and `LinkEvaluation` are both shown to
implement `HandoverRequests`; `AnchorRouting` is shown to implement `PathMap`,
which is what justifies that `MihHandover` keeps the anchor's table per device.

## 3. The modules

### MihHandover

The state is the manager's view of the world: `subs` (`m_subs` of each chart),
`routes` (the number of entries for each device in a chart's router), `lma`
(interfaces of the anchor's entries for each device, oldest first), and per
device `netid`, `active` and `wait` (the time until `eval` gets past
`m_timeout + 10`).  Two kinds of scheduled events are kept in time order:
`activations` (`Schedule (Seconds (0.05), Activate)`) and `returns`
(`Schedule (Seconds (200), RequestPSol, ..., 0)` of `NIHandover`).

| action | code |
|---|---|
| `Register` | `SetNetId` and `RequestPSol` with `tech_new` 4, before the simulation runs |
| `Evaluate` | a call of `eval` past its back-off that makes a request, with the whole of `RequestPSol` and, through `Preempt`, of `NIHandover` |
| `Activate` | a scheduled `MihNetDevice::Activate` |
| `ReturnVictim` | the request `NIHandover` scheduled for its victim, with the arguments of that time |
| `Tick` | `DefaultSimulatorImpl::Run` advances the time |

Choices made:

- *Which technology a device asks for* is left open here (any but its own) and
  is the subject of `LinkEvaluation`; where a device is when it asks is a
  member of `Places`.
- *`m_paths[j]` one past the end* (`network-manager.cc:224`) is undefined
  behaviour: the path is any interface of the anchor, or `Garbage`.
- *Null pointers*: a request that names a network that is not there, or a
  look-up of the source address of an entry with no interface, sets `status`
  to `"aborted"`, where the process ends.
- *The QoS minimum* starts at 100; with every QoS at or above 100 the victim
  would be an uninitialised pointer.  `DeviceAssumption` excludes it; no
  scenario sets a QoS above 2.
- One router stands for the routers of a chart: they get the same calls.
- Delays are in ticks; only their order matters.  `BackOff` is the guaranteed
  minimum, since `m_timeout` is an int.

### StaticRouting, AnchorRouting, PathMap

`StaticRouting` is the unicast table of `Ipv4StaticRouting` as an ordered
sequence of entries, with the addresses and the up/down state of the interfaces
it is notified of.  `LookupStatic` is the code's single pass, with its running
mask length and metric and with the thesis' edit (an entry for the very address
is kept): `Examine` is one turn of the loop, `LookupStatic` the function of the
turns; `RemoveStaticRoute` removes the last
entry whose network *is* the address.  `NotifyRemoveAddress` skips the entry
behind a removed one, as the code does.  Addresses have three bits.  Multicast
look-ups are left out.

`AnchorRouting` is what the manager does with the anchor's table: an entry
`address/8` per device, so every device's entry matches every device's address
and only the thesis' edit tells them apart.  Interfaces, addresses and other
routes change around it (`Surroundings`).  `AnchorAssumption` says that no
other route of the anchor is for a device's own address or is longer and holds
one; the scenarios' anchors have 11.1.x.0/24 networks, and at most a route to
7.0.0.0/8.  `PathMap` is the promise: a map from devices to paths in which one
call moves one device.

### HandoverRequests, LinkEvaluation, MihDevice

`LinkEvaluation` is `UpdateParameter` followed by `eval`: three estimates, three
warnings, and the six orders of the rates, with whole-second timers.  A report
of LTE is one of the three things the modulation schemes can say.  `dependent`,
fixed in the initial state, selects the branch that leaves the choice to the
network, whose answer may be any technology.

`HandoverRequests` says what the manager may rely on: a device asks for a
technology other than its own, or leaves the choice to the network, keeps a
least time between requests whether or not they were granted, and switches
`ActivateDelay` later.

`MihDevice` puts the device on its node.  `receiver` is the receive callback of
each real device; `Receive` is a frame of any device, which is reported once
per time its tag is read (`Reported`) and whose data goes to the stack in the
name of a device (`Handed`).  A frame of WiFi carries its report; WiMAX and LTE
send the report up in a frame of its own.  `SwitchRadio` is `Activate` with its
two changes of callbacks.  The loopback device, which `SetNetDevices` takes over
as well and nothing gives back, is left out.

### EventKeys, EventList, HeapScheduler, CalendarScheduler, Schedulers

`EventList` is the set of keys of the events to come; `MapScheduler` is this
set.  `HeapScheduler` is the array and its `BottomUp` and `TopDown`;
`CalendarScheduler` the buckets, the search by days, the width computed from the
next events and cut to 32 bits, and the resizing.  `Schedulers` has one of the
three in `sched`, calls its operations as the simulator does and exchanges it
with `SetScheduler`.  The event scheduled last has the greatest uid, and none is
scheduled before the last one run.

A loop of the code is a recursive function over its turns, and a turn is an
operator of its own: `Rise` of `BottomUp`, `Sink` of `TopDown`, `Moved` of
`SetScheduler` (`Moves` are its turns, `Transferred` what they leave).  The array
has more turns than the loops need; a turn after the end changes nothing.
`Position` is the search of `Remove` for a uid, in each of the three; `Sorted` is
the list `DoResize` makes of a bucket's events, stated without the insertions.

`Remove` is called on heaps of at most `RemoveLimit` events, since on larger
ones it may leave an array that is no heap (`schedulers_v_heap`).

### Simulator

| action | code |
|---|---|
| `Schedule`, `ScheduleDestroy`, `Remove`, `Cancel`, `Stop` | the calls of an event that runs, or of the program outside of `Run` |
| `Run`, `Poll`, `Swap`, `InsertBatch` | the start of `Run` and `ProcessEventsWithContext`, step by step |
| `ProcessOneEvent`, `EventReturns`, `Return` | the loop: an event is taken out, runs unless cancelled, returns; the loop ends |
| `HandOver` | `ScheduleWithContext` in another thread, at any point |
| `Destroy`, `DestroyOneEvent`, `Dispose` | the loop over the destroy events, which may make the same calls as any event; the implementation is disposed of |

The read of `m_eventsWithContextEmpty` in `Poll` is not synchronised: the value
it may miss is one the other thread has just written, which is the case of
`HandOver` coming after `Poll`; the main thread always sees its own.  `ids`
holds every `EventId` ever returned, so `Remove` and `Cancel` are called with
stale ones too.  Contexts are left out: they select no step; and `m_uid` does not
wrap: uids have 32 bits in the code, and after 2^32 calls two events could have
one.

### TestRunner, Visualizer

`TestRunner` is `run_tests` from its queues on: `Dispatch` to `Exit` in the main
thread, `Get`, `Check` and `Test` in each worker.  `Interrupt` is Ctrl-C, whose
handler runs in the main thread and only when that does not block in a `get` or
a `join`.  A job has a return code before it has run, `False`, which equals 0.
A suite that ends without its results file raises in the main thread.

`Visualizer` is `SimulationThread.run` and the GTK thread.  `calls` is the stack
of `update_view_timeout` calls, since each dispatches events while it waits for
the lock, and so do the button, the speed, another timer and the close of the
window inside of it.  `window` follows `_quit` step by step.  `timers` are the
timers of the GTK loop and `timerId` the one the code can remove: `_speed_changed`,
which `create_gui` calls once, starts a timer whatever the play button says, and a
call that returns in pause forgets whichever `timerId` names.  So a timer waits for
the first look at the model, and some are lost (section 6); a lost one ends by itself in pause, and goes on beside the other one while it plays.

`MCTools` chooses one of the two in its initial state (`tool`).

## 4. What the runs check

| run | instance | shows |
|---|---|---|
| `handover_uniform` | 3 devices of equal QoS, 4 networks of `mihtest10`, capacities 1 | without preemption and technology-0 requests: subscribers, routes and radio agree, no null dereference, no admission beyond the capacity, and every device is a `HandoverRequests` unaffected by the others (`Independence`) |
| `handover_preempt` | a QoS 2 and a dependent QoS 1 device, two WiFi networks and LTE | what survives network-initiated handovers, the late return of the victim and an anchor interface read past the end of `m_paths`, aborts included: one route per device, a route at its target; nobody is moved by a device that is not stronger |
| `handover_liveness` | 2 devices, fair event loop | the radio reaches the network the anchor sends the traffic to, unless the anchor redirects it |
| `handover_v_anchor` | 2 dependent devices | *violation*: the anchor uses an interface that is not the chart's |
| `handover_v_subs` | preemption | *violation*: a chart keeps a subscriber that is connected elsewhere |
| `routing` | tables of 4, 2 interfaces, 3-bit addresses; `role` chooses between any router and the anchor with 2 devices | the look-up is the declarative choice `Chosen`, routes follow the interfaces; the anchor follows the last handover and implements `PathMap` |
| `routing_v_remove` | an interface set up twice | *violation*: removing its address leaves a route to its network |
| `links` | half-second ticks, two requests, reports of every kind, some of them on a threshold, dependent or not | the device implements `HandoverRequests`; no ping-pong; a lost network is asked for only as an escape from one that is being lost; no switch is pending when it may ask; every report counts once; the stack hears the active device only |
| `schedulers` | up to 6 events, delays 0, 1 and 6, up to 4 buckets, widths modulo 8, heaps with `Remove` up to 5 events | list, heap and calendar keep their structure and implement `EventList`, also when exchanged for each other |
| `schedulers_v_heap` | a heap of 6 events and `Remove` | *violation*: `RemoveNext` returns an event that is not the earliest |
| `simulator` | 4 uids to give, 2 events waiting to be handed over | counter, ids and flag agree with the queues; no expired event runs |
| `tools` | test.py with 2 workers and 2 tests, or the visualizer with 2 nested calls of the view, 2 timers and the lost ones | test.py keeps its jobs, is honest and ends; while the view plays there is a timer that can be stopped and the simulation goes on, the timers that are lost end after the button is released, and the window can be closed |

The four violations are the findings of PROJECT.json.  `handover_preempt` and
`handover_v_*` switch the deadlock check off: an aborted process stops; so do
`schedulers`, `simulator` and `tools`, where the uids are used up, the
implementation is destroyed, or the program has ended.

`PathReached` is checked without preemption and without dependent devices
because it is false with either: TLC then finds runs in which the anchor sends a
device's traffic to one network and its radio stays on another, until the device
asks again.  Nothing in the repository promises otherwise.  `Settled`, likewise,
is the property the 50 ms window of a forced handover breaks.

### Bounds

- *Devices, networks*: two devices are enough for one to force the other; three
  for two to compete for a place on a chart the third one leaves.  The four
  networks include two of one technology (so that an identifier alone does not
  name a network), one that is full after one device (capacities 2 and 5 are
  scaled to 1) and one that never fills.
- *Delays*: `ActivateDelay = 1`, `BackOff = 1`, `ReturnDelay = 3`: a return can
  fall before, at and after a switch and a request of its victim.
- `MaxRoutes` bounds the copies of one entry in a router, `MaxTable` and
  `MaxLocals` the tables: three entries are needed for one to be skipped
  behind a removed one and one to follow, and two addresses for one to be given
  twice, on an interface that is up and is set up again.  `routing` leaves out
  one thing, `HeldOnce` says which: an address given to an interface twice is
  not taken from it.  Nothing in the repository calls `Ipv4::RemoveAddress`,
  while `MihNetDevice::Activate` adds the device's address at every switch.
- `MaxTime = 11` of `LinkEvaluation`: the first request is possible at tick 5,
  the second at tick 9, after the shortest back-off the cut to whole seconds can
  make of it (`MinGap`), and at 11 after a full one, since 6 is a whole second.
- *Schedulers*: six events fill three levels of a heap, make a calendar grow
  from two buckets to four and shrink to one; the delays put events on one
  time, on neighbouring days and beyond a year.  The modulus 8 stands for 2^32
  and cuts widths of the instance; a width of 0, which the code would divide
  by, needs distances that add up to a multiple of 2^32 and does not occur
  (the theorems of section 5 say when it cannot).
- `MaxUid = 7` gives four uids, `MaxHanded = 2` lets an event be handed over
  between two others; `MaxTests = 2` with two workers has both busy, or one
  busy and one job waiting behind it; `MaxCalls = 2` is one timer inside of another's call,
  `MaxTimers = 2` bounds the timers alive besides the one to be removed when one
  is started.

### Fairness

`FairSpec` makes `Activate`, `ReturnVictim` and `Tick` weakly fair: the event
loop executes every event of its queue in order and only stops when the queue
is empty or `Stop` is called.  Requests are not fair: a device whose frames
carry no tag never asks.

`MCFairness` makes the main thread of test.py, each of its workers, and both
threads of the visualizer weakly fair: the operating system runs every thread
that can run, and every test ends.  `Acquire` is strongly fair: the view takes
the lock only for moments, once per sample period, so a thread that waits for it
finds it free in between.  `NoneLeft`, the end of a call's loop over the pending
events, is strongly fair for the same reason: a timer is due once per sample
period at most (0.1 s or more), so there are moments in which no event is pending.
Ctrl-C, the play button, the speed and the close of the window are not fair;
`PausedViewRests` is about behaviours in which the speed is left alone in the end,
for who changes it for ever starts a timer each time.

## 5. What is proved

All theorems hold for every value of the constants that the assumptions of the
component's module allow (`ChartAssumption`, `DeviceAssumption`,
`EvaluationAssumption`, `RoutingAssumption` and so on, which TLC evaluates); what a
theorem assumes beyond them stands in its statement and is named here.  The
lemmas about sequences that several proofs need, induction over positions
(`PrefixInduction`), the existence of a loop's results (`LoopIsDefined`) and how
often an element occurs (`Once`, `Absent`), are in `SequenceFacts`.

### Handover (`MihHandoverProofs`)

Of every instance, preemption and dependent devices included:

- `TypeCorrect` (`TypeOK`).  `TypeOK` is inductive; that no scheduled event is
  overdue follows from the guard of `Tick`.
- `AnchorHasOneRoute` (`OneAnchorRoute`).  The property speaks of a running
  simulation only; the inductive `OneRoute` adds that a device has at most one
  route during set-up, which `Register`'s guard and `Run`'s turn into exactly
  one.  `Redirect` removes one entry before it adds one.
- `TargetHasRoute` (`RoutedAtTarget`).  The inductive `Targets` says that the
  identifier of *every* device and the technology of its last scheduled switch
  (its radio's, if there is none) name a chart, with a route if the device is
  registered, and that nothing is scheduled during set-up.  A handover never
  removes a route of another chart, only doubles or renews one at its target.
- `ForcedByStrongerOnly` (`OnlyStrongerForces`, an action property).  Only
  `Redirect` touches the anchor's entries; the proof follows it through the
  three forms of `RequestPSol` and `NIHandover`.

Without preemption, `EqualQos` (the QoS of all devices is the same, as in
`mihtest1` to `mihtest6`, which never call `SetQoS`):

- `FullMeansFull` (`AdmissionControl`, an action property), dependent devices
  included.  A list grows only where `HasRoom` was tested, unless the victim of
  `NIHandover` made the room, which needs a weaker subscriber.

If moreover no device is dependent, `NoForcing` (`mihtest1` to `mihtest4`), and
an identifier with a technology names one chart, `Distinguished` (every
scenario):

- `AsksWhenSettled`, `SubscribersAreConnected`, `EveryoneCountsOnce`,
  `AnchorFollowsDevice`, `NeverAborts`.  None of the five properties is
  inductive, nor are they together.  The inductive `Calm` says that no victim
  waits to be returned, that every scheduled switch is due before its device
  may ask again, and that every registered device has one chart (`AtChart`)
  which its identifier and its planned technology name, which lists it once
  while no other chart does, and to whose path its only route at the anchor
  goes.  `Grant` moves all of this at once.
- `DevicesAreIndependent` (`Independence`): every device implements
  `HandoverRequests`, step by step: its own request and switch are steps of it,
  the passing of time is its `Tick`, and what other devices do is a stutter.

`handover_uniform` is an instance of the hypotheses.  They are needed:
`handover_v_subs` shows a subscriber that is elsewhere once devices are forced,
`handover_v_anchor` an anchor that uses another path than the chart's, and
section 6 a device that is on no list, once devices are dependent.

### Requests of one device (`HandoverRequestsProofs`, `MihDeviceProofs`)

- `RequestsTyped` and `NeverAsksWhileSwitching` of `HandoverRequests`, for every
  switching delay that is shorter than the gap (`DelayIsShort`).  The inductive
  `Due`: at most one switch is scheduled, and it is at least
  `MinGap - ActivateDelay` closer than the next request.
- `LinksAreTyped` and `OneSwitchAtATime` from the inductive `LinkInv`, the same
  in the code's arithmetic, whatever the resolution of the clock: `m_timeout`
  holds the whole second of the last request or a later one, and the switch
  that is pending, one at most, was scheduled by that request.
- `NeverPingPong` and `BlindEscapesOnly` speak of `Wanted` for *all* estimates,
  not of the ones reached: they follow from the types by the six orders of the
  rates.
- `StackHearsActive` and `ReportsCountOnce` from the inductive `Receivers`: a
  device has the node's callback if and only if it is active and needs ARP.
- `DeviceKeepsRequests` (`RequestsKept`): a device implements
  `HandoverRequests`.  The refinement mapping turns absolute whole-second
  timers into the remaining waits; it is the theorem that lets `MihHandover`
  keep no clock.

### Routing (`RoutingProofs`)

- `TablesAreTyped` and `DownCarriesNothing` from `RouterInv`, which is both of
  them: the table changes by `AtPositions`, appending and removing.
- `LookupMeetsSpecification` (`LookupIsChosen`): the pass of the code is the
  declarative `Chosen` for every table, address and set of interfaces.  `Sound`
  says what the choice means after the first k entries: it is one of the entries
  at least as good as all before them, the first of these for the very address,
  or the last if there is none, while `longest_mask` and `shortest_metric` are
  those of the last, which need not be the entry that is kept.  `ExamineSound`
  proves that one turn keeps it.  The loop is a recursive function, whose values
  after each turn `LoopIsDefined` yields.
- `DefaultRouteIsLast` (`DefaultIsLast`, which no run checks: `LookupIsChosen` does
  what concerns the look-up), if users give mask length 0 with
  address 0 only, as `SetDefaultRoute` does.
- `NetworksStayReachable` (`NetworksReachable`), if no two addresses share a
  network, no user removes one (`NetworksAreApart`), and an address an interface
  was given twice is not taken from it: the behaviours are those of
  `Init /\ [][Next /\ HeldOnce]`.  Without the last, `NotifyRemoveAddress` takes
  away the routes of the address that stays.  Giving an address and setting an
  interface up again and again, as `Activate` does, is covered.  The inductive
  `ConnectedInv`: an address of an interface that is up has its entry.  `routing`
  checks the same behaviours.
- `AnchorForwards` (`Follows`) and `AnchorKeepsPaths` (`OnePathMoves`, the
  refinement of `PathMap`) from `AnchorInv`: a registered device has one entry,
  for the interface asked for last, and no other entry is for a device or
  longer and in its way, so the look-up chooses it (`OwnEntryFound`).

### Event loop (`SimulatorProofs`)

- `SimulatorTyped`, `CounterFollowsList`, `RemoveFindsEvent`, `EventsRunOnce`
  (an action property) from `SimInv`: uids are given once and in order, an id
  that has not expired names an event of the list, and nothing in the list is
  earlier than the clock.  `Counted` and `LiveIdsListed` need each other: what
  `Remove` takes out is counted down once only if it is in the list.  Destroy
  events are in a list of their own, of which `LiveIdsListed` does not speak.
- `FlagHidesNothing` (`NothingHidden`), inductive as it stands: every step that
  writes the queue writes the flag under the same lock.

### Schedulers (`SchedulersProofs`)

Two conditions are in the theorems' statements.

- `HeapsAreSmall`: with a heap, `Remove` is only called while it holds at most
  five events.  With six the theorems are false, as `schedulers_v_heap` shows;
  with five, an element that sinks is never less than the parent of the place it
  was put in (`HeapWithoutKeeps`).
- `WidthsLast`, of behaviours: no resize of a calendar, also none on the way
  through `SetScheduler`, computes a width that is 0 modulo 2^32.  The program
  divides by the width and ends there.  `ShortDelaysKeepWidths` shows that this is
  no condition at all when every delay is less than a third of 2^32
  (`DelaysAreShort`): the events pending are never further apart than the longest
  delay (`Soon`, inductive), so the distances `CalculateNewWidth` sums up
  telescope to no more than that (`TotalIsBounded`, `WidthIsNumber`).
  `ShortDelays` states the results for every behaviour of `Spec` then.  Longer
  delays, which scenarios do have, are the reason to keep the general form.

From these:

- `StructureKept` (`InOrder`), `EarlyPeeks` (`EarlyPeekIsNext`),
  `SchedulersImplementEventList` (`ListKept`, the refinement) and `NextEarliest`
  (what `scheduler.h` says of `RemoveNext`).

The invariant is `SchedulersInv`: the scheduler is `Sound`, which is a sorted
list, a heap without repetitions or a calendar whose buckets are filed, whose
search stands on the day of the last event and whose size counts
(`Arranged`, `Counted`); the time the calendar stands at is not after the clock, no
event is before the clock, and no uid is used twice.  `InOrder` alone is not
inductive: `Remove` finds an event by its uid, so uids must differ, and the
search of a calendar overtakes no event only because nothing is inserted before
the day it starts from.

- *One lemma per operation of the interface* (`EmptySound`, `WithEventSound`,
  `NextEventIsEarliest`, `WithoutNextSound`, `WithoutEventSound`,
  `TransferredSound`) joins what is proved of each data structure; the step
  lemmas and the refinement follow from these without a look inside.
- *The heap*: after a turn of `BottomUp` only the rising element may be less than
  its parent, after a turn of `TopDown` only children of the sinking one; either
  gets nearer to its end in every turn (`RiseKeeps`, `SinkKeeps`).
- *The calendar*: step j of the search looks at the j-th day from the last
  event's (`SearchDays`), so the first hit is the earliest event of all, and
  without a hit in a year the comparison of the first events finds it
  (`NextKeyIsEarliest`).  It rests on quotients and remainders: days grow with
  time, and two days share a bucket only a whole year apart (`ModUnique`).

### Tools (`ToolProofs`)

- `EveryJobIsKept` and `ExitCodeIsHonest` from `TestInv`, for any number of
  workers and tests: each test is on one queue, in one worker's hands or
  received; the jobs that stop a worker stand behind all tests, so a worker that
  has one or has left finds no test in the queue; and the counters are the
  numbers of the jobs received with each outcome.
- `PlayingIsTimed` (`PlayHasTimer`), for any depth of calls and number of timers.
  It is inductive: `_update_timeout_id` comes to name nothing, or a timer that is
  gone, only when the button is released, when a call returns while it is
  released, and in `_quit`; and each press of the button names a timer anew,
  also one inside of a call that began in pause.

### Only model-checked

- Liveness (`PathReached`, `Terminates`, `RunsAgain`, `PausedViewRests`,
  `QuitEnds`): the prover does no `ENABLED` and no leads-to.
- Of `MihHandover` with preemption or dependent devices, whatever needs
  `EqualQos` or `NoForcing` above is claimed by no run.

## 6. Seen on the way

Behaviour met while modelling that no run is about:

- A request that leaves the choice to the network falls back to technology 3
  when the closest chart is full (`network-manager.cc:230`).  For a device that is
  on LTE the old chart is then the new one, and `RemoveSub` (l.138) takes off the
  entry `AddRouting` has just put on the list: the device is connected without
  being among "The Subscribers connected to this network" (`netchart.h:76`).
  `CountedOnce` is false with dependent devices for this reason.
- "if we're paused, stop the update timer" (`core.py:1086`): a call of the view that
  returns in pause stops its own timer and forgets the one `_update_timeout_id`
  names.  A timer that a speed change has started inside of that call goes on and
  cannot be removed; pressing play makes two.
- `CalendarScheduler::PeekNext` starts its minimum at time 2^32 - 1, so it
  returns a null event when the next one is later and not of the current year.
  The default simulator never calls it; `EarlyPeekIsNext` states what does hold.
- Events handed over after the last poll stay in `m_eventsWithContext` when `Run`
  returns; a `Stop` called before `Run` is lost.
- `test.py` writes `<Result>CRASH</Suite>` for a suite that crashed, which is not
  well-formed, and its VALGR entry stands in a branch that excludes return
  code 2.  A worker that raises leaves `run_tests` waiting.
- `SetNetDevices` takes the callback of the loopback device as well.

## 7. What is not modelled

Sending data packets, the address and ARP side of `Activate`, multicast routes,
how the PHYs compute a link quality, the access technologies' own protocols, the
scenarios (their constants are the instances), the real-time and the distributed
simulator, what the visualizer draws, the rest of ns-3 (whose models are
protocols of their own, not the logic of this work), the second copy of the
simulator in `src/lena` and everything generated, which is most of the tree: the
Python files are bindings, 500 of them, that contain no behaviour.  PROJECT.json
gives the reason component by component.
