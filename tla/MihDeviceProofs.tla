-------------------------- MODULE MihDeviceProofs --------------------------
(***************************************************************************)
(* Theorems about LinkEvaluation and MihDevice, for any reports, any       *)
(* length of a second and any delays that EvaluationAssumption allows.     *)
(***************************************************************************)
EXTENDS MihDevice, TLAPS

----------------------------------------------------------------------------
(* Whole seconds.                                                          *)

\* A point of time lies in its second.
LEMMA InSecond ==
  ASSUME NEW n \in Nat, NEW p \in Nat \ {0}
  PROVE  /\ n \div p \in Nat /\ n \div p <= n
         /\ (n \div p) * p <= n /\ n < (n \div p + 1) * p
<1>1. n = p * (n \div p) + (n % p) /\ n % p \in 0..p - 1 /\ n \div p \in Nat
  OBVIOUS
<1>2. PICK q \in Nat : q = n \div p
  BY <1>1
<1>3. PICK r \in 0..p - 1 : r = n % p
  BY <1>1
<1>4. n = p * q + r
  BY <1>1, <1>2, <1>3
<1>5. (q + 1) * p = p * q + p /\ q * p = p * q /\ p * q \in Nat
  OBVIOUS
<1>6. q <= p * q
  OBVIOUS
<1> QED
  BY <1>2, <1>4, <1>5, <1>6

\* The back-off from the second of a request outlasts ActivateDelay, and is at
\* least MinGap long.
LEMMA BackOffLasts ==
  ASSUME NEW s \in Nat, NEW a \in Int, NEW n \in Int,
         a < (s + 1) * PerSecond, n > (s + BackOff) * PerSecond
  PROVE  a + ActivateDelay < n /\ a + MinGap <= n
<1> DEFINE P == PerSecond
           G == (BackOff - 1) * P
<1>1. P \in Nat /\ BackOff \in Nat /\ BackOff - 1 \in Nat /\ G \in Int
      /\ ActivateDelay \in Nat /\ ActivateDelay <= G
  BY EvaluationAssumption
<1>2. (s + BackOff) * P = (s + 1) * P + G
  BY <1>1
<1>3. (s + 1) * P \in Int /\ MinGap = G + 2
  BY <1>1 DEF MinGap
<1> HIDE DEF P, G
<1>4. PICK b \in Int : b = (s + 1) * P
  BY <1>3
<1>5. a < b /\ n > b + G
  BY <1>2, <1>4 DEF P
<1> QED
  BY <1>1, <1>3, <1>5

----------------------------------------------------------------------------
(* One switch at a time.                                                   *)

Pending == [tech : Tech, due : now..MaxTime + ActivateDelay]

(* A pending switch was scheduled by the last request, and m_timeout holds *)
(* the second of that request or a later one.                              *)
LinkInv ==
  /\ TypeOK
  /\ asked < (timeout + 1) * PerSecond
  /\ switches # <<>> =>
       Len(switches) = 1 /\ switches[1].due = asked + ActivateDelay

\* The estimates, the warnings and their timer.
LinksTyped ==
  /\ losingAt \in -3..MaxTime
  /\ quality \in [Tech -> Nat] /\ hop \in [Tech -> BOOLEAN]

\* A device past its back-off has no switch pending.
LEMMA LinkInvMeans == LinkInv => OneAtATime
<1> SUFFICES ASSUME LinkInv, Past(timeout, BackOff), switches # <<>> PROVE FALSE
  BY DEF OneAtATime
<1>1. /\ switches \in Seq(Pending) /\ Len(switches) = 1
      /\ switches[1].due = asked + ActivateDelay
      /\ timeout \in Nat /\ asked \in Int /\ now \in Nat
      /\ asked < (timeout + 1) * PerSecond /\ now > (timeout + BackOff) * PerSecond
  BY EvaluationAssumption DEF LinkInv, TypeOK, Pending, Past
<1>2. asked + ActivateDelay < now
  BY <1>1, BackOffLasts
<1>3. switches[1] \in Pending
  BY <1>1
<1>4. switches[1].due >= now
  BY <1>1, <1>3, EvaluationAssumption DEF Pending
<1> QED
  BY <1>1, <1>2, <1>4, EvaluationAssumption

\* A report keeps the types of the estimates.
LEMMA SetLinkType ==
  ASSUME LinksTyped, NEW t \in Tech, NEW q \in Nat, NEW h \in BOOLEAN, SetLink(t, q, h)
  PROVE  quality' \in [Tech -> Nat] /\ hop' \in [Tech -> BOOLEAN]
BY DEF LinksTyped, SetLink

LEMMA ReportType ==
  ASSUME LinksTyped, now \in 0..MaxTime,
         NEW t \in Tech, NEW fast \in BOOLEAN,
         \/ t = Wifi /\ \E x \in WifiReports : WifiReport(x, fast)
         \/ t = Wimax /\ \E x \in WimaxReports : WimaxReport(x)
         \/ t = Lte /\ LteReport
  PROVE  LinksTyped'
<1>0. Wifi \in Tech /\ Wimax \in Tech /\ Lte \in Tech
  BY DEF Tech
<1>1. CASE \E x \in WifiReports : WifiReport(x, fast)
  <2>1. PICK x \in Nat : WifiReport(x, fast)
    BY <1>1, EvaluationAssumption
  <2>2. quality[Wifi] \in Nat
    BY <1>0 DEF LinksTyped
  <2>3. PICK q \in Nat, h \in BOOLEAN : SetLink(Wifi, q, h)
    <3>1. \/ SetLink(Wifi, 1, FALSE) \/ SetLink(Wifi, quality[Wifi], TRUE)
          \/ SetLink(Wifi, x, FALSE)
      BY <2>1 DEF WifiReport, SetLink
    <3>2. 1 \in Nat
      OBVIOUS
    <3> QED
      BY <2>2, <3>1, <3>2, Zenon
  <2>4. losingAt' = losingAt
    BY <2>1 DEF WifiReport
  <2> QED
    BY <1>0, <2>3, <2>4, SetLinkType DEF LinksTyped
<1>2. CASE \E x \in WimaxReports : WimaxReport(x)
  <2>1. PICK x \in Nat : WimaxReport(x)
    BY <1>2, EvaluationAssumption
  <2>2. quality[Wimax] \in Nat /\ hop[Wimax] \in BOOLEAN
    BY <1>0 DEF LinksTyped
  <2>3. UNCHANGED <<quality, hop>> \/ \E q \in Nat, h \in BOOLEAN : SetLink(Wimax, q, h)
    <3> DEFINE kept == hop[Wimax] /\ ~Past(losingAt, 2)
    <3>1. \/ UNCHANGED <<quality, hop>> \/ SetLink(Wimax, quality[Wimax], TRUE)
          \/ SetLink(Wimax, 0, FALSE) \/ SetLink(Wimax, x, kept)
      BY <2>1 DEF WimaxReport, SetLink
    <3>2. 0 \in Nat /\ kept \in BOOLEAN
      OBVIOUS
    <3> QED
      BY <2>1, <2>2, <3>1, <3>2, Zenon
  <2>4. losingAt' \in -3..MaxTime
    <3>1. Second \in Nat /\ Second <= now
      BY InSecond, EvaluationAssumption DEF Second
    <3>2. losingAt' = losingAt \/ losingAt' = Second
      BY <2>1 DEF WimaxReport, SetLink
    <3> QED
      BY <3>1, <3>2, EvaluationAssumption DEF LinksTyped
  <2> QED
    BY <1>0, <2>3, <2>4, SetLinkType DEF LinksTyped
<1>3. CASE LteReport
  <2>1. quality[Lte] \in Nat
    BY <1>0 DEF LinksTyped
  <2>2. PICK q \in Nat, h \in BOOLEAN : SetLink(Lte, q, h)
    BY <1>3, <2>1, EvaluationAssumption DEF LteReport
  <2>3. losingAt' = losingAt
    BY <1>3 DEF LteReport
  <2> QED
    BY <1>0, <2>2, <2>3, SetLinkType DEF LinksTyped
<1> QED
  BY <1>1, <1>2, <1>3

\* eval () makes a request, or leaves everything as it is.  A request is made
\* past the back-off, for technologies of the list.
LEMMA EvaluateMeans ==
  ASSUME NEW fast, Evaluate(fast)
  PROVE  \/ UNCHANGED <<timeout, switches, asked>>
         \/ /\ Past(timeout, BackOff)
            /\ \E ts \in SUBSET Tech :
                 /\ Request(ts)
                 /\ ~dependent => ts \subseteq Tech \ {active}
BY DEF Evaluate, Wanted

\* A request schedules the only switch there is.
LEMMA RequestStep ==
  ASSUME LinkInv, Past(timeout, BackOff), NEW ts \in SUBSET Tech, Request(ts),
         UNCHANGED <<dependent, now, active>>, LinksTyped'
  PROVE  LinkInv'
<1>1. switches = <<>>
  BY LinkInvMeans DEF OneAtATime
<1>2. /\ timeout' = Second /\ asked' = now
      /\ Second \in 0..MaxTime /\ now < (Second + 1) * PerSecond
      /\ now \in 0..MaxTime
  <2>1. timeout' = Second /\ asked' = now /\ now \in 0..MaxTime
    BY DEF Request, LinkInv, TypeOK
  <2>2. now \in Nat /\ PerSecond \in Nat \ {0} /\ MaxTime \in Nat
    BY <2>1, EvaluationAssumption
  <2>3. /\ Second \in Nat /\ Second <= now
        /\ now < (Second + 1) * PerSecond
    BY <2>2, InSecond DEF Second
  <2> QED
    BY <2>1, <2>2, <2>3
<1>3. \/ switches' = <<>>
      \/ \E t \in Tech : switches' = <<[tech |-> t, due |-> now + ActivateDelay]>>
  BY <1>1 DEF Request, Granted
<1>4. ActivateDelay \in Nat /\ MaxTime \in Nat
  BY EvaluationAssumption
<1>5. /\ switches' \in Seq(Pending)
      /\ switches' # <<>> =>
           Len(switches') = 1 /\ switches'[1].due = now + ActivateDelay
  <2>1. CASE switches' = <<>>
    BY <2>1
  <2>2. ASSUME NEW t \in Tech, switches' = <<[tech |-> t, due |-> now + ActivateDelay]>>
        PROVE  <1>5
    <3> DEFINE r == [tech |-> t, due |-> now + ActivateDelay]
    <3>1. r \in Pending /\ r.due = now + ActivateDelay
      BY <1>2, <1>4 DEF Pending
    <3> QED
      BY <2>2, <3>1
  <2> QED
    BY <1>3, <2>1, <2>2
<1>6. TypeOK'
  BY <1>2, <1>5 DEF LinkInv, TypeOK, LinksTyped, Pending
<1> QED
  BY <1>2, <1>5, <1>6 DEF LinkInv

\* A reported frame, a switch of the radio and the clock keep the invariant.
LEMMA UpdateStep ==
  ASSUME LinkInv, NEW t \in Tech, UpdateParameter(t)
  PROVE  LinkInv'
<1>1. PICK fast \in BOOLEAN :
        /\ \/ t = Wifi /\ \E x \in WifiReports : WifiReport(x, fast)
           \/ t = Wimax /\ \E x \in WimaxReports : WimaxReport(x)
           \/ t = Lte /\ LteReport
        /\ Evaluate(fast)
  BY DEF UpdateParameter
<1>2. UNCHANGED <<dependent, now, active>>
  BY DEF UpdateParameter
<1>3. LinksTyped'
  BY <1>1, ReportType DEF LinkInv, TypeOK, LinksTyped
<1>4. CASE UNCHANGED <<timeout, switches, asked>>
  BY <1>2, <1>3, <1>4 DEF LinkInv, TypeOK, LinksTyped
<1> QED
  BY <1>1, <1>2, <1>3, <1>4, EvaluateMeans, RequestStep

LEMMA ActivateStep == ASSUME LinkInv, Activate PROVE LinkInv'
<1>1. /\ switches \in Seq(Pending) /\ Len(switches) = 1
      /\ switches' = Tail(switches) /\ active' = Head(switches).tech
      /\ UNCHANGED <<dependent, now, links, timeout, asked>>
  BY DEF Activate, LinkInv, TypeOK, Pending
<1>2. Head(switches) \in Pending /\ switches' = <<>>
  <2>1. switches # <<>> /\ Head(switches) = switches[1]
    BY <1>1
  <2>2. Tail(switches) \in Seq(Pending) /\ Len(Tail(switches)) = 0
    BY <1>1, <2>1
  <2>3. \A q \in Seq(Pending) : Len(q) = 0 => q = <<>>
    OBVIOUS
  <2> QED
    BY <1>1, <2>1, <2>2, <2>3
<1>3. active' \in Tech
  BY <1>1, <1>2 DEF Pending
<1>4. TypeOK'
  <2>1. switches' \in Seq([tech : Tech, due : now' .. MaxTime + ActivateDelay])
    BY <1>2
  <2> QED
    BY <1>1, <1>3, <2>1 DEF LinkInv, TypeOK, links
<1> QED
  BY <1>1, <1>2, <1>4 DEF LinkInv

LEMMA TickStep == ASSUME LinkInv, Tick PROVE LinkInv'
<1>1. /\ now' = now + 1 /\ now \in 0..MaxTime /\ now < MaxTime /\ MaxTime \in Nat
      /\ UNCHANGED <<dependent, links, timeout, active, switches, asked>>
      /\ switches \in Seq(Pending) /\ ActivateDelay \in Nat
  BY EvaluationAssumption DEF Tick, LinkInv, TypeOK, Pending
<1>2. switches \in Seq([tech : Tech, due : now + 1 .. MaxTime + ActivateDelay])
  <2>1. CASE switches = <<>>
    BY <2>1
  <2>2. CASE switches # <<>>
    <3>1. Len(switches) = 1 /\ DOMAIN switches = 1..1
      BY <1>1, <2>2 DEF LinkInv
    <3>2. switches[1] \in Pending /\ switches[1].due > now
      BY <1>1, <3>1 DEF Tick, NothingDue
    <3>3. switches[1] \in [tech : Tech, due : now + 1 .. MaxTime + ActivateDelay]
      BY <1>1, <3>2 DEF Pending
    <3>4. switches = [k \in 1..1 |-> switches[1]]
      BY <1>1, <3>1
    <3> QED
      BY <3>3, <3>4
  <2> QED
    BY <2>1, <2>2
<1>3. TypeOK'
  BY <1>1, <1>2 DEF LinkInv, TypeOK, links
<1> QED
  BY <1>1, <1>3 DEF LinkInv

\* The inductive invariant.
LEMMA LinkInvHolds == DeviceSpec => []LinkInv
<1>1. ASSUME DeviceInit PROVE LinkInv
  <2>1. /\ dependent \in BOOLEAN /\ now = 0 /\ quality = InitialQuality
        /\ hop = [t \in Tech |-> FALSE] /\ losingAt = -3 /\ timeout = 0
        /\ active \in Tech /\ switches = <<>>
        /\ asked = -(BackOff + 1) * PerSecond
    BY <1>1 DEF DeviceInit, Init
  <2>2. quality \in [Tech -> Nat]
    BY <2>1 DEF InitialQuality
  <2>3. asked \in Int /\ asked <= 0 /\ asked < (timeout + 1) * PerSecond
    <3>1. PerSecond \in Nat /\ PerSecond > 0 /\ BackOff + 1 \in Nat
      BY EvaluationAssumption
    <3>2. (BackOff + 1) * PerSecond \in Nat
      BY <3>1
    <3>3. asked = -((BackOff + 1) * PerSecond)
      BY <2>1, <3>1
    <3> QED
      BY <2>1, <3>1, <3>2, <3>3
  <2>4. TypeOK
    BY <2>1, <2>2, <2>3, EvaluationAssumption DEF TypeOK
  <2> QED
    BY <2>1, <2>3, <2>4 DEF LinkInv
<1>2. ASSUME LinkInv, [DeviceNext]_deviceVars PROVE LinkInv'
  <2>1. CASE UNCHANGED deviceVars
    BY <1>2, <2>1 DEF deviceVars, evalVars, links, LinkInv, TypeOK
  <2> QED
    BY <1>2, <2>1, UpdateStep, ActivateStep, TickStep
       DEF DeviceNext, Receive, SwitchRadio, DeviceTick
<1> QED
  BY <1>1, <1>2, PTL DEF DeviceSpec

\* Every variable keeps its type; no switch of the radio is ever overdue.
THEOREM LinksAreTyped == DeviceSpec => []TypeOK
<1>1. LinkInv => TypeOK
  BY DEF LinkInv
<1> QED
  BY <1>1, LinkInvHolds, PTL

\* eval () may ask again only when no switch of the radio is pending, although
\* m_timeout is cut to whole seconds.
THEOREM OneSwitchAtATime == DeviceSpec => []OneAtATime
<1> QED
  BY LinkInvMeans, LinkInvHolds, PTL

----------------------------------------------------------------------------
(* What eval () wants.                                                     *)

\* The three rates have at most one order.
LEMMA RatedOnce ==
  ASSUME NEW q \in [Tech -> Nat], NEW r \in Rated(q), NEW s \in Rated(q)
  PROVE  r = s
<1>1. q[Wifi] \in Nat /\ q[Wimax] \in Nat /\ q[Lte] \in Nat
  BY DEF Tech
<1> DEFINE w == 4 * q[Wifi]
           x == 2 * q[Wimax]
           c == q[Lte]
           Order(p) == \/ p = <<Wifi, Lte>> /\ w > x /\ w > c /\ c > x
                       \/ p = <<Wifi, Wimax>> /\ w > x /\ w > c /\ c <= x
                       \/ p = <<Wimax, Wifi>> /\ w < x /\ w > c
                       \/ p = <<Lte, Wifi>> /\ w > x /\ w < c
                       \/ p = <<Wimax, Lte>> /\ w < x /\ w < c /\ x > c
                       \/ p = <<Lte, Wimax>> /\ w < x /\ w < c /\ x < c
<1>2. w \in Nat /\ x \in Nat /\ c \in Nat
  BY <1>1
<1>3. Order(r) /\ Order(s)
  BY DEF Rated
<1> HIDE DEF w, x, c
<1> QED
  BY <1>2, <1>3

\* A device that gets what it wants, wants nothing else.
LEMMA WantedIsWhere ==
  ASSUME NEW q \in [Tech -> Nat], NEW h, NEW a, NEW fast,
         NEW t \in Wanted(q, h, a, fast)
  PROVE  Wanted(q, h, t, fast) = {}
<1> SUFFICES ASSUME NEW u \in Wanted(q, h, t, fast) PROVE FALSE
  OBVIOUS
<1>1. PICK r \in Rated(q) : (h[r[1]] /\ t = r[2]) \/ (~h[r[1]] /\ t = r[1])
  BY DEF Wanted
<1>2. PICK s \in Rated(q) : (h[s[1]] /\ u = s[2]) \/ (~h[s[1]] /\ u = s[1])
  BY DEF Wanted
<1>3. r = s
  BY RatedOnce
<1>4. u # t
  BY DEF Wanted
<1> QED
  BY <1>1, <1>2, <1>3, <1>4

\* With the same estimates a device does not ask to leave again the network it
\* asked for, wherever it is.
THEOREM NeverPingPong == DeviceSpec => []NoPingPong
<1>1. LinkInv => NoPingPong
  BY WantedIsWhere DEF LinkInv, TypeOK, NoPingPong
<1> QED
  BY <1>1, LinkInvHolds, PTL

\* A lost network is asked for only as an escape: the best one is never lost.
THEOREM BlindEscapesOnly == DeviceSpec => []OnlyEscapesAreBlind
<1>1. ASSUME LinkInv PROVE OnlyEscapesAreBlind
  <2>1. quality \in [Tech -> Nat]
    BY <1>1 DEF LinkInv, TypeOK
  <2> SUFFICES ASSUME NEW fast \in BOOLEAN, NEW a \in Tech,
                      NEW t \in Wanted(quality, hop, a, fast), Lost(t)
               PROVE  \E r \in Rated(quality) : r[2] = t /\ hop[r[1]]
    BY DEF OnlyEscapesAreBlind
  <2>2. PICK r \in Rated(quality) :
          \/ hop[r[1]] /\ t = r[2]
          \/ ~hop[r[1]] /\ t = r[1] /\ (t = Wifi => ~fast /\ quality[Wifi] > 1)
    BY DEF Wanted
  <2>3. CASE t = r[1] /\ (t = Wifi => quality[Wifi] > 1)
    <3>1. quality[Wifi] \in Nat /\ quality[Wimax] \in Nat /\ quality[Lte] \in Nat
      BY <2>1 DEF Tech
    <3>2. t # Wifi
      BY <2>3, <3>1 DEF Lost
    <3>3. quality[t] = 0
      BY <3>2 DEF Lost
    <3>4. \/ t = Wimax /\ 4 * quality[Wifi] < 2 * quality[Wimax]
          \/ t = Lte /\ 4 * quality[Wifi] < quality[Lte]
      BY <2>3, <3>2 DEF Rated
    <3> QED
      BY <3>1, <3>3, <3>4
  <2> QED
    BY <2>2, <2>3
<1> QED
  BY <1>1, LinkInvHolds, PTL

----------------------------------------------------------------------------
(* The receive callbacks.                                                  *)

\* The node gets the frames of the active device if that needs ARP; the MIH
\* device gets all others.
Receivers ==
  /\ active \in Tech
  /\ receiver = [t \in Tech |-> IF t = active /\ NeedsArp(t) THEN "node" ELSE "mih"]

LEMMA ReceiversHold == DeviceSpec => []Receivers
<1>1. ASSUME DeviceInit PROVE Receivers
  BY <1>1 DEF DeviceInit, Init, Receivers, Appropriated
<1>2. ASSUME LinkInv, LinkInv', Receivers, [DeviceNext]_deviceVars PROVE Receivers'
  <2>1. CASE SwitchRadio
    <3>1. active' \in Tech
      BY <1>2 DEF LinkInv, TypeOK
    <3> QED
      BY <1>2, <2>1, <3>1 DEF SwitchRadio, Receivers, Appropriated
  <2>2. CASE UNCHANGED <<active, receiver>>
    BY <1>2, <2>2 DEF Receivers
  <2> QED
    BY <1>2, <2>1, <2>2
       DEF DeviceNext, Receive, UpdateParameter, DeviceTick, Tick, deviceVars, evalVars
<1> QED
  BY <1>1, <1>2, LinkInvHolds, PTL DEF DeviceSpec

\* However often the radio is switched, the stack hears the active device and
\* no other.
THEOREM StackHearsActive == DeviceSpec => []StackSeesActive
<1>1. ASSUME Receivers PROVE StackSeesActive
  <2> SUFFICES ASSUME NEW t \in Tech, NEW f \in Frames(t)
               PROVE  Handed(t, f) = IF t = active /\ f.data
                                     THEN {IF NeedsArp(t) THEN t ELSE "mih"} ELSE {}
    BY DEF StackSeesActive
  <2>1. receiver[t] = IF t = active /\ NeedsArp(t) THEN "node" ELSE "mih"
    BY <1>1 DEF Receivers
  <2>2. CASE t = Wifi
    <3>1. f.tag /\ f.data
      BY <2>2 DEF Frames
    <3> QED
      BY <2>1, <2>2, <3>1 DEF Handed, PassedOn, NeedsArp
  <2>3. CASE t # Wifi
    <3>1. (f.tag /\ ~f.data) \/ (~f.tag /\ f.data)
      BY <2>3 DEF Frames
    <3> QED
      BY <2>1, <2>3, <3>1 DEF Handed, PassedOn, NeedsArp
  <2> QED
    BY <2>2, <2>3
<1> QED
  BY <1>1, ReceiversHold, PTL

\* No report is counted twice or lost, whichever device it comes from.
THEOREM ReportsCountOnce == DeviceSpec => []ReportedOnce
<1>1. ASSUME Receivers PROVE ReportedOnce
  BY <1>1 DEF Receivers, ReportedOnce, Reported, PassedOn, NeedsArp
<1> QED
  BY <1>1, ReceiversHold, PTL

----------------------------------------------------------------------------
(* The device implements HandoverRequests.                                 *)

\* The switches of HandoverRequests: what is left instead of when they are due.
Mapped == [k \in DOMAIN switches |->
             [tech |-> switches[k].tech, left |-> switches[k].due - now]]

\* MinGap and the time left until the next request are what HandoverRequests
\* takes them for.
LEMMA RemainingMeans ==
  ASSUME LinkInv
  PROVE  /\ MinGap \in Nat /\ MinGap > 0 /\ now \in Nat /\ asked \in Int
         /\ Remaining \in Nat
         /\ Past(timeout, BackOff) => Remaining = 0
<1>1. PerSecond \in Nat /\ BackOff - 1 \in Nat /\ BackOff \in Nat
  BY EvaluationAssumption
<1>2. MinGap \in Nat /\ MinGap > 0
  <2>1. (BackOff - 1) * PerSecond \in Nat
    BY <1>1
  <2> QED
    BY <2>1 DEF MinGap
<1>3. now \in Nat /\ asked \in Int /\ timeout \in Nat
  BY EvaluationAssumption DEF LinkInv, TypeOK
<1>4. Past(timeout, BackOff) => asked + MinGap <= now
  BY <1>3, BackOffLasts DEF LinkInv, Past
<1> QED
  BY <1>2, <1>3, <1>4 DEF Remaining

\* UpdateParameter is a request, or nothing HandoverRequests sees.
LEMMA UpdateAsks ==
  ASSUME LinkInv, NEW t \in Tech, UpdateParameter(t)
  PROVE  Requests!Ask \/ UNCHANGED Requests!requestVars
<1>1. PICK fast \in BOOLEAN : Evaluate(fast)
  BY DEF UpdateParameter
<1>2. UNCHANGED <<dependent, now, active>>
  BY DEF UpdateParameter
<1>3. CASE UNCHANGED <<timeout, switches, asked>>
  BY <1>2, <1>3 DEF Requests!requestVars, Remaining
<1>4. ASSUME NEW ts \in SUBSET Tech, Past(timeout, BackOff), Request(ts),
             ~dependent => ts \subseteq Tech \ {active}
      PROVE  Requests!Ask
  <2>1. switches = <<>> /\ Remaining = 0
    BY <1>4, LinkInvMeans, RemainingMeans DEF OneAtATime
  <2>2. Remaining' = MinGap
    <3>1. asked' = now /\ now' = now
      BY <1>2, <1>4 DEF Request
    <3> QED
      BY <3>1, RemainingMeans DEF Remaining
  <2>3. Mapped = <<>>
    <3>1. Mapped = [k \in {} |-> [tech |-> switches[k].tech, left |-> switches[k].due - now]]
      BY <2>1 DEF Mapped
    <3> QED
      BY <3>1
  <2>4. CASE UNCHANGED switches
    <3>1. Mapped' = Mapped
      BY <1>2, <2>4 DEF Mapped
    <3> QED
      BY <1>2, <2>1, <2>2, <3>1 DEF Requests!Ask, Mapped
  <2>5. ASSUME NEW u \in ts, Granted(u) PROVE Requests!Ask
    <3> DEFINE r == [tech |-> u, due |-> now + ActivateDelay]
               m == [tech |-> u, left |-> ActivateDelay]
    <3>1. switches' = <<r>>
      BY <2>1, <2>5 DEF Granted
    <3>2. DOMAIN switches' = 1..1 /\ switches'[1] = r
      BY <3>1
    <3>3. r.tech = u /\ r.due - now' = ActivateDelay
      BY <1>2, RemainingMeans, EvaluationAssumption
    <3>4. Mapped' = [k \in 1..1 |-> m]
      BY <3>2, <3>3 DEF Mapped
    <3>5. Mapped' = Append(Mapped, m)
      BY <2>3, <3>4
    <3>6. u \in Requests!Answers
      BY <1>4 DEF Requests!Answers
    <3> QED
      BY <1>2, <2>1, <2>2, <3>5, <3>6 DEF Requests!Ask, Mapped
  <2> QED
    BY <1>4, <2>4, <2>5 DEF Request
<1> QED
  BY <1>1, <1>3, <1>4, EvaluateMeans

\* An Activate that is due is a switch with nothing left.
LEMMA ActivateSwitches ==
  ASSUME LinkInv, LinkInv', Activate
  PROVE  Requests!Switch
<1>1. /\ switches \in Seq(Pending) /\ Len(switches) = 1
      /\ switches # <<>> /\ Head(switches).due = now
      /\ switches' = Tail(switches) /\ active' = Head(switches).tech
      /\ UNCHANGED <<dependent, now, asked>>
  BY DEF Activate, LinkInv, TypeOK, Pending, links
<1>2. /\ DOMAIN switches = 1..1 /\ Head(switches) = switches[1]
      /\ now \in Nat
  BY <1>1, RemainingMeans
<1> DEFINE m == [tech |-> switches[1].tech, left |-> switches[1].due - now]
<1>3. Mapped = [k \in 1..1 |-> m] /\ m.left = 0 /\ m.tech = active'
  BY <1>1, <1>2 DEF Mapped
<1>4. Mapped = <<m>>
  BY <1>3
<1>5. Mapped # <<>> /\ Head(Mapped) = m /\ Tail(Mapped) = <<>>
  BY <1>4
<1>6. Mapped' = <<>>
  <2>1. Len(switches') = 0 /\ switches' \in Seq(Pending)
    BY <1>1
  <2>2. DOMAIN switches' = {}
    BY <2>1
  <2>3. Mapped' = [k \in {} |-> [tech |-> switches'[k].tech, left |-> switches'[k].due - now']]
    BY <2>2 DEF Mapped
  <2> QED
    BY <2>3
<1>7. Remaining' = Remaining
  BY <1>1 DEF Remaining
<1> QED
  BY <1>1, <1>3, <1>5, <1>6, <1>7 DEF Requests!Switch, Mapped

\* The clock runs both of them down.
LEMMA TickPasses ==
  ASSUME LinkInv, Tick
  PROVE  Requests!Tick
<1>1. /\ now' = now + 1 /\ now \in Nat /\ asked \in Int
      /\ UNCHANGED <<dependent, active, switches, asked>>
      /\ switches \in Seq(Pending)
  BY RemainingMeans DEF Tick, LinkInv, TypeOK, Pending
<1>2. \A k \in DOMAIN switches :
        switches[k].due \in Int /\ switches[k].due > now
  <2> TAKE k \in DOMAIN switches
  <2>1. switches[k] \in Pending
    BY <1>1
  <2> QED
    BY <1>1, <2>1, EvaluationAssumption DEF Pending, Tick, NothingDue
<1>3. DOMAIN Mapped = DOMAIN switches
  BY DEF Mapped
<1>4. \A k \in DOMAIN switches : Mapped[k].left > 0
  BY <1>1, <1>2 DEF Mapped
<1>5. Mapped' = [k \in DOMAIN Mapped |-> [Mapped[k] EXCEPT !.left = @ - 1]]
  <2>1. \A k \in DOMAIN switches :
          switches[k].due - now' = (switches[k].due - now) - 1
    BY <1>1, <1>2
  <2>2. Mapped' = [k \in DOMAIN switches |->
                     [tech |-> switches[k].tech, left |-> switches[k].due - now']]
    BY <1>1 DEF Mapped
  <2>3. \A k \in DOMAIN switches :
          [Mapped[k] EXCEPT !.left = @ - 1]
            = [tech |-> switches[k].tech, left |-> switches[k].due - now']
    BY <2>1 DEF Mapped
  <2> QED
    BY <1>3, <2>2, <2>3
<1>6. Remaining' = IF Remaining = 0 THEN 0 ELSE Remaining - 1
  BY <1>1, RemainingMeans DEF Remaining, MinGap
<1> QED
  BY <1>1, <1>3, <1>4, <1>5, <1>6 DEF Requests!Tick, Requests!NothingDue, Mapped

\* A MihNetDevice keeps what the network manager relies on: what is proved of
\* HandoverRequests holds of it.
THEOREM DeviceKeepsRequests == DeviceSpec => RequestsKept
<1>1. ASSUME DeviceInit PROVE Requests!Init
  <2>1. /\ switches = <<>> /\ now = 0 /\ asked = -(BackOff + 1) * PerSecond
        /\ dependent \in BOOLEAN /\ active \in Tech
    BY <1>1 DEF DeviceInit, Init
  <2>2. Mapped = <<>>
    <3>1. Mapped = [k \in {} |-> [tech |-> switches[k].tech, left |-> switches[k].due - now]]
      BY <2>1 DEF Mapped
    <3> QED
      BY <3>1
  <2>3. Remaining = 0
    <3>1. PerSecond \in Nat \ {0} /\ BackOff \in Nat
      BY EvaluationAssumption
    <3>2. asked + MinGap = 2 - 2 * PerSecond
      BY <2>1, <3>1 DEF MinGap
    <3> QED
      BY <2>1, <3>1, <3>2 DEF Remaining
  <2> QED
    BY <2>1, <2>2, <2>3 DEF Requests!Init, Mapped
<1>2. ASSUME LinkInv, LinkInv', [DeviceNext]_deviceVars
      PROVE  [Requests!Next]_(Requests!requestVars)
  <2>1. CASE UNCHANGED deviceVars
    BY <2>1 DEF deviceVars, evalVars, Requests!requestVars, Remaining
  <2> QED
    BY <1>2, <2>1, UpdateAsks, ActivateSwitches, TickPasses
       DEF DeviceNext, Receive, SwitchRadio, DeviceTick, Requests!Next
<1> QED
  BY <1>1, <1>2, LinkInvHolds, PTL DEF DeviceSpec, RequestsKept, Requests!Spec
============================================================================
