--------------------------- MODULE LinkEvaluation ---------------------------
(***************************************************************************)
(* The estimates a MihNetDevice keeps of its three links and the requests  *)
(* it makes of the network: MihNetDevice::UpdateParameter, called for      *)
(* every received frame that carries a MihTag, and eval ().                *)
(*                                                                         *)
(* Time is counted in ticks, PerSecond of them in a second; m_timeout and  *)
(* timeout_wimax are ints and hold whole seconds.                          *)
(***************************************************************************)
EXTENDS Integers, Sequences

CONSTANTS
  PerSecond,      \* ticks in a second
  WarmUp,         \* 10: seconds before which no request is made
  BackOff,        \* 10: seconds from m_timeout to the next request
  ActivateDelay,  \* 0.05 s, in ticks
  WifiReports,    \* parameters of tags with command 1
  WimaxReports,   \* parameters of tags with command 2
  LteRates,       \* rates of the tags with command 3 of a good link
  MaxTime         \* model bound on the clock

Wifi == 1
Wimax == 2
Lte == 3
Tech == {Wifi, Wimax, Lte}

ASSUME EvaluationAssumption ==
  /\ PerSecond \in Nat \ {0} /\ WarmUp \in Nat /\ BackOff \in Nat \ {0}
  /\ ActivateDelay \in Nat /\ ActivateDelay <= (BackOff - 1) * PerSecond
  /\ WifiReports \subseteq Nat /\ WimaxReports \subseteq Nat
  /\ LteRates \subseteq Nat
  /\ MaxTime \in Nat

VARIABLES
  dependent, \* m_dependent: the network chooses for the device
  now,       \* Simulator::Now (), in ticks
  quality,   \* p_wifi, p_wimax, p_lte
  hop,       \* hop_wifi, hop_wimax, hop_lte: the link is about to be lost
  losingAt,  \* timeout_wimax
  timeout,   \* m_timeout
  active,    \* m_active
  switches,  \* scheduled Activate: [tech, due]
  asked      \* history: when the last request was made

links == <<quality, hop, losingAt>>
evalVars == <<dependent, now, links, timeout, active, switches, asked>>

TypeOK ==
  /\ dependent \in BOOLEAN
  /\ now \in 0..MaxTime /\ losingAt \in -3..MaxTime /\ timeout \in 0..MaxTime
  /\ quality \in [Tech -> Nat] /\ hop \in [Tech -> BOOLEAN]
  /\ active \in Tech
  /\ switches \in Seq([tech : Tech, due : now..MaxTime + ActivateDelay])
  /\ asked \in Int /\ asked <= now

Second == now \div PerSecond

\* A point of time more than s seconds after the whole second t.
\* Mutant: or just s seconds after it.
AtOrPast(t, s) == now >= (t + s) * PerSecond
Past(t, s) == now > (t + s) * PerSecond

----------------------------------------------------------------------------
(* UpdateParameter: one operator per link.  A report of a link that is     *)
(* about to be lost raises hop and leaves the estimate, a report of a lost *)
(* link gives the link its least value.  Reports equal to a threshold are  *)
(* reports of a good link.                                                 *)

SetLink(t, q, h) ==
  /\ quality' = [quality EXCEPT ![t] = q]
  /\ hop' = [hop EXCEPT ![t] = h]

\* A device at 5 m/s or more takes no WiFi for good.
WifiReport(x, fast) ==
  /\ \/ (fast \/ x < 800) /\ SetLink(Wifi, 1, FALSE)
     \/ ~fast /\ x \in 801..1199 /\ SetLink(Wifi, quality[Wifi], TRUE)
     \/ ~fast /\ x \notin 801..1199 /\ x >= 800 /\ SetLink(Wifi, x, FALSE)
  /\ UNCHANGED losingAt

\* A WiMAX link that was lost stays lost; a warning holds for two seconds.
WimaxReport(x) ==
  LET late == Past(0, WarmUp) IN
  \/ /\ late /\ x \in 9871..9899
     /\ SetLink(Wimax, quality[Wimax], TRUE) /\ losingAt' = Second
  \/ late /\ x < 9870 /\ SetLink(Wimax, 0, FALSE) /\ UNCHANGED losingAt
  \/ /\ ~late \/ x = 9870 \/ x > 9899
     /\ IF quality[Wimax] = 0 THEN UNCHANGED <<quality, hop>>
        ELSE SetLink(Wimax, x, hop[Wimax] /\ ~Past(losingAt, 2))
     /\ UNCHANGED losingAt

\* The modulation schemes of the two directions say whether the link is about
\* to be lost, is lost, or has a rate.
LteReport ==
  /\ \/ SetLink(Lte, quality[Lte], TRUE)
     \/ SetLink(Lte, 0, FALSE)
     \/ \E rate \in LteRates : SetLink(Lte, rate, FALSE)
  /\ UNCHANGED losingAt

----------------------------------------------------------------------------
(* eval (): the rates of the links are compared as p_wifi, p_wimax / 2 and *)
(* p_lte / 4.                                                              *)

\* <<the best network, the one to escape to when that one is about to be
\* lost>>; none when the rates compared are equal.
Rated(q) ==
  LET w == 4 * q[Wifi]
      x == 2 * q[Wimax]
      c == q[Lte]
  IN  {r \in Tech \X Tech :
         \/ w > x /\ w > c /\ c > x /\ r = <<Wifi, Lte>>
         \/ w > x /\ w > c /\ c <= x /\ r = <<Wifi, Wimax>>
         \/ w < x /\ w > c /\ r = <<Wimax, Wifi>>
         \/ w > x /\ w < c /\ r = <<Lte, Wifi>>
         \/ w < x /\ w < c /\ x > c /\ r = <<Wimax, Lte>>
         \/ w < x /\ w < c /\ x < c /\ r = <<Lte, Wimax>>}

\* What a device on technology a asks for, given qualities q and flags h: the
\* escape if the best network is about to be lost, the best one if it is not;
\* WiFi as the best one only at low speed, and if it is not lost.
\* Mutants: the best network is wanted although it is about to be lost; WiFi is
\* wanted although it is lost.
WantedUnchecked(q, h, a, fast) ==
  UNION {{t \in Tech \ {a} :
           \/ h[r[1]] /\ t = r[2]
           \/ t = r[1] /\ (t = Wifi => ~fast /\ q[Wifi] > 1)} : r \in Rated(q)}
WantedLost(q, h, a, fast) ==
  UNION {{t \in Tech \ {a} :
           \/ h[r[1]] /\ t = r[2]
           \/ ~h[r[1]] /\ t = r[1] /\ (t = Wifi => ~fast)} : r \in Rated(q)}
Wanted(q, h, a, fast) ==
  UNION {{t \in Tech \ {a} :
           \/ h[r[1]] /\ t = r[2]
           \/ ~h[r[1]] /\ t = r[1] /\ (t = Wifi => ~fast /\ q[Wifi] > 1)} : r \in Rated(q)}

Granted(t) ==
  switches' = Append(switches, [tech |-> t, due |-> now + ActivateDelay])

(* RequestPSol for one of the networks in ts; m_timeout is set after it    *)
(* whatever it answered.                                                   *)
\* Mutant: only a refused request starts the back-off.
RequestRefusedOnly(ts) ==
  /\ asked' = now
  /\ \/ timeout' = Second /\ UNCHANGED switches
     \/ UNCHANGED timeout /\ \E t \in ts : Granted(t)
Request(ts) ==
  /\ timeout' = Second /\ asked' = now
  /\ UNCHANGED switches \/ \E t \in ts : Granted(t)

(* eval () with the estimates that UpdateParameter just changed.  A device *)
(* that leaves the choice to the network asks when its own link is about   *)
(* to be lost, and may be given any.                                       *)
Evaluate(fast) ==
  LET asks == IF dependent THEN IF hop'[active] THEN Tech ELSE {}
              ELSE Wanted(quality', hop', active, fast)
  IN  IF Past(0, WarmUp) /\ Past(timeout, BackOff) /\ asks # {}
      THEN Request(asks)
      ELSE UNCHANGED <<timeout, switches, asked>>

----------------------------------------------------------------------------
(* Steps.                                                                  *)

\* SetDependent (true), called by MihHelper::Activate before the simulation runs,
\* clears the estimates.
InitialQuality ==
  [t \in Tech |-> IF dependent THEN 0
                 ELSE IF t = Wifi THEN 20000
                 ELSE IF t = Wimax THEN 10000 ELSE 15000]

Init ==
  /\ dependent \in BOOLEAN
  /\ now = 0
  /\ quality = InitialQuality
  /\ hop = [t \in Tech |-> FALSE]
  /\ losingAt = -3
  /\ timeout = 0
  /\ active \in Tech
  /\ switches = <<>>
  /\ asked = -(BackOff + 1) * PerSecond

\* A report of the link of technology t.
UpdateParameter(t) ==
  /\ \E fast \in BOOLEAN :
       /\ \/ t = Wifi /\ \E x \in WifiReports : WifiReport(x, fast)
          \/ t = Wimax /\ \E x \in WimaxReports : WimaxReport(x)
          \/ t = Lte /\ LteReport
       /\ Evaluate(fast)
  /\ UNCHANGED <<dependent, now, active>>

\* The oldest scheduled Activate is due.
Activate ==
  /\ switches # <<>> /\ Head(switches).due = now
  /\ active' = Head(switches).tech
  /\ switches' = Tail(switches)
  /\ UNCHANGED <<dependent, now, links, timeout, asked>>

\* Mutant: the clock overtakes events that are due.
Overtaking == TRUE
NothingDue == \A k \in DOMAIN switches : switches[k].due > now

Tick ==
  /\ now < MaxTime /\ NothingDue
  /\ now' = now + 1
  /\ UNCHANGED <<dependent, links, timeout, active, switches, asked>>

----------------------------------------------------------------------------
(* Properties.                                                             *)

\* Since m_timeout is cut to whole seconds, the back-off of BackOff seconds
\* may be almost a second shorter.
MinGap == (BackOff - 1) * PerSecond + 2

Remaining == IF asked + MinGap > now THEN asked + MinGap - now ELSE 0

\* The device implements HandoverRequests: it never asks for the technology it
\* is on, never asks again within MinGap whatever the answer was, and so never
\* asks while its radio is still to be switched.
Requests == INSTANCE HandoverRequests WITH
  MinGap <- MinGap,
  wait <- Remaining,
  switches <- [k \in DOMAIN switches |->
                 [tech |-> switches[k].tech, left |-> switches[k].due - now]]
RequestsKept == Requests!Spec

\* eval () never finds a switch of the radio pending when it may ask again: the
\* technology it would then name as its old one is the one it has.
OneAtATime == Past(timeout, BackOff) => switches = <<>>

\* With the same estimates the device does not ask to leave the network it
\* asked for: what it wants does not depend on where it is.
NoPingPong ==
  \A fast \in BOOLEAN, a \in Tech : \A t \in Wanted(quality, hop, a, fast) :
    Wanted(quality, hop, t, fast) = {}

\* The least value of an estimate says that the link is lost.
Lost(t) == quality[t] = IF t = Wifi THEN 1 ELSE 0

\* A device asks for a network whose link is lost only to escape from one that
\* is about to be lost and is still rated best.
OnlyEscapesAreBlind ==
  \A fast \in BOOLEAN, a \in Tech : \A t \in Wanted(quality, hop, a, fast) :
    Lost(t) => \E r \in Rated(quality) : r[2] = t /\ hop[r[1]]
============================================================================
