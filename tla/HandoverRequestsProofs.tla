----------------------- MODULE HandoverRequestsProofs -----------------------
(***************************************************************************)
(* What follows from HandoverRequests for every delay and every gap.       *)
(***************************************************************************)
EXTENDS HandoverRequests, TLAPS

(* At most one switch is scheduled, and it is due before the next request  *)
(* is possible: both run down together, the switch from ActivateDelay, the *)
(* gap from MinGap.                                                        *)
Due ==
  /\ TypeOK
  /\ switches # <<>> =>
       /\ Len(switches) = 1
       /\ switches[1].left + (MinGap - ActivateDelay) <= wait

Switches == [tech : Tech, left : 0..ActivateDelay]

\* A request is possible only when no switch is scheduled.
LEMMA DueMeans == ASSUME DelayIsShort, Due PROVE OneAtATime
<1> SUFFICES ASSUME wait = 0, switches # <<>> PROVE FALSE
  BY DEF OneAtATime
<1>1. switches \in Seq(Switches) /\ Len(switches) = 1
  BY DEF Due, TypeOK, Switches
<1>2. switches[1] \in Switches
  BY <1>1
<1>3. switches[1].left \in Nat
  BY <1>2, DelayIsShort DEF DelayIsShort, Switches
<1> QED
  BY <1>3, DelayIsShort DEF DelayIsShort, Due

\* A request schedules the only switch there is.
LEMMA AskKeepsDue == ASSUME DelayIsShort, Due, Ask PROVE Due'
<1>1. /\ switches = <<>> /\ wait' = MinGap
      /\ active' = active /\ dependent' = dependent
  BY DueMeans DEF OneAtATime, Ask
<1>2. CASE UNCHANGED switches
  BY <1>1, <1>2, DelayIsShort DEF DelayIsShort, Due, TypeOK
<1>3. CASE \E t \in Answers :
             switches' = Append(switches, [tech |-> t, left |-> ActivateDelay])
  <2>1. PICK t \in Tech :
          switches' = Append(switches, [tech |-> t, left |-> ActivateDelay])
    BY <1>3 DEF Answers
  <2> DEFINE r == [tech |-> t, left |-> ActivateDelay]
  <2>2. r \in Switches /\ r.left = ActivateDelay
    BY DelayIsShort DEF DelayIsShort, Switches
  <2>3. switches' = <<r>>
    BY <1>1, <2>1
  <2>4. switches' \in Seq(Switches) /\ Len(switches') = 1 /\ switches'[1] = r
    BY <2>2, <2>3
  <2>5. r.left + (MinGap - ActivateDelay) <= wait' /\ wait' \in 0..MinGap
    BY <1>1, <2>2, DelayIsShort DEF DelayIsShort
  <2> QED
    BY <1>1, <2>4, <2>5 DEF Due, TypeOK, Switches
<1> QED
  BY <1>2, <1>3 DEF Ask

\* The switch and the gap run down together.
LEMMA TickKeepsDue == ASSUME DelayIsShort, Due, Tick PROVE Due'
<1>1. /\ switches \in Seq(Switches) /\ wait \in 0..MinGap /\ MinGap \in Nat
      /\ active' = active /\ dependent' = dependent
      /\ wait' = IF wait = 0 THEN 0 ELSE wait - 1
  BY DelayIsShort DEF DelayIsShort, Due, TypeOK, Switches, Tick
<1>2. wait' \in 0..MinGap
  BY <1>1
<1>3. CASE switches = <<>>
  <2>1. DOMAIN switches' = {} /\ switches' = [k \in {} |-> switches[k]]
    BY <1>3 DEF Tick
  <2>2. switches' = <<>>
    BY <2>1
  <2> QED
    BY <1>1, <1>2, <2>2 DEF Due, TypeOK
<1>4. CASE switches # <<>>
  <2>1. /\ Len(switches) = 1 /\ DOMAIN switches = 1..1
        /\ switches[1] \in Switches
        /\ switches[1].left + (MinGap - ActivateDelay) <= wait
    BY <1>1, <1>4 DEF Due
  <2>2. switches[1].left > 0
    BY <2>1 DEF Tick, NothingDue
  <2> DEFINE r == [switches[1] EXCEPT !.left = switches[1].left - 1]
  <2>3. /\ r \in Switches /\ r.left = switches[1].left - 1
        /\ switches[1].left \in 1..ActivateDelay
    BY <2>1, <2>2, DelayIsShort DEF DelayIsShort, Switches
  <2>4. switches' = [k \in 1..1 |-> r]
    BY <2>1 DEF Tick
  <2>5. switches' \in Seq(Switches) /\ Len(switches') = 1 /\ switches'[1] = r
    BY <2>3, <2>4
  <2>6. r.left + (MinGap - ActivateDelay) <= wait'
    BY <1>1, <2>1, <2>3, DelayIsShort DEF DelayIsShort
  <2> QED
    BY <1>1, <1>2, <2>5, <2>6 DEF Due, TypeOK, Switches
<1> QED
  BY <1>3, <1>4

\* The inductive invariant.
LEMMA DueHolds == ASSUME DelayIsShort PROVE Spec => []Due
<1>1. Init => Due
  BY DelayIsShort DEF DelayIsShort, Init, Due, TypeOK
<1>2. ASSUME Due, [Next]_requestVars PROVE Due'
  <2>1. CASE Ask
    BY <1>2, <2>1, AskKeepsDue
  <2>2. CASE Tick
    BY <1>2, <2>2, TickKeepsDue
  <2>3. CASE Switch
    <3>1. /\ switches \in Seq(Switches) /\ Len(switches) = 1
      BY <1>2, <2>3 DEF Due, TypeOK, Switches, Switch
    <3>2. Head(switches) \in Switches /\ Tail(switches) = <<>>
      <4>1. switches # <<>> /\ Head(switches) = switches[1] /\ switches[1] \in Switches
        BY <3>1, SMTT(30)
      <4>2. Tail(switches) \in Seq(Switches) /\ Len(Tail(switches)) = 0
        BY <3>1, <4>1
      <4>3. \A q \in Seq(Switches) : Len(q) = 0 => q = <<>>
        OBVIOUS
      <4> QED
        BY <4>1, <4>2, <4>3
    <3>3. /\ active' \in Tech /\ switches' = <<>>
          /\ wait' = wait /\ dependent' = dependent
      BY <2>3, <3>2 DEF Switch, Switches
    <3> QED
      BY <1>2, <3>3 DEF Due, TypeOK
  <2>4. CASE UNCHANGED requestVars
    BY <1>2, <2>4 DEF requestVars, Due, TypeOK
  <2> QED
    BY <1>2, <2>1, <2>2, <2>3, <2>4 DEF Next
<1> QED
  BY <1>1, <1>2, PTL DEF Spec

\* Every state a device goes through is well typed.
THEOREM RequestsTyped == ASSUME DelayIsShort PROVE Spec => []TypeOK
<1>1. Due => TypeOK
  BY DEF Due
<1> QED
  BY <1>1, DueHolds, PTL

\* eval () never finds a switch of the radio pending when it may ask again, for
\* every delay that is shorter than the gap.
THEOREM NeverAsksWhileSwitching ==
  ASSUME DelayIsShort PROVE Spec => []OneAtATime
<1>1. Due => OneAtATime
  BY DueMeans
<1> QED
  BY <1>1, DueHolds, PTL
============================================================================
