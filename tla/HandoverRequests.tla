-------------------------- MODULE HandoverRequests --------------------------
(***************************************************************************)
(* What the network manager may rely on of one device: it asks for a       *)
(* technology other than its own, or leaves the choice to the network, and *)
(* two requests are at least MinGap apart, whether granted or not.  A      *)
(* granted request switches the radio ActivateDelay later.                 *)
(***************************************************************************)
EXTENDS Naturals, Sequences

CONSTANTS
  Tech,           \* access technologies
  ActivateDelay,  \* from the request to the switch of the radio
  MinGap          \* least time between two requests

\* What the theorems assume of the constants: the back-off outlasts the delay.
DelayIsShort ==
  /\ ActivateDelay \in Nat /\ MinGap \in Nat
  /\ ActivateDelay < MinGap

VARIABLES
  dependent, \* the device leaves the choice to the network
  active,    \* technology of the radio
  switches,  \* scheduled switches [tech, left] of the radio
  wait       \* time until the next request is possible

requestVars == <<dependent, active, switches, wait>>

TypeOK ==
  /\ dependent \in BOOLEAN
  /\ active \in Tech
  /\ switches \in Seq([tech : Tech, left : 0..ActivateDelay])
  /\ wait \in 0..MinGap

Init ==
  /\ dependent \in BOOLEAN
  /\ active \in Tech
  /\ switches = <<>>
  /\ wait = 0

\* The technologies an answer to a request may switch the radio to.
Answers == IF dependent THEN Tech ELSE Tech \ {active}

Ask ==
  /\ wait = 0
  /\ wait' = MinGap
  /\ \/ UNCHANGED switches
     \/ \E t \in Answers :
          switches' = Append(switches, [tech |-> t, left |-> ActivateDelay])
  /\ UNCHANGED <<dependent, active>>

Switch ==
  /\ switches # <<>> /\ Head(switches).left = 0
  /\ active' = Head(switches).tech
  /\ switches' = Tail(switches)
  /\ UNCHANGED <<dependent, wait>>

NothingDue == \A k \in DOMAIN switches : switches[k].left > 0

Tick ==
  /\ NothingDue
  /\ switches' =
       [k \in DOMAIN switches |-> [switches[k] EXCEPT !.left = @ - 1]]
  /\ wait' = IF wait = 0 THEN 0 ELSE wait - 1
  /\ UNCHANGED <<dependent, active>>

Next == Ask \/ Switch \/ Tick

Spec == Init /\ [][Next]_requestVars

----------------------------------------------------------------------------
\* A device that may ask again has no switch of its radio pending, so the
\* technology it names as its old one is the one it is going to have.
OneAtATime == wait = 0 => switches = <<>>
============================================================================
