----------------------------- MODULE MihDevice -----------------------------
(***************************************************************************)
(* A MihNetDevice among the devices of its node: which receive callback    *)
(* each real device has, what becomes of a frame that reaches it, and the  *)
(* links the device judges by the tags of those frames.                    *)
(*                                                                         *)
(* The loopback device, index 0, is left out: nothing activates it.        *)
(***************************************************************************)
EXTENDS LinkEvaluation

VARIABLE receiver  \* receive callback of each device: "node" or "mih"

deviceVars == <<evalVars, receiver>>

\* NeedsArp () of the real devices.
NeedsArp(t) == t = Wifi

(* The frames of a device: the WiFi PHY puts its report on every frame,    *)
(* the other two send it up in a frame of its own, without data.           *)
Frames(t) ==
  IF t = Wifi THEN {[tag |-> TRUE, data |-> TRUE]}
  ELSE {[tag |-> TRUE, data |-> FALSE], [tag |-> FALSE, data |-> TRUE]}

----------------------------------------------------------------------------
(* Node::ReceiveFromDevice and MihNetDevice::NonPromiscReceiveFromDevice:  *)
(* the devices under whose name a frame is handed to the protocol stack,   *)
(* and how often it is reported to UpdateParameter.                        *)

\* The MIH device passes a frame on to the node in its own name.
PassedOn(t, f) == t = active /\ (f.tag => active = Wifi)

Handed(t, f) ==
  IF receiver[t] = "node" THEN {t}
  ELSE IF PassedOn(t, f) THEN {"mih"} ELSE {}

Reported(t, f) ==
  IF ~f.tag THEN 0
  ELSE IF receiver[t] = "mih" /\ PassedOn(t, f) THEN 2 ELSE 1

----------------------------------------------------------------------------
\* Activate: the device left is taken back, then the new one is given to the
\* node if it needs ARP.
\* Mutants: the device left is taken back last; it is not taken back.
TakenBackLast(r, from, to) ==
  [r EXCEPT ![to] = IF NeedsArp(to) THEN "node" ELSE @, ![from] = "mih"]
NotTakenBack(r, from, to) ==
  [r EXCEPT ![to] = IF NeedsArp(to) THEN "node" ELSE @]
Appropriated(r, from, to) ==
  [r EXCEPT ![from] = "mih", ![to] = IF NeedsArp(to) THEN "node" ELSE @]

\* SetNetDevices takes every device, then MihHelper::Activate gives one back.
DeviceInit ==
  /\ Init
  /\ receiver = Appropriated([t \in Tech |-> "mih"], active, active)

\* A frame arrives, at an active device or at any other.  One without a tag
\* changes nothing here.
Receive ==
  /\ \E t \in Tech : \E f \in Frames(t) :
       Reported(t, f) > 0 /\ UpdateParameter(t)
  /\ UNCHANGED receiver

SwitchRadio ==
  /\ Activate
  /\ receiver' = Appropriated(receiver, active, active')

DeviceTick == Tick /\ UNCHANGED receiver

DeviceNext == Receive \/ SwitchRadio \/ DeviceTick

DeviceSpec == DeviceInit /\ [][DeviceNext]_deviceVars

----------------------------------------------------------------------------
(* Properties.                                                             *)

\* Every tag is reported once: a frame that the MIH device passes on comes back
\* to Node::ReceiveFromDevice, which reads the tag again.
ReportedOnce ==
  \A t \in Tech : \A f \in Frames(t) : f.tag => Reported(t, f) = 1

\* However often and wherever the radio is switched, the stack gets the data of
\* the active device and of no other, and gets it in the name of the real device
\* if the stack must answer ARP on it, of the MIH device otherwise.
StackSeesActive ==
  \A t \in Tech : \A f \in Frames(t) :
    Handed(t, f) =
      IF t = active /\ f.data
      THEN {IF NeedsArp(t) THEN t ELSE "mih"} ELSE {}
============================================================================
