------------------------------- MODULE Board -------------------------------
(***************************************************************************)
(* The devices of the board whose drivers share no state once they are     *)
(* loaded, each with its clients: the thermometer (OneWire), the servo     *)
(* (Servo), the keys and their led (Keys), the light sensor (LightSensor)  *)
(* and the motion sensor (MotionSensor).  A behaviour exercises one of     *)
(* them while the others rest; running several at once would add only      *)
(* interleavings of steps that touch nothing in common.                    *)
(***************************************************************************)
EXTENDS OneWire, Servo, Keys, LightSensor, MotionSensor

VARIABLE device   \* the one in use

vars == <<device, wire, servo, keys, light, motion>>

Devices == {"wire", "servo", "keys", "light", "motion"}

\* A device that is not in use is in one of its initial states.
Init ==
  /\ device \in Devices
  /\ WireInit /\ ServoInit /\ KeysInit /\ LightInit /\ MotionInit
  /\ device # "wire" =>
       bus = "off" /\ heard = <<>> /\ measured = CHOOSE t \in Temperatures : TRUE
  /\ device # "keys" => driver = "dtb" /\ down = {}
  /\ device # "light" => word = [ch \in Channels |-> CHOOSE w \in Words : TRUE]
  /\ device # "motion" => sample = CHOOSE s \in Samples : TRUE

Next ==
  \/ device = "wire" /\ WireNext
     /\ UNCHANGED <<device, servo, keys, light, motion>>
  \/ device = "servo" /\ ServoNext
     /\ UNCHANGED <<device, wire, keys, light, motion>>
  \/ device = "keys" /\ KeysNext
     /\ UNCHANGED <<device, wire, servo, light, motion>>
  \/ device = "light" /\ LightNext
     /\ UNCHANGED <<device, wire, servo, keys, motion>>
  \/ device = "motion" /\ MotionNext
     /\ UNCHANGED <<device, wire, servo, keys, light>>

\* Only the keys need fairness; keys that rest have no step that is due.
Spec == Init /\ [][Next]_vars /\ KeysFairness

-----------------------------------------------------------------------------
\* The types of every device's variables.
TypeOK ==
  /\ device \in Devices
  /\ WireTypeOK /\ ServoTypeOK /\ KeysTypeOK /\ LightTypeOK /\ MotionTypeOK
=============================================================================
