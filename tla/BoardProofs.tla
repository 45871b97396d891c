----------------------------- MODULE BoardProofs -----------------------------
(***************************************************************************)
(* What is proved of a device by itself holds of it on the board: the      *)
(* board's behaviours, seen through the variables of one device, are that  *)
(* device's behaviours.                                                    *)
(***************************************************************************)
EXTENDS Board, ServoProofs, KeysProofs, SensorProofs

\* The board implements the thermometer, with its driver and its sensor.
THEOREM BoardImplementsWire == Spec => WireSpec
<1>1. Init => WireInit
  BY DEF Init
<1>2. [Next]_vars => [WireNext]_wire
  BY DEF Next, vars, wire
<1> QED BY <1>1, <1>2, PTL DEF Spec, WireSpec

\* The board implements the servo: nothing else that runs on it moves the
\* channel or a client of the servo.
THEOREM BoardImplementsServo == Spec => ServoSpec
<1>1. Init => ServoInit
  BY DEF Init
<1>2. [Next]_vars => [ServoNext]_servo
  BY DEF Next, vars, servo
<1> QED BY <1>1, <1>2, PTL DEF Spec, ServoSpec

\* The board implements the keys, with their fairness.
THEOREM BoardImplementsKeys == Spec => KeysSpec
<1>1. Init => KeysInit
  BY DEF Init
<1>2. [Next]_vars => [KeysNext]_keys
  BY DEF Next, vars, keys
<1> QED BY <1>1, <1>2, PTL DEF Spec, KeysSpec

\* The board implements the light sensor.
THEOREM BoardImplementsLight == Spec => LightSpec
<1>1. Init => LightInit
  BY DEF Init
<1>2. [Next]_vars => [LightNext]_light
  BY DEF Next, vars, light
<1> QED BY <1>1, <1>2, PTL DEF Spec, LightSpec

\* The board implements the motion sensor.
THEOREM BoardImplementsMotion == Spec => MotionSpec
<1>1. Init => MotionInit
  BY DEF Init
<1>2. [Next]_vars => [MotionNext]_motion
  BY DEF Next, vars, motion
<1> QED BY <1>1, <1>2, PTL DEF Spec, MotionSpec

\* On the board, too, the servo is off while nobody has its node open, and a
\* client that has it to itself finds it at the angle it asked for.
THEOREM BoardServo == Spec => [](IdleIsOff /\ AloneIsServed)
BY BoardImplementsServo, OffWhenIdle, ServesAlone, PTL

\* On the board, too, the polling work is gone before its gpios are, runs on
\* while the driver is bound, and sets the led only to what a key asks for.
THEOREM BoardKeys == Spec => [](WorkIsGone /\ WorkNeverStops) /\ LedFollowsKeys
BY BoardImplementsKeys, WorkEndsBeforeGpio, KeepsPolling, LedObeysKeys, PTL DEF LedFollowsKeys

\* On the board, too, what a read of the light sensor returns was measured.
THEOREM BoardSensors == Spec => []ShowsMeasurements
BY BoardImplementsLight, LightIsMeasured, PTL

\* On the board, too, the thermometer hears what the register driver sends it, and a
\* read returns what it measured, if no delay is late by more than they allow for.
THEOREM BoardWire ==
  ASSUME WireDriver = "ds18b20", PulseDelay <= 13, SampleDelay <= 1
  PROVE  Spec => [](CommandsHeard /\ ReadsTemperature)
<1>1. WireSpec => []CommandsHeard
  BY SensorHears
<1>2. WireSpec => []ReadsTemperature
  BY ReadsRight
<1> QED BY <1>1, <1>2, BoardImplementsWire, PTL

\* The types of every device's variables hold in every reachable state of the board.
THEOREM BoardTypeCorrect == Spec => []TypeOK
<1>1. Init => device \in Devices
  BY DEF Init
<1>2. device \in Devices /\ [Next]_vars => (device \in Devices)'
  BY DEF Next, vars
<1>3. Spec => [](device \in Devices)
  BY <1>1, <1>2, PTL DEF Spec
<1>4. Spec => [](WireTypeOK /\ ServoTypeOK /\ KeysTypeOK /\ LightTypeOK /\ MotionTypeOK)
  BY BoardImplementsWire, BoardImplementsServo, BoardImplementsKeys, BoardImplementsLight,
     BoardImplementsMotion, WireTypeCorrect, ServoTypeCorrect, KeysTypeCorrect,
     LightTypeCorrect, MotionTypeCorrect, PTL
<1>5. ASSUME device \in Devices,
             WireTypeOK /\ ServoTypeOK /\ KeysTypeOK /\ LightTypeOK /\ MotionTypeOK
      PROVE  TypeOK
  BY <1>5 DEF TypeOK
<1> QED BY <1>3, <1>4, <1>5, PTL
=============================================================================
