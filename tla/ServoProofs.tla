----------------------------- MODULE ServoProofs -----------------------------
(***************************************************************************)
(* Proofs about the shared servo, for any number of clients and any angles.*)
(***************************************************************************)
EXTENDS Servo, TLAPS

\* What a call makes of a state of the channel is a state of the channel.
LEMMA ChangeIsState ==
  ASSUME ServoTypeOK, NEW c \in Clients, pc[c] \in Calls, NEW s \in States
  PROVE  Change(c, s) \in States
<1>1. byte[c] \in Angles \cup {0} /\ Rest \in {Pulse(a) : a \in Angles \cup {0}}
  BY DEF ServoTypeOK, Rest
<1>2. CASE pc[c] \in {"opening", "closing"}
  BY <1>1, <1>2 DEF Change, States
<1>3. CASE pc[c] = "writing"
  BY <1>1, <1>3 DEF Change, States
<1>4. CASE pc[c] = "enabling"
  BY <1>4 DEF Change, States
<1>5. CASE pc[c] = "disabling"
  BY <1>5 DEF Change, States
<1> QED BY <1>2, <1>3, <1>4, <1>5 DEF Calls

\* The types of the variables hold in every reachable state.
THEOREM ServoTypeCorrect == ServoSpec => []ServoTypeOK
<1>1. ServoInit => ServoTypeOK
  BY DEF ServoInit, ServoTypeOK, States
<1>2. ServoTypeOK /\ [ServoNext]_servo => ServoTypeOK'
  <2> SUFFICES ASSUME ServoTypeOK, [ServoNext]_servo PROVE ServoTypeOK'
    OBVIOUS
  <2>1. ASSUME NEW c \in Clients, Open(c) \/ WriteAngle(c) \/ Close(c) PROVE ServoTypeOK'
    BY <2>1 DEF ServoTypeOK, Calls, Open, WriteAngle, Close, Goto
  <2>2. ASSUME NEW c \in Clients, Snapshot(c) PROVE ServoTypeOK'
    BY <2>2 DEF ServoTypeOK, Snapshot
  <2>3. ASSUME NEW c \in Clients, Apply(c) PROVE ServoTypeOK'
    <3>1. pwm' \in States
      BY <2>3, ChangeIsState DEF ServoTypeOK, Apply
    <3>2. After(pc[c]) \in Calls \cup {"closed", "opened"}
      BY <2>3 DEF Apply, Calls, After
    <3>3. pc' \in [Clients -> Calls \cup {"closed", "opened"}]
      BY <2>3, <3>2 DEF ServoTypeOK, Apply, Goto
    <3>4. ASSUME NEW d \in Clients
          PROVE  seen'[d] = {} \/ \E s \in States : pc'[d] \in Calls /\ seen'[d] = {s}
      <4>1. CASE d = c
        BY <2>3, <4>1 DEF ServoTypeOK, Apply
      <4>2. CASE d # c
        <5>1. pc'[d] = pc[d] /\ seen'[d] = seen[d]
          BY <2>3, <4>2 DEF ServoTypeOK, Apply, Goto
        <5> QED BY <5>1 DEF ServoTypeOK
      <4> QED BY <4>1, <4>2
    <3>5. seen' \in [Clients -> SUBSET States]
      BY <2>3 DEF ServoTypeOK, Apply
    <3> QED BY <2>3, <3>1, <3>3, <3>4, <3>5 DEF ServoTypeOK, Apply
  <2>4. CASE UNCHANGED servo
    BY <2>4 DEF ServoTypeOK, servo
  <2> QED BY <2>1, <2>2, <2>3, <2>4 DEF ServoNext
<1> QED BY <1>1, <1>2, PTL DEF ServoSpec

-----------------------------------------------------------------------------
\* Somebody will still turn an output off that is on: a client that has not closed
\* the node, and is not about to leave because it found the output off already.
WillDisable(c) ==
  pc[c] # "closed" /\ ~(pc[c] = "disabling" /\ \E s \in seen[c] : ~s.on)

OnIsOwned == pwm.on => \E c \in Clients : WillDisable(c)

\* With the node closed the output is off, for any number of clients.
THEOREM OffWhenIdle == ServoSpec => []IdleIsOff
<1>1. ServoInit => OnIsOwned
  BY DEF ServoInit, OnIsOwned
<1>2. ServoTypeOK /\ OnIsOwned /\ [ServoNext]_servo => OnIsOwned'
  <2> SUFFICES ASSUME ServoTypeOK, OnIsOwned, [ServoNext]_servo, pwm'.on
               PROVE  \E c \in Clients : WillDisable(c)'
    BY DEF OnIsOwned
  <2>1. ASSUME NEW c \in Clients, Open(c) \/ WriteAngle(c) \/ Close(c)
        PROVE  \E d \in Clients : WillDisable(d)'
    BY <2>1 DEF ServoTypeOK, OnIsOwned, WillDisable, Open, WriteAngle, Close, Goto
  <2>2. ASSUME NEW c \in Clients, Snapshot(c) PROVE \E d \in Clients : WillDisable(d)'
    <3>1. PICK d \in Clients : WillDisable(d)
      BY <2>2 DEF OnIsOwned, Snapshot
    <3>2. seen' = [seen EXCEPT ![c] = {pwm}] /\ pc' = pc /\ pwm.on
      BY <2>2 DEF Snapshot
    <3>3. CASE d = c
      <4>1. \A s \in seen'[c] : s.on
        BY <3>2 DEF ServoTypeOK
      <4> QED BY <3>1, <3>2, <3>3, <4>1 DEF WillDisable
    <3>4. CASE d # c
      BY <3>1, <3>2, <3>4 DEF WillDisable
    <3> QED BY <3>3, <3>4
  <2>3. ASSUME NEW c \in Clients, Apply(c) PROVE \E d \in Clients : WillDisable(d)'
    <3>1. PICK s \in seen[c] : pwm' = IF Change(c, s) = s THEN pwm ELSE Change(c, s)
      BY <2>3 DEF Apply
    <3>2. s \in States /\ seen[c] = {s}
      BY <2>3, <3>1 DEF ServoTypeOK, Apply
    <3>3. CASE pc[c] # "disabling"
      BY <2>3, <3>3 DEF ServoTypeOK, WillDisable, Apply, Goto, After, Calls
    <3>4. CASE pc[c] = "disabling"
      <4>1. Change(c, s) = [s EXCEPT !.on = FALSE] /\ ~Change(c, s).on
        BY <3>2, <3>4 DEF Change, States
      <4>2. ~s.on /\ pwm.on
        BY <3>1, <3>2, <4>1 DEF States
      <4>3. PICK d \in Clients : WillDisable(d)
        BY <4>2 DEF OnIsOwned
      <4>4. d # c
        BY <3>2, <3>4, <4>2, <4>3 DEF WillDisable
      <4>5. pc'[d] = pc[d] /\ seen'[d] = seen[d]
        BY <2>3, <4>4 DEF ServoTypeOK, Apply, Goto
      <4> QED BY <4>3, <4>5 DEF WillDisable
    <3> QED BY <3>3, <3>4
  <2>4. CASE UNCHANGED servo
    BY <2>4 DEF OnIsOwned, WillDisable, servo
  <2> QED BY <2>1, <2>2, <2>3, <2>4 DEF ServoNext
<1>3. OnIsOwned => IdleIsOff
  BY DEF OnIsOwned, WillDisable, IdleIsOff
<1> QED BY <1>1, <1>2, <1>3, ServoTypeCorrect, PTL DEF ServoSpec

-----------------------------------------------------------------------------
\* How far the channel follows a client that is alone, at each point of its calls.
Served(c) ==
  /\ \A d \in Clients \ {c} : pc[d] = "closed"
  /\ seen[c] \subseteq {pwm}
  /\ pc[c] \in {"opening", "enabling"} => byte[c] = 0
  /\ pc[c] = "enabling" => pwm.pulse = Rest
  /\ pc[c] = "writing" => pwm.on = TRUE
  /\ pc[c] = "opened" => pwm = [on |-> TRUE, pulse |-> Pulse(byte[c])]

AllServed == \A c \in alone : Served(c)

\* A client that is alone has the servo at the angle it asked for last.
THEOREM ServesAlone == ServoSpec => []AloneIsServed
<1>1. ServoInit => AllServed
  BY DEF ServoInit, AllServed
<1>2. ServoTypeOK /\ AllServed /\ [ServoNext]_servo => AllServed'
  <2> SUFFICES ASSUME ServoTypeOK, AllServed, [ServoNext]_servo, NEW c \in Clients, c \in alone'
               PROVE  Served(c)'
    BY DEF AllServed, ServoTypeOK, ServoNext, Open, WriteAngle, Close, Snapshot, Apply, servo
  <2>1. ASSUME NEW d \in Clients, Open(d) PROVE Served(c)'
    BY <2>1 DEF ServoTypeOK, Calls, AllServed, Served, Open, Goto
  <2>2. ASSUME NEW d \in Clients, WriteAngle(d) \/ Close(d) PROVE Served(c)'
    BY <2>2 DEF ServoTypeOK, Calls, AllServed, Served, WriteAngle, Close, Goto
  <2>3. ASSUME NEW d \in Clients, Snapshot(d) PROVE Served(c)'
    BY <2>3 DEF ServoTypeOK, Calls, AllServed, Served, Snapshot
  <2>4. ASSUME NEW d \in Clients, Apply(d) PROVE Served(c)'
    <3>1. c \in alone /\ Served(c) /\ d = c
      BY <2>4 DEF ServoTypeOK, Calls, AllServed, Served, Apply
    <3>2. pwm' = Change(c, pwm) /\ byte' = byte
      BY <2>4, <3>1 DEF Served, Apply
    <3>3. pc' = [pc EXCEPT ![c] = After(pc[c])] /\ seen' = [seen EXCEPT ![c] = {}]
      BY <2>4, <3>1 DEF Apply, Goto
    <3>4. /\ \A e \in Clients \ {c} : pc'[e] = "closed"
          /\ seen'[c] \subseteq {pwm'} /\ pc'[c] = After(pc[c])
      <4>1. \A e \in Clients \ {c} : pc'[e] = "closed"
        BY <3>1, <3>3 DEF Served
      <4>2. seen'[c] = {} /\ pc'[c] = After(pc[c])
        BY <3>3 DEF ServoTypeOK
      <4> QED BY <4>1, <4>2
    <3>5. pwm \in States /\ pwm = [on |-> pwm.on, pulse |-> pwm.pulse]
      BY DEF ServoTypeOK, States
    <3>6. CASE pc[c] = "opening"
      BY <3>1, <3>2, <3>4, <3>5, <3>6 DEF Served, After, Change
    <3>7. CASE pc[c] = "enabling"
      BY <3>1, <3>2, <3>4, <3>5, <3>7 DEF Served, After, Change, Rest
    <3>8. CASE pc[c] = "writing"
      BY <3>1, <3>2, <3>4, <3>5, <3>8 DEF Served, After, Change
    <3>9. CASE pc[c] \in {"closing", "disabling"}
      BY <3>4, <3>9 DEF Served, After
    <3> QED BY <2>4, <3>1, <3>6, <3>7, <3>8, <3>9 DEF Apply, Calls
  <2>5. CASE UNCHANGED servo
    BY <2>5 DEF AllServed, Served, servo
  <2> QED BY <2>1, <2>2, <2>3, <2>4, <2>5 DEF ServoNext
<1>3. AllServed => AloneIsServed
  BY DEF AllServed, Served, AloneIsServed
<1> QED BY <1>1, <1>2, <1>3, ServoTypeCorrect, PTL DEF ServoSpec
=============================================================================
