------------------------------- MODULE Servo -------------------------------
(***************************************************************************)
(* The servo of src/pwm: clients open the node, write angles and close it, *)
(* and every call works on the one pwm channel that they share.  The calls *)
(* of the pwm core are external: pwm_config, pwm_enable and pwm_disable    *)
(* each read the channel's state, change a part of it, and, unless that    *)
(* changes nothing, put the whole state back.  No lock makes the three one *)
(* step, nor any two calls of a handler.                                   *)
(***************************************************************************)
EXTENDS Integers

CONSTANTS
  Clients,   \* files that processes open
  Angles     \* bytes they write, or leave to what is on the stack

VARIABLES
  pc,        \* where each client is
  byte,      \* the angle that its last write took for data[0]
  pwm,       \* the channel: is it on, and its pulse width in nanoseconds
  seen,      \* what a call in progress has read of it: {} or {a state}
  alone      \* history: the clients nobody else was beside since they came

servo == <<pc, byte, pwm, seen, alone>>

Pulse(angle) == 500000 + (angle * 100000) \div 9
Rest == Pulse(0)

Calls == {"opening", "enabling", "writing", "closing", "disabling"}

\* The channel before its first use: off, with no pulse set.
ServoInit ==
  /\ pc    = [c \in Clients |-> "closed"]
  /\ byte  = [c \in Clients |-> 0]
  /\ pwm   = [on |-> FALSE, pulse |-> 0]
  /\ seen  = [c \in Clients |-> {}]
  /\ alone = {}

-----------------------------------------------------------------------------
Goto(c, p) == pc' = [pc EXCEPT ![c] = p]

Open(c) ==
  /\ pc[c] = "closed"
  /\ Goto(c, "opening")
  /\ byte' = [byte EXCEPT ![c] = 0]
  /\ alone' = IF \A d \in Clients : pc[d] = "closed" THEN {c} ELSE {}
  /\ UNCHANGED <<pwm, seen>>

\* A copy_from_user that fails returns -EFAULT and touches nothing.  A write of no
\* bytes finds one on the stack, which is any of Angles too.
WriteAngle(c) ==
  /\ pc[c] = "opened"
  /\ Goto(c, "writing")
  /\ \E angle \in Angles : byte' = [byte EXCEPT ![c] = angle]
  /\ UNCHANGED <<pwm, seen, alone>>

Close(c) ==
  /\ pc[c] = "opened"
  /\ Goto(c, "closing")
  /\ UNCHANGED <<byte, pwm, seen, alone>>

\* A pwm call reads the channel.
Snapshot(c) ==
  /\ pc[c] \in Calls
  /\ seen[c] = {}
  /\ seen' = [seen EXCEPT ![c] = {pwm}]
  /\ UNCHANGED <<pc, byte, pwm, alone>>

\* What the call makes of the state s that it read.
Change(c, s) ==
  CASE pc[c] \in {"opening", "closing"} -> [s EXCEPT !.pulse = Rest]
    [] pc[c] = "writing"                -> [s EXCEPT !.pulse = Pulse(byte[c])]
    [] pc[c] = "enabling"               -> [s EXCEPT !.on = TRUE]
    [] pc[c] = "disabling"              -> [s EXCEPT !.on = FALSE]

\* Faulty variant: release sets the pulse and leaves the output on.
AfterNoDisable(p) ==
  CASE p = "opening"   -> "enabling"  [] p \in {"enabling", "writing"} -> "opened"
    [] p \in {"closing", "disabling"} -> "closed"

\* Faulty variant: open does not turn the output on.
AfterNoEnable(p) ==
  CASE p \in {"opening", "enabling", "writing"} -> "opened"
    [] p = "closing"   -> "disabling" [] p = "disabling" -> "closed"

\* open and release make two calls each; pwm_set_polarity finds the polarity as it is.
After(p) ==
  CASE p = "opening"   -> "enabling"  [] p \in {"enabling", "writing"} -> "opened"
    [] p = "closing"   -> "disabling" [] p = "disabling" -> "closed"

\* The call puts the state back, if it differs from what it read.
Apply(c) ==
  /\ pc[c] \in Calls
  /\ \E s \in seen[c] : pwm' = IF Change(c, s) = s THEN pwm ELSE Change(c, s)
  /\ seen' = [seen EXCEPT ![c] = {}]
  /\ Goto(c, After(pc[c]))
  /\ UNCHANGED <<byte, alone>>

ServoNext == \E c \in Clients : Open(c) \/ WriteAngle(c) \/ Close(c) \/ Snapshot(c) \/ Apply(c)

ServoSpec == ServoInit /\ [][ServoNext]_servo

-----------------------------------------------------------------------------
States == [on : BOOLEAN, pulse : {0} \cup {Pulse(a) : a \in Angles \cup {0}}]

\* The types of the variables; a call has read the channel at most once.
ServoTypeOK ==
  /\ pc \in [Clients -> Calls \cup {"closed", "opened"}]
  /\ byte \in [Clients -> Angles \cup {0}]
  /\ pwm \in States
  /\ seen \in [Clients -> SUBSET States]
  /\ \A c \in Clients : seen[c] = {} \/ \E s \in States : pc[c] \in Calls /\ seen[c] = {s}
  /\ alone \subseteq Clients

\* When nobody has the node open the output is off, however the calls of the
\* clients that had it, each of which may have undone another's, were mixed.
IdleIsOff == (\A c \in Clients : pc[c] = "closed") => ~pwm.on

\* A client that had the servo to itself since it opened it finds it running at the
\* angle it asked for last.  With two clients nothing of the kind holds: the one
\* that closes first turns the output off under the other.
AloneIsServed ==
  \A c \in alone :
    pc[c] = "opened" => pwm = [on |-> TRUE, pulse |-> Pulse(byte[c])]
=============================================================================
