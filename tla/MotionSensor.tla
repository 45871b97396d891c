---------------------------- MODULE MotionSensor ----------------------------
(***************************************************************************)
(* A read of src/icm20608: one burst over spi fetches the fourteen bytes   *)
(* of a sample, and the driver joins them to seven words.  A byte is named *)
(* by where it comes from: <<sample, register>>, or Junk for one that no   *)
(* register holds.                                                         *)
(*                                                                         *)
(* spi is full duplex: while the register's number goes out, a byte comes  *)
(* in that is nothing.  icm20608_read_reg skips it; icm20608_read_regs     *)
(* receives it into the first element of the caller's array, so that the   *)
(* last register falls behind the array's end.  What it overwrites there   *)
(* is left out.                                                            *)
(***************************************************************************)
EXTENDS Integers, Sequences

CONSTANT Samples   \* names of successive samples

VARIABLES
  at,       \* "user", "called", or "read" (the burst has run)
  sample,   \* the one that the registers hold
  data,     \* the array of the read: bytes, or <<>> before the burst
  reply     \* what the last read returned: its words, or <<>> for an error

motion == <<at, sample, data, reply>>

Junk == <<"none", 0>>
Byte(s, register) == <<s, register>>

\* The fourteen elements of the array after the burst of fifteen bytes.
Burst(s) == [i \in 1 .. 14 |-> IF i = 1 THEN Junk ELSE Byte(s, i - 1)]

\* The high byte comes first.
Join(bytes) == [i \in 1 .. 7 |-> <<bytes[2 * i - 1], bytes[2 * i]>>]

\* What the sensor measured: word i is in the registers 2 * i - 1 and 2 * i.
WordsOf(s) == [i \in 1 .. 7 |-> <<Byte(s, 2 * i - 1), Byte(s, 2 * i)>>]

MotionInit ==
  /\ at = "user"
  /\ sample \in Samples
  /\ data = <<>> /\ reply = <<>>

-----------------------------------------------------------------------------
Sample ==
  /\ \E s \in Samples \ {sample} : sample' = s
  /\ UNCHANGED <<at, data, reply>>

CallMotion ==
  /\ at = "user"
  /\ at' = "called"
  /\ data' = <<>> /\ reply' = <<>>
  /\ UNCHANGED sample

\* There is no memory for the command, or the transfer fails: -EIO.
Fail ==
  /\ at = "called"
  /\ at' = "user"
  /\ UNCHANGED <<sample, data, reply>>

\* The burst is one step: the sensor, which is external, is taken to keep its
\* registers while it is read, and nothing that is claimed here rests on it.
Transfer ==
  /\ at = "called"
  /\ at' = "read"
  /\ data' = Burst(sample)
  /\ UNCHANGED <<sample, reply>>

\* The copy to the client may fail: -EFAULT.
ReturnMotion ==
  /\ at = "read"
  /\ at' = "user"
  /\ reply' \in {Join(data), <<>>}
  /\ UNCHANGED <<sample, data>>

MotionNext == Sample \/ CallMotion \/ Fail \/ Transfer \/ ReturnMotion

MotionSpec == MotionInit /\ [][MotionNext]_motion

-----------------------------------------------------------------------------
Bytes == {Junk} \cup (Samples \X (1 .. 14))

\* The types of the variables.
MotionTypeOK ==
  /\ at \in {"user", "called", "read"}
  /\ sample \in Samples
  /\ data = <<>> \/ data \in [1 .. 14 -> Bytes]
  /\ reply = <<>> \/ reply \in [1 .. 7 -> Bytes \X Bytes]

\* "Read fourteen bytes of sensor data", "join the data, high byte first": a read
\* returns the words that the sensor measured.
ReadsSample == reply = <<>> \/ \E s \in Samples : reply = WordsOf(s)
=============================================================================
