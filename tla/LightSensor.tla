----------------------------- MODULE LightSensor -----------------------------
(***************************************************************************)
(* A read of src/ap3216: the three values of the light sensor, each in two *)
(* one-byte transfers.  The sensor goes on measuring in between, and       *)
(* ap3216_read_reg does not look at the result of a transfer: the byte of  *)
(* one that failed is an uninitialised variable.                           *)
(*                                                                         *)
(* The sensor is external: a pair of registers for each value, replaced as *)
(* a whole by a measurement, that hold the flags the driver tests for.     *)
(***************************************************************************)
EXTENDS Integers

CONSTANTS
  Words,    \* what a measurement may leave in a pair of registers
  Garbage   \* bound: the bytes an uninitialised variable may hold

ASSUME LightAssumption ==
  /\ \A w \in Words : w \in Nat /\ w < 65536
  /\ \A b \in Garbage : b \in Nat /\ b < 256

VARIABLES
  step,     \* the transfer of the read that comes next; 0 in user mode
  word,     \* the pair of registers of each value
  low,      \* the low byte of the value that is being read
  value,    \* the values put together so far
  whole,    \* history: {the measurement} a value was read from, {} if spoiled
  shown     \* history: a read has returned and its values are in the client's buffer

light == <<step, word, low, value, whole, shown>>

Channels == {"als", "ps", "ir"}

\* The order of the calls of ap3216_read_reg: of each value the low byte first.
Channel(n) == CASE n \in {1, 2} -> "als" [] n \in {3, 4} -> "ps" [] n \in {5, 6} -> "ir"
IsLow(n)   == n % 2 = 1

\* What the registers hold, read as the driver's comments say: ten bits of
\* proximity and of infrared, unless a flag in the low byte says that they are
\* invalid.
Reading(ch, w) ==
  CASE ch = "als" -> w
    [] ch = "ps"  -> IF (w \div 64) % 2 = 1 THEN 0 ELSE ((w \div 256) % 64) * 16 + (w % 16)
    [] ch = "ir"  -> IF (w \div 128) % 2 = 1 THEN 0 ELSE (w \div 256) * 4 + (w % 4)

\* Faulty variant: the flag of the infrared value is looked for in the high byte.
AssembleFlagHigh(ch, l, h) ==
  CASE ch = "als" -> h * 256 + l
    [] ch = "ps"  -> IF l % 128 >= 64 THEN 0 ELSE (h % 64) * 16 + (l % 16)
    [] ch = "ir"  -> IF h >= 128 THEN 0 ELSE h * 4 + (l % 4)

Assemble(ch, l, h) ==
  CASE ch = "als" -> h * 256 + l
    [] ch = "ps"  -> IF l % 128 >= 64 THEN 0 ELSE (h % 64) * 16 + (l % 16)
    [] ch = "ir"  -> IF l >= 128 THEN 0 ELSE h * 4 + (l % 4)

\* probe waits for a first measurement before it publishes the node; of a chip that
\* did not start, which probe does not notice, the registers hold whatever they held.
LightInit ==
  /\ step = 0
  /\ word \in [Channels -> Words]
  /\ low = 0
  /\ value = [ch \in Channels |-> 0]
  /\ whole = [ch \in Channels |-> {}]
  /\ shown = FALSE

-----------------------------------------------------------------------------
Measure(ch) ==
  /\ \E w \in Words \ {word[ch]} : word' = [word EXCEPT ![ch] = w]
  /\ whole' = IF step \in 1 .. 6 /\ ch = Channel(step) THEN [whole EXCEPT ![ch] = {}] ELSE whole
  /\ UNCHANGED <<step, low, value, shown>>

CallLight ==
  /\ step = 0
  /\ step' = 1
  /\ value' = [ch \in Channels |-> 0]
  /\ whole' = [ch \in Channels |-> {}]
  /\ shown' = FALSE
  /\ UNCHANGED <<word, low>>

\* A transfer of the low byte succeeds, or fails.
ReadLow ==
  /\ step \in 1 .. 6 /\ IsLow(step)
  /\ step' = step + 1
  /\ LET ch == Channel(step) IN
       \/ low' = word[ch] % 256 /\ whole' = [whole EXCEPT ![ch] = {word[ch]}]
       \/ low' \in Garbage      /\ whole' = [whole EXCEPT ![ch] = {}]
  /\ UNCHANGED <<word, value, shown>>

\* The same for the high byte; then the value is put together.
ReadHigh ==
  /\ step \in 1 .. 6 /\ ~IsLow(step)
  /\ step' = step + 1
  /\ low' = 0
  /\ LET ch == Channel(step) IN
       \/ /\ value' = [value EXCEPT ![ch] = Assemble(ch, low, word[ch] \div 256)]
          /\ UNCHANGED whole
       \/ /\ \E h \in Garbage : value' = [value EXCEPT ![ch] = Assemble(ch, low, h)]
          /\ whole' = [whole EXCEPT ![ch] = {}]
  /\ UNCHANGED <<word, shown>>

\* The copy to the client may fail, which read reports as a success.
ReturnLight ==
  /\ step = 7
  /\ step' = 0
  /\ shown' \in BOOLEAN
  /\ UNCHANGED <<word, low, value, whole>>

LightNext == (\E ch \in Channels : Measure(ch)) \/ CallLight \/ ReadLow \/ ReadHigh \/ ReturnLight

LightSpec == LightInit /\ [][LightNext]_light

-----------------------------------------------------------------------------
\* The types of the variables.  A proximity or infrared value has ten bits whatever
\* was in the bytes it was put together from.
LightTypeOK ==
  /\ step \in 0 .. 7
  /\ word \in [Channels -> Words]
  /\ low \in 0 .. 255
  /\ \A ch \in Channels : value[ch] \in Nat /\ value[ch] < (IF ch = "als" THEN 65536 ELSE 1024)
  /\ \A ch \in Channels : whole[ch] = {} \/ \E w \in Words : whole[ch] = {w}
  /\ shown \in BOOLEAN

\* Each value that a client is given is one measurement, with 0 for an invalid one,
\* unless the sensor replaced it between its two transfers or one of them failed:
\* only the bytes of one value can be torn apart, never those of two.
ShowsMeasurements ==
  shown => \A ch \in Channels : \A w \in whole[ch] : value[ch] = Reading(ch, w)
=============================================================================
