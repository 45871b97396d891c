------------------------------ MODULE OneWire ------------------------------
(***************************************************************************)
(* Reading the temperature over one wire: the slots that the drivers       *)
(* src/ds18b20/simple_io.c and src/simple_io/simple_io.c produce for one   *)
(* client, and a sensor that hears them.  A slot is what the sensor can    *)
(* tell apart: how long the master holds the line low and how long after   *)
(* that it samples.  Every delay is a busy-wait of its own with interrupts *)
(* on, so each may take longer than asked.                                 *)
(*                                                                         *)
(* The sensor is external: it is modelled from the commands the drivers    *)
(* send and the times they rely on.  Calls that return before they touch   *)
(* the line (a second read of a file, too small a buffer) change nothing   *)
(* and are left out.                                                       *)
(***************************************************************************)
EXTENDS Integers, Sequences

CONSTANTS
  WireDriver,    \* "ds18b20", by registers, or "simple_io", by gpio calls
  Temperatures,  \* what may be measured, in sixteenths of a degree above -55
  PulseDelay,    \* bound: microseconds by which the low of a reset or of a
                 \* written bit may be exceeded
  SampleDelay    \* bound: the same for each of the two delays before a sample

ASSUME WireAssumption ==
  /\ WireDriver \in {"ds18b20", "simple_io"}
  /\ Temperatures \subseteq 0 .. 2880 /\ Temperatures # {}
  /\ PulseDelay \in Nat /\ SampleDelay \in Nat

VARIABLES
  slot,       \* the slot of the read that comes next; 0 in user mode
  got,        \* the bits that the read has sampled
  result,     \* what the last read returned: {hundredths of a degree}, {} if nothing
  bus,        \* what the sensor expects: "off", "rom", "function" or "read"
  heard,      \* bits of the command that is being sent to it
  sending,    \* bits it still has to send
  measured,   \* the temperature in its scratchpad
  converting  \* is a conversion going on?

sensor == <<bus, heard, sending, measured, converting>>
wire == <<slot, got, result, sensor>>

-----------------------------------------------------------------------------
SkipRom == 204
ConvertT == 68
ReadScratchpad == 190

\* What each bit is worth; the least significant bit comes first on the wire.
Weight == <<1, 2, 4, 8, 16, 32, 64, 128, 256, 512, 1024, 2048, 4096, 8192, 16384, 32768>>

Bits(n, w) == [i \in 1 .. w |-> (n \div Weight[i]) % 2]

Number(b) == b[1] + 2 * b[2] + 4 * b[3] + 8 * b[4] + 16 * b[5] + 32 * b[6] + 64 * b[7] + 128 * b[8]

\* The two bytes that were read, the low one first.
Raw(b) == Number(b) + 256 * Number([i \in 1 .. 8 |-> b[8 + i]])

\* How the sensor keeps a temperature: sixteenths of a degree, in two's complement.
Scratchpad(t) == (t - 880) % 65536

Slot(kind, low, sample) == [kind |-> kind, low |-> low, sample |-> sample]

\* ds18b20 does not look for the presence pulse that answers a reset; simple_io
\* does and goes on without it.
Reset == Slot("reset", 700, 0)

\* In simple_io the call that pulls the line low is inside a comment, so the line
\* stays high for a 0 as for a 1.
WriteBit(bit) == Slot("write", IF WireDriver = "simple_io" THEN 0
                               ELSE IF bit = 1 THEN 2 ELSE 60, 0)
ReadBit == Slot("read", 2, 10)

\* Faulty variant: the most significant bit is written first.
WriteByteReversed(byte) == [i \in 1 .. 8 |-> WriteBit(Bits(byte, 8)[9 - i])]

WriteByte(byte) == [i \in 1 .. 8 |-> WriteBit(Bits(byte, 8)[i])]
ReadByte == [i \in 1 .. 8 |-> ReadBit]

\* What one read does: start a conversion, wait for it, and fetch two bytes.
Program ==
  <<Reset>> \o WriteByte(SkipRom) \o WriteByte(ConvertT) \o <<Slot("wait", 0, 0)>>
    \o <<Reset>> \o WriteByte(SkipRom) \o WriteByte(ReadScratchpad)
    \o ReadByte \o ReadByte

FirstRead == Len(Program) - 15

\* What a number of sixteenths prints as, in hundredths of a degree: with one decimal.
Printed(n) == (n \div 16) * 100 + (((n % 16) * 10) \div 16) * 10

\* Faulty variant: the two bytes are not taken as a signed number.
TemperatureUnsigned(raw) == Printed(raw)

Signed(raw) == IF raw >= 32768 THEN raw - 65536 ELSE raw

\* ds18b20 makes the number signed and prints its magnitude; simple_io scales the
\* unsigned number.
Temperature(raw) ==
  IF WireDriver = "simple_io" THEN (raw * 625) \div 100
  ELSE IF Signed(raw) < 0 THEN -Printed(-Signed(raw)) ELSE Printed(Signed(raw))

\* The sensor may be anywhere: a client that was killed, or a driver that was
\* loaded before, can have left it in the middle of a command or an answer.
WireInit ==
  /\ slot = 0 /\ got = <<>> /\ result = {}
  /\ \/ bus \in {"off", "rom", "function"} /\ sending = <<>>
     \/ bus = "read" /\ sending \in {<<0>>, <<1, 1, 0>>}
  /\ heard \in {<<>>, <<0, 0>>, <<0, 1, 1, 1, 1, 1, 0>>}
  /\ measured \in Temperatures
  /\ converting = FALSE

-----------------------------------------------------------------------------
\* The sensor takes a short low for a 1 and a long one for a 0; in between it may
\* take it for either, and a line that stays high is no slot.
HeardAs(low) ==
  CASE low = 0           -> {}
    [] low \in 1 .. 15   -> {1}
    [] low \in 60 .. 120 -> {0}
    [] OTHER             -> {0, 1}

\* A command byte is complete.
Obey(byte) ==
  /\ heard' = <<>>
  /\ CASE bus = "rom" /\ byte = SkipRom ->
            bus' = "function" /\ UNCHANGED <<sending, converting>>
       [] bus = "function" /\ byte = ConvertT ->
            bus' = "off" /\ converting' = TRUE /\ UNCHANGED sending
       [] bus = "function" /\ byte = ReadScratchpad ->
            /\ bus' = "read"
            /\ sending' = Bits(Scratchpad(measured), 16)
            /\ UNCHANGED converting
       [] OTHER ->
            bus' = "off" /\ UNCHANGED <<sending, converting>>
  /\ UNCHANGED measured

HearBit(bit) ==
  IF Len(heard) < 7
  THEN heard' = Append(heard, bit) /\ UNCHANGED <<bus, sending, measured, converting>>
  ELSE Obey(Number(Append(heard, bit)))

\* The sensor at the end of a low pulse: a reset, a bit of a command, or the end
\* of a bit that it sent.
Hear(low) ==
  \/ /\ low >= 480
     /\ bus' = "rom" /\ heard' = <<>> /\ sending' = <<>>
     /\ UNCHANGED <<measured, converting>>
  \/ /\ low < 480 /\ bus \in {"rom", "function"}
     /\ \/ HeardAs(low) = {} /\ UNCHANGED sensor
        \/ \E bit \in HeardAs(low) : HearBit(bit)
  \/ /\ low < 480 /\ bus = "read" /\ low # 0 /\ sending # <<>>
     /\ sending' = Tail(sending) /\ UNCHANGED <<bus, heard, measured, converting>>
  \/ /\ low < 480 /\ bus \in {"off", "read"} /\ (bus = "off" \/ low = 0 \/ sending = <<>>)
     /\ UNCHANGED sensor

\* What the master finds on the line so long after it pulled it low: the sensor
\* holds a 0 for 15 microseconds, and without it the line is high.
Sampled(late) ==
  IF bus # "read" \/ sending = <<>> THEN {1}
  ELSE IF late <= 15 THEN {Head(sending)} ELSE {Head(sending), 1}

-----------------------------------------------------------------------------
At(kind) == slot \in 1 .. Len(Program) /\ Program[slot].kind = kind
Advance  == slot' = slot + 1

\* Faulty variant: the bits of the read before are still there.
CallKeepsBits ==
  /\ slot = 0
  /\ Advance
  /\ result' = {}
  /\ UNCHANGED <<got, sensor>>

CallRead ==
  /\ slot = 0
  /\ Advance
  /\ got' = <<>>
  /\ result' = {}
  /\ UNCHANGED sensor

\* A reset or a bit of a command; a slot that is not low has no length to exceed.
PulseSlot ==
  /\ At("reset") \/ At("write")
  /\ Advance
  /\ LET low == Program[slot].low IN
       \E extra \in (IF low = 0 THEN {0} ELSE 0 .. PulseDelay) : Hear(low + extra)
  /\ UNCHANGED <<got, result>>

\* 800 or 750 ms, as long as a conversion takes at most.
Wait ==
  /\ At("wait")
  /\ Advance
  /\ IF converting THEN measured' \in Temperatures ELSE UNCHANGED measured
  /\ converting' = FALSE
  /\ UNCHANGED <<got, result, bus, heard, sending>>

\* The line is held low for one delay and released, and sampled after another; the
\* sensor counts from the beginning of the first.
ReadSlot ==
  /\ At("read")
  /\ Advance
  /\ \E first, second \in 0 .. SampleDelay :
       LET low  == Program[slot].low + first
           late == low + Program[slot].sample + second
       IN  /\ \E bit \in Sampled(late) : got' = Append(got, bit)
           /\ Hear(low)
  /\ UNCHANGED result

\* The copy to the client may fail.
ReturnTemperature ==
  /\ slot > Len(Program)
  /\ slot' = 0
  /\ result' \in {{}, {Temperature(Raw(got))}}
  /\ UNCHANGED <<got, sensor>>

WireNext == CallRead \/ PulseSlot \/ Wait \/ ReadSlot \/ ReturnTemperature

WireSpec == WireInit /\ [][WireNext]_wire

-----------------------------------------------------------------------------
\* The types of the variables.
WireTypeOK ==
  /\ slot \in 0 .. Len(Program) + 1
  /\ got \in Seq({0, 1}) /\ Len(got) <= 16
  /\ result \subseteq Int
  /\ bus \in {"off", "rom", "function", "read"}
  /\ heard \in Seq({0, 1}) /\ Len(heard) <= 7
  /\ sending \in Seq({0, 1}) /\ Len(sending) <= 16
  /\ measured \in Temperatures
  /\ converting \in BOOLEAN

\* "Send the command byte" 0xCC, 0x44 and 0xBE: in whatever state the sensor was
\* when the read began, it is converting by the time the driver waits for the
\* conversion, and it is answering by the time the driver reads.
CommandsHeard ==
  /\ At("wait") => converting
  /\ slot = FirstRead => bus = "read"

\* A read returns the temperature of the conversion it started, to less than a
\* tenth of a degree and below zero too, if no delay is exceeded by more than its
\* bound.
ReadsTemperature ==
  \A t \in result : 16 * t - 100 * (measured - 880) \in -159 .. 159
=============================================================================
