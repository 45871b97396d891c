---------------------------- MODULE SensorProofs ----------------------------
(***************************************************************************)
(* Proofs about the light sensor, for any measurements and any garbage;    *)
(* about the motion sensor, for any samples; and about the thermometer,    *)
(* for any temperatures and for delays that are exceeded by a bounded      *)
(* time.                                                                   *)
(***************************************************************************)
EXTENDS LightSensor, MotionSensor, OneWire, SequenceTheorems, TLAPS

-----------------------------------------------------------------------------
\* A word is its high byte, the two highest bits of its low byte, and the rest.
LEMMA WordIsItsParts ==
  ASSUME NEW w \in Nat
  PROVE  \E h, x, y \in Nat : x < 4 /\ y < 64 /\ w = h * 256 + (x * 64 + y)
<1>1. w \div 256 \in Nat /\ w % 256 \in Nat /\ w % 256 < 256
      /\ w = (w \div 256) * 256 + (w % 256)
  OBVIOUS
<1>2. ASSUME NEW r \in Nat, r < 256
      PROVE  r \div 64 \in Nat /\ r \div 64 < 4 /\ r % 64 \in Nat /\ r % 64 < 64
             /\ r = (r \div 64) * 64 + (r % 64)
  <2>1. r \div 64 \in Nat /\ r \div 64 < 4
    BY <1>2
  <2>2. r % 64 \in Nat /\ r % 64 < 64 /\ r = (r \div 64) * 64 + (r % 64)
    OBVIOUS
  <2> QED BY <2>1, <2>2
<1>3. PICK h \in Nat, r \in Nat : r < 256 /\ w = h * 256 + r
  BY <1>1
<1>4. PICK x \in Nat, y \in Nat : x < 4 /\ y < 64 /\ r = x * 64 + y
  BY <1>2, <1>3
<1> QED BY <1>3, <1>4

\* The driver's masks and shifts, applied to the two bytes of a word, give what the
\* registers mean.
LEMMA AssembleIsReading ==
  ASSUME NEW ch \in Channels, NEW w \in Nat
  PROVE  Assemble(ch, w % 256, w \div 256) = Reading(ch, w)
<1> SUFFICES ASSUME NEW h \in Nat, NEW x \in Nat, NEW y \in Nat,
                    x < 4, y < 64, w = h * 256 + (x * 64 + y)
             PROVE  Assemble(ch, w % 256, w \div 256) = Reading(ch, w)
  BY WordIsItsParts
<1>1. w % 256 = x * 64 + y /\ w \div 256 = h
  OBVIOUS
<1>2. CASE ch = "als"
  BY <1>1, <1>2 DEF Assemble, Reading
<1>3. CASE ch = "ps"
  <2>1. (w \div 64) % 2 = 1 <=> (x * 64 + y) % 128 >= 64
    <3>1. w \div 64 = 4 * h + x
      OBVIOUS
    <3>2. (4 * h + x) % 2 = 1 <=> x \in {1, 3}
      OBVIOUS
    <3>3. (x * 64 + y) % 128 >= 64 <=> x \in {1, 3}
      OBVIOUS
    <3> QED BY <3>1, <3>2, <3>3
  <2>2. w % 16 = (x * 64 + y) % 16
    OBVIOUS
  <2> QED BY <1>1, <1>3, <2>1, <2>2 DEF Assemble, Reading
<1>4. CASE ch = "ir"
  <2>1. (w \div 128) % 2 = 1 <=> x * 64 + y >= 128
    <3>1. w \div 128 = 2 * h + (x \div 2)
      OBVIOUS
    <3>2. (2 * h + (x \div 2)) % 2 = 1 <=> x \in {2, 3}
      OBVIOUS
    <3>3. x * 64 + y >= 128 <=> x \in {2, 3}
      OBVIOUS
    <3> QED BY <3>1, <3>2, <3>3
  <2>2. w % 4 = (x * 64 + y) % 4
    OBVIOUS
  <2> QED BY <1>1, <1>4, <2>1, <2>2 DEF Assemble, Reading
<1> QED BY <1>2, <1>3, <1>4 DEF Channels

-----------------------------------------------------------------------------
\* A value that was read whole is what its measurement means; while its high byte is
\* still to be read, the low byte is that of the measurement the registers hold.
Faithful ==
  \A ch \in Channels : \A w \in whole[ch] :
    /\ w \in Words
    /\ IF step \in {2, 4, 6} /\ Channel(step) = ch THEN w = word[ch] /\ low = w % 256
                                                 ELSE value[ch] = Reading(ch, w)

\* The registers and the read's variables are functions of the channel.
Shape ==
  /\ step \in 0 .. 7
  /\ word \in [Channels -> Words]
  /\ value = [ch \in Channels |-> value[ch]]
  /\ whole = [ch \in Channels |-> whole[ch]]
  /\ step = 0 \/ shown = FALSE

LEMMA LightShape == LightSpec => []Shape
<1>1. LightInit => Shape
  BY DEF LightInit, Shape
<1>2. Shape /\ [LightNext]_light => Shape'
  <2> SUFFICES ASSUME Shape, [LightNext]_light PROVE Shape'
    OBVIOUS
  <2>1. ASSUME NEW ch \in Channels, Measure(ch) PROVE Shape'
    BY <2>1 DEF Measure, Shape
  <2>2. CASE CallLight
    BY <2>2 DEF CallLight, Shape
  <2>3. CASE ReadLow
    BY <2>3 DEF ReadLow, Shape
  <2>4. CASE ReadHigh
    BY <2>4 DEF ReadHigh, Shape
  <2>5. CASE ReturnLight
    BY <2>5 DEF ReturnLight, Shape
  <2>6. CASE UNCHANGED light
    BY <2>6 DEF light, Shape
  <2> QED BY <2>1, <2>2, <2>3, <2>4, <2>5, <2>6 DEF LightNext
<1> QED BY <1>1, <1>2, PTL DEF LightSpec

LEMMA ReadsFaithfully == LightSpec => []Faithful
<1>1. LightInit => Faithful
  BY DEF LightInit, Faithful
<1>2. Shape /\ Faithful /\ [LightNext]_light => Faithful'
  <2> SUFFICES ASSUME Shape, Faithful, [LightNext]_light,
                      NEW ch \in Channels, NEW w \in whole'[ch]
               PROVE  /\ w \in Words
                      /\ IF step' \in {2, 4, 6} /\ Channel(step') = ch
                         THEN w = word'[ch] /\ low' = w % 256
                         ELSE value'[ch] = Reading(ch, w)
    BY DEF Faithful
  <2>1. ASSUME NEW c \in Channels, Measure(c)
        PROVE  /\ w \in whole[ch]
               /\ UNCHANGED <<step, low, value>>
               /\ step \in {2, 4, 6} /\ Channel(step) = ch => word'[ch] = word[ch]
    BY <2>1 DEF Measure, Shape
  <2>2. CASE CallLight
    BY <2>2 DEF CallLight
  <2>3. CASE ReadLow
    <3>1. step \in {1, 3, 5} /\ step' = step + 1 /\ UNCHANGED <<word, value>>
      BY <2>3 DEF ReadLow, IsLow
    <3>2. Channel(step') = Channel(step)
      BY <3>1 DEF Channel
    <3>3. CASE ch = Channel(step)
      <4>1. w = word[ch] /\ low' = word[ch] % 256
        BY <2>3, <3>3 DEF ReadLow, Shape
      <4> QED BY <3>1, <3>2, <3>3, <4>1 DEF Shape
    <3>4. CASE ch # Channel(step)
      <4>1. w \in whole[ch]
        BY <2>3, <3>4 DEF ReadLow, Shape
      <4>2. step \notin {2, 4, 6}
        BY <3>1
      <4> QED BY <3>1, <3>2, <3>4, <4>1, <4>2 DEF Faithful
    <3> QED BY <3>3, <3>4
  <2>4. CASE ReadHigh
    <3>1. step \in {2, 4, 6} /\ step' \notin {2, 4, 6}
      BY <2>4 DEF ReadHigh, IsLow
    <3>2. w \in whole[ch]
      BY <2>4 DEF ReadHigh, Shape
    <3>3. CASE ch = Channel(step)
      <4>1. value'[ch] = Assemble(ch, low, word[ch] \div 256)
        BY <2>4, <3>3 DEF ReadHigh, Shape
      <4>2. w \in Words /\ w = word[ch] /\ low = w % 256
        BY <3>1, <3>2, <3>3 DEF Faithful
      <4>3. w \in Nat
        BY <4>2, LightAssumption
      <4>4. Assemble(ch, w % 256, w \div 256) = Reading(ch, w)
        BY <4>3, AssembleIsReading
      <4> QED BY <3>1, <4>1, <4>2, <4>4
    <3>4. CASE ch # Channel(step)
      <4>1. value'[ch] = value[ch]
        BY <2>4, <3>4 DEF ReadHigh, Shape
      <4> QED BY <3>1, <3>2, <3>4, <4>1 DEF Faithful
    <3> QED BY <3>3, <3>4
  <2>5. CASE ReturnLight
    <3>1. step' \notin {2, 4, 6} /\ step \notin {2, 4, 6} /\ w \in whole[ch] /\ value' = value
      BY <2>5 DEF ReturnLight
    <3> QED BY <3>1 DEF Faithful
  <2>6. CASE UNCHANGED light
    BY <2>6 DEF light, Faithful
  <2>7. ASSUME NEW c \in Channels, Measure(c)
        PROVE  /\ w \in Words
               /\ IF step' \in {2, 4, 6} /\ Channel(step') = ch
                  THEN w = word'[ch] /\ low' = w % 256
                  ELSE value'[ch] = Reading(ch, w)
    BY <2>1, <2>7 DEF Faithful
  <2> QED BY <2>2, <2>3, <2>4, <2>5, <2>6, <2>7 DEF LightNext
<1> QED BY <1>1, <1>2, LightShape, PTL DEF LightSpec

\* Each value that a client of the light sensor is given is one measurement, for any
\* contents of the registers, unless a measurement or a failed transfer came between
\* its two bytes.
THEOREM LightIsMeasured == LightSpec => []ShowsMeasurements
<1>1. Shape /\ Faithful => ShowsMeasurements
  BY DEF Shape, Faithful, ShowsMeasurements
<1> QED BY <1>1, LightShape, ReadsFaithfully, PTL

-----------------------------------------------------------------------------
IsByte(b) == b \in Nat /\ b < 256

\* Whatever two bytes a value is put together from, it has its width.
LEMMA AssembleFits ==
  ASSUME NEW l \in Nat, NEW h \in Nat, l < 256, h < 256
  PROVE  /\ Assemble("als", l, h) \in Nat /\ Assemble("als", l, h) < 65536
         /\ Assemble("ps", l, h) \in Nat /\ Assemble("ps", l, h) < 1024
         /\ Assemble("ir", l, h) \in Nat /\ Assemble("ir", l, h) < 1024
<1>1. Assemble("als", l, h) = h * 256 + l
  BY DEF Assemble
<1>2. Assemble("ps", l, h) = IF l % 128 >= 64 THEN 0 ELSE (h % 64) * 16 + (l % 16)
  BY DEF Assemble
<1>3. Assemble("ir", l, h) = IF l >= 128 THEN 0 ELSE h * 4 + (l % 4)
  BY DEF Assemble
<1>4. h * 256 + l \in Nat /\ h * 256 + l < 65536
  OBVIOUS
<1>5. (h % 64) * 16 + (l % 16) \in Nat /\ (h % 64) * 16 + (l % 16) < 1024
  OBVIOUS
<1>6. h * 4 + (l % 4) \in Nat /\ h * 4 + (l % 4) < 1024
  OBVIOUS
<1>7. Assemble("ps", l, h) \in Nat /\ Assemble("ps", l, h) < 1024
  BY <1>2, <1>5
<1>8. Assemble("ir", l, h) \in Nat /\ Assemble("ir", l, h) < 1024
  BY <1>3, <1>6
<1> QED BY <1>1, <1>4, <1>7, <1>8

\* The bytes that come over the bus are bytes.
LEMMA BytesOfWord ==
  ASSUME NEW w \in Words
  PROVE  IsByte(w % 256) /\ IsByte(w \div 256)
<1>1. w \in Nat /\ w < 65536
  BY LightAssumption
<1>2. w % 256 \in Nat /\ w % 256 < 256 /\ w \div 256 \in Nat /\ w \div 256 < 256
  BY <1>1
<1> QED BY <1>2 DEF IsByte

\* A value of each measurement fits its bits.
Fits(v) ==
  /\ v["als"] \in Nat /\ v["als"] < 65536
  /\ v["ps"] \in Nat /\ v["ps"] < 1024
  /\ v["ir"] \in Nat /\ v["ir"] < 1024

\* Before it is read, it is 0.
LEMMA NothingFits ==
  ASSUME NEW v, v["als"] = 0, v["ps"] = 0, v["ir"] = 0
  PROVE  Fits(v)
<1>1. 0 < 1024 /\ 0 < 65536
  BY SMT
<1> QED BY <1>1 DEF Fits

\* Each value is read from one measurement at most.
OneEach == \A ch \in Channels : whole[ch] = {} \/ \E w \in Words : whole[ch] = {w}

\* What the read holds fits, whatever it was put together from.
Holds == IsByte(low) /\ Fits(value) /\ OneEach /\ shown \in BOOLEAN

\* A read holds what fits, in every reachable state.
LEMMA LightHolds == LightSpec => []Holds
<1>1. LightInit => Holds
  <2> SUFFICES ASSUME LightInit PROVE Holds
    OBVIOUS
  <2>1. value["als"] = 0 /\ value["ps"] = 0 /\ value["ir"] = 0
    BY DEF LightInit, Channels
  <2>2. Fits(value)
    BY <2>1, NothingFits
  <2>3. IsByte(low)
    BY DEF LightInit, IsByte
  <2>4. OneEach
    BY DEF LightInit, OneEach
  <2> QED BY <2>2, <2>3, <2>4 DEF LightInit, Holds
<1>2. Shape /\ Holds /\ [LightNext]_light => Holds'
  <2> SUFFICES ASSUME Shape, Holds, [LightNext]_light PROVE Holds'
    OBVIOUS
  <2>1. ASSUME NEW ch \in Channels, Measure(ch) PROVE Holds'
    <3>1. UNCHANGED <<low, value, shown>>
      BY <2>1 DEF Measure
    <3>2. ASSUME NEW c \in Channels PROVE whole'[c] = {} \/ whole'[c] = whole[c]
      BY <2>1, <3>2 DEF Measure, Shape
    <3> QED BY <3>1, <3>2 DEF Holds, OneEach, IsByte, Fits
  <2>2. CASE CallLight
    <3>1. \A c \in Channels : value'[c] = 0 /\ whole'[c] = {}
      BY <2>2 DEF CallLight
    <3>3. value'["als"] = 0 /\ value'["ps"] = 0 /\ value'["ir"] = 0
      BY <3>1 DEF Channels
    <3>4. Fits(value')
      BY <3>3, NothingFits
    <3>2. shown' = FALSE /\ low' = low
      BY <2>2 DEF CallLight
    <3> QED BY <3>1, <3>2, <3>4 DEF Holds, OneEach, IsByte
  <2>3. CASE ReadLow
    <3>1. PICK ch \in Channels : ch = Channel(step) /\ word[ch] \in Words
      <4>1. step \in 1 .. 6
        BY <2>3 DEF ReadLow
      <4>2. Channel(step) \in Channels
        BY <4>1 DEF Channel, Channels
      <4> QED BY <4>2 DEF Shape
    <3>2. low' \in Garbage \/ low' = word[ch] % 256
      BY <2>3, <3>1 DEF ReadLow
    <3>3. IsByte(low')
      BY <3>1, <3>2, BytesOfWord, LightAssumption DEF IsByte
    <3>4. ASSUME NEW c \in Channels
          PROVE  whole'[c] \in {{}, {word[ch]}, whole[c]}
      BY <2>3, <3>1 DEF ReadLow, Shape
    <3>5. OneEach'
      BY <3>1, <3>4 DEF Holds, OneEach
    <3>6. UNCHANGED <<value, shown>>
      BY <2>3 DEF ReadLow
    <3> QED BY <3>3, <3>5, <3>6 DEF Holds, Fits
  <2>4. CASE ReadHigh
    <3>1. PICK ch \in Channels : ch = Channel(step) /\ word[ch] \in Words
      <4>1. step \in 1 .. 6
        BY <2>4 DEF ReadHigh
      <4>2. Channel(step) \in Channels
        BY <4>1 DEF Channel, Channels
      <4> QED BY <4>2 DEF Shape
    <3>2. PICK h : IsByte(h) /\ value' = [value EXCEPT ![ch] = Assemble(ch, low, h)]
      <4>1. \A b \in Garbage : IsByte(b)
        BY LightAssumption DEF IsByte
      <4>2. IsByte(word[ch] \div 256)
        BY <3>1, BytesOfWord
      <4> QED BY <2>4, <3>1, <4>1, <4>2 DEF ReadHigh
    <3>3. /\ Assemble("als", low, h) \in Nat /\ Assemble("als", low, h) < 65536
          /\ Assemble("ps", low, h) \in Nat /\ Assemble("ps", low, h) < 1024
          /\ Assemble("ir", low, h) \in Nat /\ Assemble("ir", low, h) < 1024
      BY <3>2, AssembleFits DEF Holds, IsByte
    <3>4. \A c \in Channels : value'[c] = IF c = ch THEN Assemble(c, low, h) ELSE value[c]
      BY <3>2 DEF Shape
    <3>5. Fits(value')
      BY <3>3, <3>4 DEF Holds, Fits, Channels
    <3>6. ASSUME NEW c \in Channels PROVE whole'[c] = {} \/ whole'[c] = whole[c]
      BY <2>4, <3>1 DEF ReadHigh, Shape
    <3>7. IsByte(low') /\ shown' = shown
      BY <2>4 DEF ReadHigh, IsByte
    <3> QED BY <3>5, <3>6, <3>7 DEF Holds, OneEach
  <2>5. CASE ReturnLight
    BY <2>5 DEF ReturnLight, Holds, OneEach
  <2>6. CASE UNCHANGED light
    BY <2>6 DEF light, Holds, OneEach
  <2> QED BY <2>1, <2>2, <2>3, <2>4, <2>5, <2>6 DEF LightNext
<1> QED BY <1>1, <1>2, LightShape, PTL DEF LightSpec

\* The types of the light sensor's variables hold in every reachable state, for any
\* contents of the registers and any garbage: a value never exceeds its bits.
THEOREM LightTypeCorrect == LightSpec => []LightTypeOK
<1>1. Shape /\ Holds => LightTypeOK
  <2> SUFFICES ASSUME Shape, Holds PROVE LightTypeOK
    OBVIOUS
  <2>2. low \in 0 .. 255
    BY DEF Holds, IsByte
  <2>3. \A ch \in Channels : value[ch] \in Nat /\ value[ch] < (IF ch = "als" THEN 65536 ELSE 1024)
    BY DEF Holds, Fits, Channels
  <2>4. step \in 0 .. 7 /\ word \in [Channels -> Words] /\ shown \in BOOLEAN
        /\ \A ch \in Channels : whole[ch] = {} \/ \E w \in Words : whole[ch] = {w}
    BY DEF Shape, Holds, OneEach
  <2> QED BY <2>2, <2>3, <2>4 DEF LightTypeOK
<1> QED BY <1>1, LightShape, LightHolds, PTL

-----------------------------------------------------------------------------
\* The types of the motion sensor's variables hold in every reachable state: every
\* element of the array and of the reply has been written.
THEOREM MotionTypeCorrect == MotionSpec => []MotionTypeOK
<1> DEFINE Inv == MotionTypeOK /\ (at = "read" => data # <<>>)
<1>1. MotionInit => Inv
  BY DEF MotionInit, MotionTypeOK
<1>2. Inv /\ [MotionNext]_motion => Inv'
  <2> SUFFICES ASSUME Inv, [MotionNext]_motion PROVE Inv'
    OBVIOUS
  <2>1. CASE Sample \/ CallMotion \/ Fail
    BY <2>1 DEF Sample, CallMotion, Fail, MotionTypeOK
  <2>2. CASE Transfer
    <3>1. Burst(sample) \in [1 .. 14 -> Bytes] /\ Burst(sample) # <<>>
      <4>1. ASSUME NEW i \in 1 .. 14
            PROVE  (IF i = 1 THEN Junk ELSE Byte(sample, i - 1)) \in Bytes
        BY <4>1 DEF MotionTypeOK, Byte, Bytes
      <4> QED BY <4>1 DEF Burst
    <3> QED BY <2>2, <3>1 DEF Transfer, MotionTypeOK
  <2>3. CASE ReturnMotion
    <3>1. data \in [1 .. 14 -> Bytes]
      BY <2>3 DEF ReturnMotion, MotionTypeOK
    <3>2. Join(data) \in [1 .. 7 -> Bytes \X Bytes]
      <4>1. ASSUME NEW i \in 1 .. 7
            PROVE  <<data[2 * i - 1], data[2 * i]>> \in Bytes \X Bytes
        <5>1. 2 * i - 1 \in 1 .. 14 /\ 2 * i \in 1 .. 14
          OBVIOUS
        <5> QED BY <3>1, <5>1
      <4> QED BY <4>1 DEF Join
    <3> QED BY <2>3, <3>2 DEF ReturnMotion, MotionTypeOK
  <2>4. CASE UNCHANGED motion
    BY <2>4 DEF MotionTypeOK, motion
  <2> QED BY <2>1, <2>2, <2>3, <2>4 DEF MotionNext
<1> QED BY <1>1, <1>2, PTL DEF MotionSpec

-----------------------------------------------------------------------------
\* The four lowest bits of a number, and the rest.
LEMMA FourBits ==
  ASSUME NEW n \in Nat
  PROVE  n = (n % 2) + 2 * ((n \div 2) % 2) + 4 * ((n \div 4) % 2) + 8 * ((n \div 8) % 2)
             + 16 * (n \div 16)
OBVIOUS

\* The eight lowest bits of a number, as a byte, and the rest.
LEMMA EightBits ==
  ASSUME NEW n \in Nat, NEW b,
         b[1] = n % 2, b[2] = (n \div 2) % 2, b[3] = (n \div 4) % 2, b[4] = (n \div 8) % 2,
         b[5] = (n \div 16) % 2, b[6] = (n \div 32) % 2, b[7] = (n \div 64) % 2,
         b[8] = (n \div 128) % 2
  PROVE  Number(b) \in Int /\ n = Number(b) + 256 * (n \div 256)
<1>1. PICK h \in Nat : h = n \div 16
  OBVIOUS
<1>2. /\ h \div 2 = n \div 32 /\ h \div 4 = n \div 64 /\ h \div 8 = n \div 128
      /\ h \div 16 = n \div 256
  BY <1>1
<1>3. h = (h % 2) + 2 * ((h \div 2) % 2) + 4 * ((h \div 4) % 2) + 8 * ((h \div 8) % 2) + 16 * (h \div 16)
  BY FourBits
<1>4. PICK b1, b2, b3, b4, b5, b6, b7, b8 \in Int :
        /\ b1 = n % 2 /\ b2 = (n \div 2) % 2 /\ b3 = (n \div 4) % 2 /\ b4 = (n \div 8) % 2
        /\ b5 = h % 2 /\ b6 = (h \div 2) % 2 /\ b7 = (h \div 4) % 2 /\ b8 = (h \div 8) % 2
  OBVIOUS
<1>5. n = b1 + 2 * b2 + 4 * b3 + 8 * b4 + 16 * (b5 + 2 * b6 + 4 * b7 + 8 * b8 + 16 * (n \div 256))
  BY <1>1, <1>2, <1>3, <1>4, FourBits
<1>6. Number(b) = b1 + 2 * b2 + 4 * b3 + 8 * b4 + 16 * b5 + 32 * b6 + 64 * b7 + 128 * b8
  <2>1. /\ b[1] = b1 /\ b[2] = b2 /\ b[3] = b3 /\ b[4] = b4
        /\ b[5] = b5 /\ b[6] = b6 /\ b[7] = b7 /\ b[8] = b8
    BY <1>1, <1>2, <1>4
  <2> QED BY <2>1 DEF Number
<1> QED BY <1>5, <1>6

\* The bits of a number below 2^16 give it back.
LEMMA BitsGiveNumber ==
  ASSUME NEW n \in Nat, n < 65536, NEW b, \A i \in 1 .. 16 : b[i] = Bits(n, 16)[i]
  PROVE  Raw(b) = n
<1>1. PICK h \in Nat : h = n \div 256
  OBVIOUS
<1>2. /\ h \div 2 = n \div 512 /\ h \div 4 = n \div 1024 /\ h \div 8 = n \div 2048
      /\ h \div 16 = n \div 4096 /\ h \div 32 = n \div 8192 /\ h \div 64 = n \div 16384
      /\ h \div 128 = n \div 32768 /\ h \div 256 = 0
  BY <1>1
<1>3. ASSUME NEW i \in 1 .. 16 PROVE b[i] = (n \div Weight[i]) % 2
  BY <1>3 DEF Bits
<1>4. /\ b[1] = n % 2 /\ b[2] = (n \div 2) % 2 /\ b[3] = (n \div 4) % 2 /\ b[4] = (n \div 8) % 2
      /\ b[5] = (n \div 16) % 2 /\ b[6] = (n \div 32) % 2 /\ b[7] = (n \div 64) % 2
      /\ b[8] = (n \div 128) % 2
  BY <1>3 DEF Weight
<1>5. /\ b[9] = (n \div 256) % 2 /\ b[10] = (n \div 512) % 2 /\ b[11] = (n \div 1024) % 2
      /\ b[12] = (n \div 2048) % 2 /\ b[13] = (n \div 4096) % 2 /\ b[14] = (n \div 8192) % 2
      /\ b[15] = (n \div 16384) % 2 /\ b[16] = (n \div 32768) % 2
  BY <1>3 DEF Weight
<1>6. Number(b) \in Int /\ n = Number(b) + 256 * h
  BY <1>1, <1>4, EightBits
<1> DEFINE c == [i \in 1 .. 8 |-> b[8 + i]]
<1>7. /\ c[1] = h % 2 /\ c[2] = (h \div 2) % 2 /\ c[3] = (h \div 4) % 2 /\ c[4] = (h \div 8) % 2
      /\ c[5] = (h \div 16) % 2 /\ c[6] = (h \div 32) % 2 /\ c[7] = (h \div 64) % 2
      /\ c[8] = (h \div 128) % 2
  BY <1>1, <1>2, <1>5
<1>8. Number(c) \in Int /\ h = Number(c)
  <2> HIDE DEF c
  <2>1. Number(c) \in Int /\ h = Number(c) + 256 * (h \div 256)
    BY <1>7, EightBits
  <2> QED BY <1>2, <2>1
<1>9. Raw(b) = Number(b) + 256 * Number(c)
  BY DEF Raw
<1> HIDE DEF c
<1> QED BY <1>6, <1>8, <1>9

\* So do the bits of a command.
LEMMA BitsGiveCommand ==
  ASSUME NEW c \in {SkipRom, ConvertT, ReadScratchpad}, NEW b,
         \A i \in 1 .. 8 : b[i] = Bits(c, 8)[i]
  PROVE  Number(b) = c
<1>1. ASSUME NEW i \in 1 .. 8 PROVE b[i] = (c \div Weight[i]) % 2
  BY <1>1 DEF Bits
<1>2. /\ b[1] = (c \div 1) % 2 /\ b[2] = (c \div 2) % 2 /\ b[3] = (c \div 4) % 2
      /\ b[4] = (c \div 8) % 2 /\ b[5] = (c \div 16) % 2 /\ b[6] = (c \div 32) % 2
      /\ b[7] = (c \div 64) % 2 /\ b[8] = (c \div 128) % 2
  BY <1>1 DEF Weight
<1> QED BY <1>2 DEF Number, SkipRom, ConvertT, ReadScratchpad

\* A function on 1 .. n is a sequence of length n.
LEMMA FunctionIsSeq ==
  ASSUME NEW X, NEW n \in Nat, NEW q \in [1 .. n -> X]
  PROVE  q \in Seq(X) /\ Len(q) = n
BY SeqDef, LenProperties

\* A bit is 0 or 1.
LEMMA BitsAreBits ==
  ASSUME NEW n \in Nat, NEW w \in Nat, w <= 16, NEW i \in 1 .. w
  PROVE  Bits(n, w)[i] \in {0, 1}
<1>1. Weight[i] \in Nat \ {0}
  BY DEF Weight
<1>2. n \div Weight[i] \in Nat
  BY <1>1
<1> QED BY <1>2 DEF Bits

\* At most so many bits.
Upto(s, n) == s \in Seq({0, 1}) /\ Len(s) <= n

LEMMA AnswerIsBits ==
  ASSUME NEW n \in Nat
  PROVE  Upto(Bits(n, 16), 16)
<1>1. \A i \in 1 .. 16 : Bits(n, 16)[i] \in {0, 1}
  BY BitsAreBits
<1>2. Bits(n, 16) = [i \in 1 .. 16 |-> Bits(n, 16)[i]]
  BY DEF Bits
<1>3. PICK q : q = Bits(n, 16)
  OBVIOUS
<1>4. q \in [1 .. 16 -> {0, 1}]
  BY <1>1, <1>2, <1>3
<1>5. q \in Seq({0, 1}) /\ Len(q) = 16
  BY <1>4, FunctionIsSeq
<1>6. Upto(q, 16)
  BY <1>5 DEF Upto
<1> QED BY <1>3, <1>6

\* What the driver prints is the temperature to less than a tenth of a degree.
LEMMA PrintsNear ==
  ASSUME WireDriver = "ds18b20", NEW t \in Nat, t <= 2880
  PROVE  16 * Temperature(Scratchpad(t)) - 100 * (t - 880) \in -159 .. 159
<1>1. ASSUME NEW a \in Nat PROVE 100 * a - 16 * Printed(a) \in 0 .. 159 /\ Printed(a) \in Int
  <2>1. a \div 16 \in Nat /\ a % 16 \in 0 .. 15 /\ a = 16 * (a \div 16) + (a % 16)
    OBVIOUS
  <2>2. ASSUME NEW r \in 0 .. 15 PROVE (r * 10) \div 16 \in Nat /\ 10 * r - 16 * ((r * 10) \div 16) \in 0 .. 15
    OBVIOUS
  <2> QED BY <2>1, <2>2 DEF Printed
<1>2. Scratchpad(t) \in Int /\ Signed(Scratchpad(t)) = t - 880
  BY DEF Scratchpad, Signed
<1>3. Temperature(Scratchpad(t)) = IF t < 880 THEN -Printed(880 - t) ELSE Printed(t - 880)
  BY <1>2 DEF Temperature
<1>4. ASSUME NEW p \in Int, 100 * (880 - t) - 16 * p \in 0 .. 159
      PROVE  16 * (-p) - 100 * (t - 880) \in -159 .. 159
  BY <1>4
<1>5. ASSUME NEW p \in Int, 100 * (t - 880) - 16 * p \in 0 .. 159
      PROVE  16 * p - 100 * (t - 880) \in -159 .. 159
  BY <1>5
<1>6. CASE t < 880
  <2>1. 100 * (880 - t) - 16 * Printed(880 - t) \in 0 .. 159 /\ Printed(880 - t) \in Int
    BY <1>1, <1>6
  <2>2. 16 * (-Printed(880 - t)) - 100 * (t - 880) \in -159 .. 159
    BY <2>1, <1>4
  <2> QED BY <1>3, <1>6, <2>2
<1>7. CASE t >= 880
  <2>1. 100 * (t - 880) - 16 * Printed(t - 880) \in 0 .. 159 /\ Printed(t - 880) \in Int
    BY <1>1, <1>7
  <2> QED BY <1>3, <1>5, <1>7, <2>1
<1> QED BY <1>6, <1>7

-----------------------------------------------------------------------------
\* The slots of a read, one by one.
Expected(i) ==
  CASE i \in {1, 19}  -> Reset
    [] i \in 2 .. 9   -> WriteBit(Bits(SkipRom, 8)[i - 1])
    [] i \in 10 .. 17 -> WriteBit(Bits(ConvertT, 8)[i - 9])
    [] i = 18         -> Slot("wait", 0, 0)
    [] i \in 20 .. 27 -> WriteBit(Bits(SkipRom, 8)[i - 19])
    [] i \in 28 .. 35 -> WriteBit(Bits(ReadScratchpad, 8)[i - 27])
    [] i \in 36 .. 51 -> ReadBit

Slots == [kind : {"reset", "write", "wait", "read"}, low : Nat, sample : Nat]

LEMMA BytesOfSlots ==
  /\ \A c : WriteByte(c) \in Seq(Slots) /\ Len(WriteByte(c)) = 8
  /\ ReadByte \in Seq(Slots) /\ Len(ReadByte) = 8
  /\ <<Reset>> \in Seq(Slots) /\ Len(<<Reset>>) = 1
  /\ <<Slot("wait", 0, 0)>> \in Seq(Slots) /\ Len(<<Slot("wait", 0, 0)>>) = 1
<1>1. \A bit : WriteBit(bit) \in Slots
  BY DEF WriteBit, Slot, Slots
<1>2. ReadBit \in Slots /\ Reset \in Slots /\ Slot("wait", 0, 0) \in Slots
  BY DEF ReadBit, Reset, Slot, Slots
<1>3. \A c : WriteByte(c) \in [1 .. 8 -> Slots]
  BY <1>1 DEF WriteByte
<1>4. ReadByte \in [1 .. 8 -> Slots]
  BY <1>2 DEF ReadByte
<1>5. ASSUME NEW q \in [1 .. 8 -> Slots] PROVE q \in Seq(Slots) /\ Len(q) = 8
  BY FunctionIsSeq
<1>6. <<Reset>> \in Seq(Slots) /\ <<Slot("wait", 0, 0)>> \in Seq(Slots)
  BY <1>2
<1>7. Len(<<Reset>>) = 1 /\ Len(<<Slot("wait", 0, 0)>>) = 1
  OBVIOUS
<1> QED BY <1>3, <1>4, <1>5, <1>6, <1>7

\* s is the program's beginning.
Begins(s) == s \in Seq(Slots) /\ \A i \in 1 .. Len(s) : s[i] = Expected(i)

\* s comes in it after n slots.
Follows(s, n) == s \in Seq(Slots) /\ \A i \in 1 .. Len(s) : s[i] = Expected(n + i)

LEMMA Extended ==
  ASSUME NEW p, NEW q, Begins(p), Follows(q, Len(p))
  PROVE  Begins(p \o q) /\ Len(p \o q) = Len(p) + Len(q)
<1> DEFINE n == Len(p)
           m == Len(q)
<1>1. /\ p \in Seq(Slots) /\ q \in Seq(Slots) /\ p \o q \in Seq(Slots)
      /\ n \in Nat /\ m \in Nat /\ Len(p \o q) = n + m
  BY ConcatProperties, LenProperties DEF Begins, Follows
<1>2. ASSUME NEW i \in 1 .. n + m PROVE (p \o q)[i] = Expected(i)
  <2>1. (p \o q)[i] = IF i <= n THEN p[i] ELSE q[i - n]
    BY <1>1, ConcatProperties
  <2>2. CASE i <= n
    BY <1>1, <2>1, <2>2 DEF Begins
  <2>3. CASE i > n
    <3>1. i - n \in 1 .. m /\ n + (i - n) = i
      BY <1>1, <2>3
    <3>2. q[i - n] = Expected(n + (i - n))
      BY <3>1 DEF Follows
    <3> QED BY <1>1, <2>1, <2>3, <3>1, <3>2
  <2> QED BY <1>1, <2>2, <2>3
<1> QED BY <1>1, <1>2 DEF Begins

LEMMA ProgramIs ==
  /\ Program \in Seq(Slots) /\ Len(Program) = 51
  /\ \A i \in 1 .. 51 : Program[i] = Expected(i)
<1> DEFINE first == <<Reset>>
           a == first \o WriteByte(SkipRom)
           b == a \o WriteByte(ConvertT)
           c == b \o <<Slot("wait", 0, 0)>>
           d == c \o <<Reset>>
           e == d \o WriteByte(SkipRom)
           f == e \o WriteByte(ReadScratchpad)
           g == f \o ReadByte
           h == g \o ReadByte
<1>1. Begins(first) /\ Len(first) = 1
  <2>1. first[1] = Expected(1)
    BY DEF Expected
  <2> QED BY <2>1, BytesOfSlots DEF Begins
<1> HIDE DEF first
<1>2. Begins(a) /\ Len(a) = 9
  <2>1. WriteByte(SkipRom) \in Seq(Slots) /\ Len(WriteByte(SkipRom)) = 8
    BY BytesOfSlots
  <2>2. \A i \in 1 .. 8 : WriteByte(SkipRom)[i] = Expected(1 + i)
    BY DEF Expected, WriteByte
  <2>3. Follows(WriteByte(SkipRom), Len(first))
    BY <1>1, <2>1, <2>2 DEF Follows
  <2>4. Begins(first \o WriteByte(SkipRom)) /\ Len(first \o WriteByte(SkipRom)) = Len(first) + Len(WriteByte(SkipRom))
    BY <1>1, <2>3, Extended
  <2> QED BY <1>1, <2>1, <2>4
<1> HIDE DEF a
<1>3. Begins(b) /\ Len(b) = 17
  <2>1. WriteByte(ConvertT) \in Seq(Slots) /\ Len(WriteByte(ConvertT)) = 8
    BY BytesOfSlots
  <2>2. \A i \in 1 .. 8 : WriteByte(ConvertT)[i] = Expected(9 + i)
    BY DEF Expected, WriteByte
  <2>3. Follows(WriteByte(ConvertT), Len(a))
    BY <1>2, <2>1, <2>2 DEF Follows
  <2>4. Begins(a \o WriteByte(ConvertT)) /\ Len(a \o WriteByte(ConvertT)) = Len(a) + Len(WriteByte(ConvertT))
    BY <1>2, <2>3, Extended
  <2> QED BY <1>2, <2>1, <2>4
<1> HIDE DEF b
<1>4. Begins(c) /\ Len(c) = 18
  <2>1. <<Slot("wait", 0, 0)>> \in Seq(Slots) /\ Len(<<Slot("wait", 0, 0)>>) = 1
    BY BytesOfSlots
  <2>2. \A i \in 1 .. 1 : <<Slot("wait", 0, 0)>>[i] = Expected(17 + i)
    BY DEF Expected
  <2>3. Follows(<<Slot("wait", 0, 0)>>, Len(b))
    BY <1>3, <2>1, <2>2 DEF Follows
  <2>4. Begins(b \o <<Slot("wait", 0, 0)>>) /\ Len(b \o <<Slot("wait", 0, 0)>>) = Len(b) + Len(<<Slot("wait", 0, 0)>>)
    BY <1>3, <2>3, Extended
  <2> QED BY <1>3, <2>1, <2>4
<1> HIDE DEF c
<1>5. Begins(d) /\ Len(d) = 19
  <2>1. <<Reset>> \in Seq(Slots) /\ Len(<<Reset>>) = 1
    BY BytesOfSlots
  <2>2. \A i \in 1 .. 1 : <<Reset>>[i] = Expected(18 + i)
    BY DEF Expected
  <2>3. Follows(<<Reset>>, Len(c))
    BY <1>4, <2>1, <2>2 DEF Follows
  <2>4. Begins(c \o <<Reset>>) /\ Len(c \o <<Reset>>) = Len(c) + Len(<<Reset>>)
    BY <1>4, <2>3, Extended
  <2> QED BY <1>4, <2>1, <2>4
<1> HIDE DEF d
<1>6. Begins(e) /\ Len(e) = 27
  <2>1. WriteByte(SkipRom) \in Seq(Slots) /\ Len(WriteByte(SkipRom)) = 8
    BY BytesOfSlots
  <2>2. \A i \in 1 .. 8 : WriteByte(SkipRom)[i] = Expected(19 + i)
    BY DEF Expected, WriteByte
  <2>3. Follows(WriteByte(SkipRom), Len(d))
    BY <1>5, <2>1, <2>2 DEF Follows
  <2>4. Begins(d \o WriteByte(SkipRom)) /\ Len(d \o WriteByte(SkipRom)) = Len(d) + Len(WriteByte(SkipRom))
    BY <1>5, <2>3, Extended
  <2> QED BY <1>5, <2>1, <2>4
<1> HIDE DEF e
<1>7. Begins(f) /\ Len(f) = 35
  <2>1. WriteByte(ReadScratchpad) \in Seq(Slots) /\ Len(WriteByte(ReadScratchpad)) = 8
    BY BytesOfSlots
  <2>2. \A i \in 1 .. 8 : WriteByte(ReadScratchpad)[i] = Expected(27 + i)
    BY DEF Expected, WriteByte
  <2>3. Follows(WriteByte(ReadScratchpad), Len(e))
    BY <1>6, <2>1, <2>2 DEF Follows
  <2>4. Begins(e \o WriteByte(ReadScratchpad)) /\ Len(e \o WriteByte(ReadScratchpad)) = Len(e) + Len(WriteByte(ReadScratchpad))
    BY <1>6, <2>3, Extended
  <2> QED BY <1>6, <2>1, <2>4
<1> HIDE DEF f
<1>8. Begins(g) /\ Len(g) = 43
  <2>1. ReadByte \in Seq(Slots) /\ Len(ReadByte) = 8
    BY BytesOfSlots
  <2>2. \A i \in 1 .. 8 : ReadByte[i] = Expected(35 + i)
    BY DEF Expected, ReadByte
  <2>3. Follows(ReadByte, Len(f))
    BY <1>7, <2>1, <2>2 DEF Follows
  <2>4. Begins(f \o ReadByte) /\ Len(f \o ReadByte) = Len(f) + Len(ReadByte)
    BY <1>7, <2>3, Extended
  <2> QED BY <1>7, <2>1, <2>4
<1> HIDE DEF g
<1>9. Begins(h) /\ Len(h) = 51
  <2>1. ReadByte \in Seq(Slots) /\ Len(ReadByte) = 8
    BY BytesOfSlots
  <2>2. \A i \in 1 .. 8 : ReadByte[i] = Expected(43 + i)
    BY DEF Expected, ReadByte
  <2>3. Follows(ReadByte, Len(g))
    BY <1>8, <2>1, <2>2 DEF Follows
  <2>4. Begins(g \o ReadByte) /\ Len(g \o ReadByte) = Len(g) + Len(ReadByte)
    BY <1>8, <2>3, Extended
  <2> QED BY <1>8, <2>1, <2>4
<1> HIDE DEF h
<1>10. Program = h
  BY DEF Program, first, a, b, c, d, e, f, g, h
<1> QED BY <1>9, <1>10 DEF Begins

\* Which slots are of which kind.
LEMMA KindsOfSlots ==
  /\ Len(Program) = 51 /\ FirstRead = 36
  /\ At("reset") <=> slot \in {1, 19}
  /\ At("write") <=> slot \in 2 .. 17 \cup 20 .. 35
  /\ At("wait")  <=> slot = 18
  /\ At("read")  <=> slot \in 36 .. 51
<1>1. /\ \A bit : WriteBit(bit).kind = "write"
      /\ Reset.kind = "reset" /\ ReadBit.kind = "read" /\ Slot("wait", 0, 0).kind = "wait"
  BY DEF WriteBit, Reset, ReadBit, Slot
<1>2. ASSUME NEW i \in 1 .. 51
      PROVE  Program[i].kind = IF i = 1 \/ i = 19 THEN "reset" ELSE IF i = 18 THEN "wait"
                               ELSE IF i >= 36 THEN "read" ELSE "write"
  <2>1. Expected(i).kind = IF i = 1 \/ i = 19 THEN "reset" ELSE IF i = 18 THEN "wait"
                           ELSE IF i >= 36 THEN "read" ELSE "write"
    BY <1>1 DEF Expected
  <2>2. Program[i] = Expected(i)
    BY ProgramIs
  <2> QED BY <2>1, <2>2
<1>3. Len(Program) = 51 /\ FirstRead = 36
  BY ProgramIs DEF FirstRead
<1>4. \A kind : At(kind) <=> slot \in 1 .. 51 /\ Program[slot].kind = kind
  BY <1>3 DEF At
<1>5. CASE slot \in 1 .. 51
  <2>1. Program[slot].kind = IF slot = 1 \/ slot = 19 THEN "reset" ELSE IF slot = 18 THEN "wait"
                             ELSE IF slot >= 36 THEN "read" ELSE "write"
    BY <1>2, <1>5
  <2> QED BY <1>3, <1>4, <1>5, <2>1
<1>6. CASE slot \notin 1 .. 51
  <2>1. ~At("reset") /\ ~At("write") /\ ~At("wait") /\ ~At("read")
    BY <1>4, <1>6
  <2>2. slot \notin {1, 19} /\ slot # 18 /\ slot \notin 2 .. 17 \cup 20 .. 35 /\ slot \notin 36 .. 51
    BY <1>6
  <2> QED BY <1>3, <2>1, <2>2
<1> QED BY <1>5, <1>6

\* A slot is low for some time.
LEMMA LowIsNat == \A i \in 1 .. 51 : Program[i].low \in Nat
<1>1. ASSUME NEW i \in 1 .. 51 PROVE Program[i] \in Slots
  BY ProgramIs, ElementOfSeq
<1> QED BY <1>1 DEF Slots

\* The types of what the sensor keeps.
SensorOK ==
  /\ bus \in {"off", "rom", "function", "read"}
  /\ Upto(heard, 7) /\ Upto(sending, 16)
  /\ measured \in Temperatures
  /\ converting \in BOOLEAN

\* What is taken from them or added to them are bits.
LEMMA BitsOnly ==
  /\ \A n \in Nat : Upto(<<>>, n)
  /\ \A s : \A n \in Nat : Upto(s, n) /\ s # <<>> => Upto(Tail(s), n) /\ Head(s) \in {0, 1}
  /\ \A s : \A n \in Nat : \A b \in {0, 1} : Upto(s, n) /\ Len(s) < n => Upto(Append(s, b), n)
<1>1. \A n \in Nat : Upto(<<>>, n)
  BY DEF Upto
<1>2. ASSUME NEW s, NEW n \in Nat, Upto(s, n), s # <<>>
      PROVE  Upto(Tail(s), n) /\ Head(s) \in {0, 1}
  BY <1>2, HeadTailProperties, LenProperties DEF Upto
<1>3. ASSUME NEW s, NEW n \in Nat, NEW b \in {0, 1}, Upto(s, n), Len(s) < n
      PROVE  Upto(Append(s, b), n)
  BY <1>3, AppendProperties, LenProperties DEF Upto
<1> QED BY <1>1, <1>2, <1>3

\* Whatever the sensor hears, it keeps what it may.
LEMMA HearKeepsTypes ==
  ASSUME SensorOK, NEW pulse \in Nat, Hear(pulse)
  PROVE  SensorOK'
<1>1. CASE UNCHANGED sensor
  BY <1>1 DEF sensor, SensorOK
<1>2. CASE bus' = "rom" /\ heard' = <<>> /\ sending' = <<>> /\ UNCHANGED <<measured, converting>>
  BY <1>2, BitsOnly DEF SensorOK
<1>3. CASE sending # <<>> /\ sending' = Tail(sending) /\ UNCHANGED <<bus, heard, measured, converting>>
  BY <1>3, BitsOnly DEF SensorOK
<1>4. ASSUME NEW bit \in {0, 1}, HearBit(bit) PROVE SensorOK'
  <2>1. CASE Len(heard) < 7
    <3>1. Upto(Append(heard, bit), 7)
      BY <2>1, BitsOnly DEF SensorOK
    <3> QED BY <1>4, <2>1, <3>1 DEF SensorOK, HearBit
  <2>2. CASE ~(Len(heard) < 7)
    <3>1. PICK byte : Obey(byte)
      BY <1>4, <2>2 DEF HearBit
    <3>2. measured' = measured /\ heard' = <<>>
      BY <3>1 DEF Obey
    <3>3. PICK n \in Nat : n = Scratchpad(measured)
      BY WireAssumption DEF SensorOK, Scratchpad
    <3>4. PICK answer : answer = Bits(n, 16) /\ Upto(answer, 16)
      BY AnswerIsBits
    <3>5. bus' \in {"off", "function", "read"} /\ converting' \in {TRUE, converting}
          /\ sending' \in {sending, answer}
      BY <3>1, <3>3, <3>4 DEF Obey, SkipRom, ConvertT, ReadScratchpad
    <3>6. Upto(sending', 16) /\ Upto(heard', 7)
      BY <3>2, <3>4, <3>5, BitsOnly DEF SensorOK
    <3> QED BY <3>2, <3>5, <3>6 DEF SensorOK
  <2> QED BY <2>1, <2>2
<1>5. \A bit \in HeardAs(pulse) : bit \in {0, 1}
  BY DEF HeardAs
<1> QED BY <1>1, <1>2, <1>3, <1>4, <1>5 DEF Hear

\* How many bits the read has sampled.
GotSoFar ==
  /\ slot \in 0 .. 52
  /\ got \in Seq({0, 1})
  /\ slot = 0 => Len(got) <= 16
  /\ slot \in 1 .. 36 => got = <<>>
  /\ slot \in 37 .. 52 => Len(got) = slot - 36

WireShape == SensorOK /\ GotSoFar /\ result \subseteq Int

\* What is printed is a number.
LEMMA TemperatureIsInt ==
  ASSUME NEW b \in Seq({0, 1}), Len(b) = 16
  PROVE  Temperature(Raw(b)) \in Int
<1>1. ASSUME NEW i \in 1 .. 16 PROVE b[i] \in {0, 1}
  BY ElementOfSeq
<1>2. Raw(b) \in Int
  <2> DEFINE c == [i \in 1 .. 8 |-> b[8 + i]]
  <2>1. /\ b[1] \in Int /\ b[2] \in Int /\ b[3] \in Int /\ b[4] \in Int
        /\ b[5] \in Int /\ b[6] \in Int /\ b[7] \in Int /\ b[8] \in Int
    BY <1>1
  <2>2. /\ c[1] \in Int /\ c[2] \in Int /\ c[3] \in Int /\ c[4] \in Int
        /\ c[5] \in Int /\ c[6] \in Int /\ c[7] \in Int /\ c[8] \in Int
    BY <1>1
  <2> HIDE DEF c
  <2>3. Number(b) \in Int
    <3>1. PICK b1, b2, b3, b4, b5, b6, b7, b8 \in Int :
            /\ b[1] = b1 /\ b[2] = b2 /\ b[3] = b3 /\ b[4] = b4
            /\ b[5] = b5 /\ b[6] = b6 /\ b[7] = b7 /\ b[8] = b8
      BY <2>1
    <3>2. b1 + 2 * b2 + 4 * b3 + 8 * b4 + 16 * b5 + 32 * b6 + 64 * b7 + 128 * b8 \in Int
      OBVIOUS
    <3> QED BY <3>1, <3>2 DEF Number
  <2>4. Number(c) \in Int
    <3>1. PICK b1, b2, b3, b4, b5, b6, b7, b8 \in Int :
            /\ c[1] = b1 /\ c[2] = b2 /\ c[3] = b3 /\ c[4] = b4
            /\ c[5] = b5 /\ c[6] = b6 /\ c[7] = b7 /\ c[8] = b8
      BY <2>2
    <3>2. b1 + 2 * b2 + 4 * b3 + 8 * b4 + 16 * b5 + 32 * b6 + 64 * b7 + 128 * b8 \in Int
      OBVIOUS
    <3> QED BY <3>1, <3>2 DEF Number
  <2>5. Raw(b) = Number(b) + 256 * Number(c)
    BY DEF Raw, c
  <2> QED BY <2>3, <2>4, <2>5
<1>3. \A n \in Int : Printed(n) \in Int
  BY DEF Printed
<1>4. Signed(Raw(b)) \in Int /\ -Signed(Raw(b)) \in Int
  BY <1>2 DEF Signed
<1>5. ASSUME NEW n \in Int PROVE -n \in Int /\ (n * 625) \div 100 \in Int
  OBVIOUS
<1> QED BY <1>2, <1>3, <1>4, <1>5 DEF Temperature

\* The sensor and the read keep their shapes, whatever the delays.
LEMMA ShapeHolds == WireSpec => []WireShape
<1>1. WireInit => WireShape
  <2> SUFFICES ASSUME WireInit PROVE WireShape
    OBVIOUS
  <2>1. Upto(<<>>, 7) /\ Upto(<<0, 0>>, 7) /\ Upto(<<0, 1, 1, 1, 1, 1, 0>>, 7)
        /\ Upto(<<>>, 16) /\ Upto(<<0>>, 16) /\ Upto(<<1, 1, 0>>, 16)
    BY DEF Upto
  <2>2. Upto(heard, 7) /\ Upto(sending, 16)
    BY <2>1 DEF WireInit
  <2>3. SensorOK
    BY <2>2 DEF WireInit, SensorOK
  <2> QED BY <2>3 DEF WireInit, WireShape, GotSoFar
<1>2. WireShape /\ [WireNext]_wire => WireShape'
  <2> SUFFICES ASSUME WireShape, [WireNext]_wire PROVE WireShape'
    OBVIOUS
  <2>1. CASE CallRead
    BY <2>1 DEF CallRead, Advance, WireShape, SensorOK, GotSoFar, sensor
  <2>2. CASE PulseSlot
    <3>1. slot \in 1 .. 35 /\ slot' = slot + 1 /\ UNCHANGED <<got, result>>
      BY <2>2, KindsOfSlots DEF PulseSlot, Advance
    <3>2. Program[slot].low \in Nat
      BY <3>1, LowIsNat
    <3>3. SensorOK'
      BY <2>2, <3>2, HearKeepsTypes, WireAssumption DEF PulseSlot, WireShape
    <3> QED BY <3>1, <3>3 DEF WireShape, GotSoFar
  <2>3. CASE Wait
    <3>1. slot = 18 /\ slot' = 19 /\ UNCHANGED <<got, result>>
      BY <2>3, KindsOfSlots DEF Wait, Advance
    <3>2. SensorOK'
      BY <2>3 DEF Wait, WireShape, SensorOK
    <3> QED BY <3>1, <3>2 DEF WireShape, GotSoFar
  <2>4. CASE ReadSlot
    <3>1. slot \in 36 .. 51 /\ slot' = slot + 1 /\ UNCHANGED result
      BY <2>4, KindsOfSlots DEF ReadSlot, Advance
    <3>2. PICK pulse \in Nat : Hear(pulse)
      <4>1. Program[slot].low \in Nat
        BY <3>1, LowIsNat
      <4>2. PICK first \in 0 .. SampleDelay : Hear(Program[slot].low + first)
        BY <2>4 DEF ReadSlot
      <4> QED BY <4>1, <4>2, WireAssumption
    <3>3. SensorOK'
      BY <3>2, HearKeepsTypes DEF WireShape
    <3>4. PICK bit \in {0, 1} : got' = Append(got, bit)
      <4>1. \A late : Sampled(late) \subseteq {0, 1}
        <5>1. sending # <<>> => Head(sending) \in {0, 1}
          BY BitsOnly DEF WireShape, SensorOK
        <5> QED BY <5>1 DEF Sampled
      <4> QED BY <2>4, <4>1 DEF ReadSlot
    <3>5. got' \in Seq({0, 1}) /\ Len(got') = Len(got) + 1
      BY <3>4, AppendProperties DEF WireShape, GotSoFar
    <3>6. Len(got) = slot - 36
      BY <3>1 DEF WireShape, GotSoFar
    <3>7. slot' \in 37 .. 52 /\ Len(got') = slot' - 36
      <4>1. PICK i \in 36 .. 51 : i = slot
        BY <3>1
      <4>2. i + 1 \in 37 .. 52 /\ (i - 36) + 1 = (i + 1) - 36
        OBVIOUS
      <4> QED BY <3>1, <3>5, <3>6, <4>1, <4>2
    <3>8. GotSoFar'
      BY <3>5, <3>7 DEF GotSoFar
    <3> QED BY <3>1, <3>3, <3>8 DEF WireShape
  <2>5. CASE ReturnTemperature
    <3>1. slot = 52 /\ slot' = 0 /\ UNCHANGED <<got, sensor>>
      <4>1. slot > 51 /\ slot \in 0 .. 52
        BY <2>5, KindsOfSlots DEF ReturnTemperature, WireShape, GotSoFar
      <4> QED BY <2>5, <4>1 DEF ReturnTemperature
    <3>2. Temperature(Raw(got)) \in Int
      <4>1. got \in Seq({0, 1}) /\ Len(got) = 16
        BY <3>1 DEF WireShape, GotSoFar
      <4> QED BY <4>1, TemperatureIsInt
    <3>3. result' \subseteq Int
      BY <2>5, <3>2 DEF ReturnTemperature
    <3>4. GotSoFar'
      <4>1. got \in Seq({0, 1}) /\ Len(got) = 16
        BY <3>1 DEF WireShape, GotSoFar
      <4> QED BY <3>1, <4>1 DEF GotSoFar
    <3>5. SensorOK'
      BY <3>1 DEF WireShape, SensorOK, sensor
    <3> QED BY <3>3, <3>4, <3>5 DEF WireShape
  <2>6. CASE UNCHANGED wire
    BY <2>6 DEF wire, sensor, WireShape, SensorOK, GotSoFar
  <2> QED BY <2>1, <2>2, <2>3, <2>4, <2>5, <2>6 DEF WireNext
<1> QED BY <1>1, <1>2, PTL DEF WireSpec

\* The types of the variables hold in every reachable state, for either driver and
\* whatever the delays.
THEOREM WireTypeCorrect == WireSpec => []WireTypeOK
<1>1. WireShape => WireTypeOK
  BY KindsOfSlots DEF WireShape, SensorOK, GotSoFar, Upto, WireTypeOK
<1> QED BY <1>1, ShapeHolds, PTL
-----------------------------------------------------------------------------
\* The sensor has heard the first k bits of the command c.
Sent(c, k) ==
  /\ Upto(heard, 7) /\ Len(heard) = k
  /\ \A i \in 1 .. k : heard[i] = Bits(c, 8)[i]

Commands == {SkipRom, ConvertT, ReadScratchpad}

\* A bit of a command, late by at most 13 microseconds, is heard as what it is; the
\* eighth makes the sensor obey.
LEMMA CommandBitHeard ==
  ASSUME NEW c \in Commands, NEW k \in 0 .. 7, Sent(c, k), bus \in {"rom", "function"},
         WireDriver = "ds18b20", NEW extra \in 0 .. 13,
         Hear(WriteBit(Bits(c, 8)[k + 1]).low + extra)
  PROVE  IF k < 7 THEN Sent(c, k + 1)' /\ UNCHANGED <<bus, sending, measured, converting>>
                  ELSE Obey(c)
<1>1. PICK bit \in {0, 1} : bit = Bits(c, 8)[k + 1]
  <2>1. c \in Nat /\ k + 1 \in 1 .. 8
    BY DEF Commands, SkipRom, ConvertT, ReadScratchpad
  <2> QED BY <2>1, BitsAreBits
<1>2. PICK pulse \in Nat : /\ pulse = WriteBit(bit).low + extra
                           /\ pulse = IF bit = 1 THEN 2 + extra ELSE 60 + extra
  BY DEF WriteBit, Slot
<1>3. pulse < 480 /\ HeardAs(pulse) = {bit} /\ Hear(pulse)
  <2>1. pulse \in Nat /\ ((pulse \in 2 .. 15 /\ bit = 1) \/ (pulse \in 60 .. 73 /\ bit = 0))
    <3>1. CASE bit = 1
      <4>1. pulse = 2 + extra
        BY <1>2, <3>1
      <4>2. pulse \in 2 .. 15
        BY <4>1
      <4> QED BY <3>1, <4>1, <4>2
    <3>2. CASE bit = 0
      <4>1. pulse = 60 + extra
        BY <1>2, <3>2
      <4>2. pulse \in 60 .. 73
        BY <4>1
      <4> QED BY <3>2, <4>1, <4>2
    <3> QED BY <3>1, <3>2
  <2>2. pulse < 480 /\ HeardAs(pulse) = {bit}
    BY <2>1 DEF HeardAs
  <2> QED BY <1>1, <1>2, <2>2
<1>4. HearBit(bit)
  <2>1. HeardAs(pulse) # {} /\ (\A b \in HeardAs(pulse) : b = bit)
    BY <1>3
  <2>2. ~(pulse >= 480) /\ pulse < 480
    BY <1>2, <1>3
  <2>3. \/ HeardAs(pulse) = {} /\ UNCHANGED sensor
        \/ \E b \in HeardAs(pulse) : HearBit(b)
    BY <1>3, <2>2 DEF Hear
  <2> QED BY <2>1, <2>3
<1>5. Append(heard, bit) \in Seq({0, 1}) /\ Len(Append(heard, bit)) = k + 1
      /\ \A i \in 1 .. k + 1 : Append(heard, bit)[i] = Bits(c, 8)[i]
  BY <1>1, AppendProperties DEF Sent, Upto
<1>6. CASE k < 7
  <2>1. heard' = Append(heard, bit) /\ UNCHANGED <<bus, sending, measured, converting>>
    BY <1>4, <1>6 DEF HearBit, Sent
  <2>2. Sent(c, k + 1)'
    <3>1. PICK h : h = Append(heard, bit)
      OBVIOUS
    <3>2. Upto(h, 7) /\ Len(h) = k + 1 /\ \A i \in 1 .. k + 1 : h[i] = Bits(c, 8)[i]
      BY <1>5, <1>6, <3>1 DEF Upto
    <3> QED BY <2>1, <3>1, <3>2 DEF Sent
  <2> QED BY <1>6, <2>1, <2>2
<1>7. CASE k = 7
  <2>1. Number(Append(heard, bit)) = c
    <3>1. PICK h : h = Append(heard, bit)
      OBVIOUS
    <3>2. \A i \in 1 .. 8 : h[i] = Bits(c, 8)[i]
      BY <1>5, <1>7, <3>1
    <3>3. c \in {SkipRom, ConvertT, ReadScratchpad}
      BY DEF Commands
    <3>4. Number(h) = c
      BY <3>2, <3>3, BitsGiveCommand
    <3> QED BY <3>1, <3>4
  <2>2. Obey(Number(Append(heard, bit)))
    BY <1>4, <1>7 DEF HearBit, Sent
  <2> QED BY <1>7, <2>1, <2>2
<1> QED BY <1>6, <1>7

\* Where the sensor is in the conversation, slot by slot.
Heeds ==
  /\ slot \in 2 .. 9   => bus = "rom" /\ Sent(SkipRom, slot - 2)
  /\ slot \in 10 .. 17 => bus = "function" /\ Sent(ConvertT, slot - 10)
  /\ slot = 18         => converting
  /\ slot \in 20 .. 27 => bus = "rom" /\ Sent(SkipRom, slot - 20)
  /\ slot \in 28 .. 35 => bus = "function" /\ Sent(ReadScratchpad, slot - 28)
  /\ slot = 36         => bus = "read" /\ sending = Bits(Scratchpad(measured), 16)

\* What each bit of a command is.
LEMMA WrittenBits ==
  /\ \A i \in 2 .. 9   : Program[i] = WriteBit(Bits(SkipRom, 8)[i - 1])
  /\ \A i \in 10 .. 17 : Program[i] = WriteBit(Bits(ConvertT, 8)[i - 9])
  /\ \A i \in 20 .. 27 : Program[i] = WriteBit(Bits(SkipRom, 8)[i - 19])
  /\ \A i \in 28 .. 35 : Program[i] = WriteBit(Bits(ReadScratchpad, 8)[i - 27])
  /\ \A i \in {1, 19}  : Program[i].low = 700
  /\ \A i \in 36 .. 51 : Program[i].low = 2 /\ Program[i].sample = 10
<1>1. \A i \in 1 .. 51 : Program[i] = Expected(i)
  BY ProgramIs
<1>2. ASSUME NEW i \in 2 .. 9 PROVE Program[i] = WriteBit(Bits(SkipRom, 8)[i - 1])
  <2>1. Expected(i) = WriteBit(Bits(SkipRom, 8)[i - 1])
    BY DEF Expected
  <2> QED BY <1>1, <2>1
<1>3. ASSUME NEW i \in 10 .. 17 PROVE Program[i] = WriteBit(Bits(ConvertT, 8)[i - 9])
  <2>1. Expected(i) = WriteBit(Bits(ConvertT, 8)[i - 9])
    BY DEF Expected
  <2> QED BY <1>1, <2>1
<1>4. ASSUME NEW i \in 20 .. 27 PROVE Program[i] = WriteBit(Bits(SkipRom, 8)[i - 19])
  <2>1. Expected(i) = WriteBit(Bits(SkipRom, 8)[i - 19])
    BY DEF Expected
  <2> QED BY <1>1, <2>1
<1>5. ASSUME NEW i \in 28 .. 35 PROVE Program[i] = WriteBit(Bits(ReadScratchpad, 8)[i - 27])
  <2>1. Expected(i) = WriteBit(Bits(ReadScratchpad, 8)[i - 27])
    BY DEF Expected
  <2> QED BY <1>1, <2>1
<1>6. ASSUME NEW i \in {1, 19} PROVE Program[i].low = 700
  <2>1. Expected(i) = Reset
    BY DEF Expected
  <2>2. Reset.low = 700
    BY DEF Reset, Slot
  <2>3. i \in 1 .. 51
    OBVIOUS
  <2>4. Program[i] = Expected(i)
    BY <1>1, <2>3
  <2> QED BY <2>1, <2>2, <2>4
<1>7. ASSUME NEW i \in 36 .. 51 PROVE Program[i].low = 2 /\ Program[i].sample = 10
  <2>1. Expected(i) = ReadBit
    BY DEF Expected
  <2>2. ReadBit.low = 2 /\ ReadBit.sample = 10
    BY DEF ReadBit, Slot
  <2>3. Program[i] = Expected(i)
    BY <1>1
  <2> QED BY <2>1, <2>2, <2>3
<1> QED BY <1>2, <1>3, <1>4, <1>5, <1>6, <1>7

LEMMA PulseHeard ==
  ASSUME WireDriver = "ds18b20", PulseDelay <= 13, Heeds, PulseSlot
  PROVE  Heeds' /\ slot \in 1 .. 35 /\ slot' = slot + 1
<1>1. PICK extra \in 0 .. 13 :
        /\ slot \in {1, 19} \cup 2 .. 17 \cup 20 .. 35 /\ slot' = slot + 1
        /\ Hear(Program[slot].low + extra)
  BY KindsOfSlots, WireAssumption DEF PulseSlot, Advance
<1>2. CASE slot \in {1, 19}
  <2>1. bus' = "rom" /\ heard' = <<>>
    <3>1. Program[slot].low = 700
      BY <1>2, WrittenBits
    <3>2. PICK pulse \in Nat : pulse = 700 + extra /\ Hear(pulse)
      BY <1>1, <3>1
    <3>3. pulse >= 480 /\ ~(pulse < 480)
      BY <3>2
    <3>4. bus' = "rom" /\ heard' = <<>> /\ sending' = <<>>
      BY <3>2, <3>3 DEF Hear
    <3> QED BY <3>4
  <2>2. Sent(SkipRom, 0)'
    BY <2>1, BitsOnly DEF Sent
  <2> QED BY <1>1, <1>2, <2>1, <2>2 DEF Heeds
<1>3. CASE slot \in 2 .. 9
  <2>1. PICK k \in 0 .. 7 : k = slot - 2 /\ slot = k + 2
    BY <1>3
  <2>2. Sent(SkipRom, k) /\ bus = "rom" /\ Hear(WriteBit(Bits(SkipRom, 8)[k + 1]).low + extra)
    BY <1>1, <1>3, <2>1, WrittenBits DEF Heeds
  <2>3. IF k < 7 THEN Sent(SkipRom, k + 1)' /\ bus' = bus ELSE Obey(SkipRom)
    BY <2>2, CommandBitHeard DEF Commands
  <2>4. CASE k < 7
    BY <1>1, <2>1, <2>2, <2>3, <2>4 DEF Heeds
  <2>5. CASE k = 7
    <3>1. bus' = "function" /\ heard' = <<>>
      BY <2>2, <2>3, <2>5 DEF Obey
    <3>2. Sent(ConvertT, 0)'
      BY <3>1, BitsOnly DEF Sent
    <3>3. slot' = 10
      BY <1>1, <2>1, <2>5
    <3>4. (bus = "function" /\ Sent(ConvertT, 0))'
      BY <3>1, <3>2
    <3> QED BY <1>1, <1>3, <3>3, <3>4, SMTT(20) DEF Heeds
  <2> QED BY <2>4, <2>5
<1>4. CASE slot \in 10 .. 17
  <2>1. PICK k \in 0 .. 7 : k = slot - 10 /\ slot = k + 10
    BY <1>4
  <2>2. Sent(ConvertT, k) /\ bus = "function" /\ Hear(WriteBit(Bits(ConvertT, 8)[k + 1]).low + extra)
    BY <1>1, <1>4, <2>1, WrittenBits DEF Heeds
  <2>3. IF k < 7 THEN Sent(ConvertT, k + 1)' /\ bus' = bus ELSE Obey(ConvertT)
    BY <2>2, CommandBitHeard DEF Commands
  <2>4. CASE k < 7
    BY <1>1, <2>1, <2>2, <2>3, <2>4 DEF Heeds
  <2>5. CASE k = 7
    <3>1. bus = "function" /\ Obey(68)
      BY <2>2, <2>3, <2>5 DEF ConvertT
    <3>2. converting' = TRUE
      BY <3>1 DEF Obey, SkipRom, ConvertT, ReadScratchpad
    <3>3. slot' = 18
      BY <1>1, <2>1, <2>5
    <3> QED BY <1>1, <1>4, <3>2, <3>3 DEF Heeds
  <2> QED BY <2>4, <2>5
<1>5. CASE slot \in 20 .. 27
  <2>1. PICK k \in 0 .. 7 : k = slot - 20 /\ slot = k + 20
    BY <1>5
  <2>2. Sent(SkipRom, k) /\ bus = "rom" /\ Hear(WriteBit(Bits(SkipRom, 8)[k + 1]).low + extra)
    BY <1>1, <1>5, <2>1, WrittenBits DEF Heeds
  <2>3. IF k < 7 THEN Sent(SkipRom, k + 1)' /\ bus' = bus ELSE Obey(SkipRom)
    BY <2>2, CommandBitHeard DEF Commands
  <2>4. CASE k < 7
    BY <1>1, <2>1, <2>2, <2>3, <2>4 DEF Heeds
  <2>5. CASE k = 7
    <3>1. bus' = "function" /\ heard' = <<>>
      BY <2>2, <2>3, <2>5 DEF Obey
    <3>2. Sent(ReadScratchpad, 0)'
      BY <3>1, BitsOnly DEF Sent
    <3>3. slot' = 28
      BY <1>1, <2>1, <2>5
    <3>4. (bus = "function" /\ Sent(ReadScratchpad, 0))'
      BY <3>1, <3>2
    <3> QED BY <1>1, <1>5, <3>3, <3>4, SMTT(20) DEF Heeds
  <2> QED BY <2>4, <2>5
<1>6. CASE slot \in 28 .. 35
  <2>1. PICK k \in 0 .. 7 : k = slot - 28 /\ slot = k + 28
    BY <1>6
  <2>2. Sent(ReadScratchpad, k) /\ bus = "function"
        /\ Hear(WriteBit(Bits(ReadScratchpad, 8)[k + 1]).low + extra)
    BY <1>1, <1>6, <2>1, WrittenBits DEF Heeds
  <2>3. IF k < 7 THEN Sent(ReadScratchpad, k + 1)' /\ bus' = bus ELSE Obey(ReadScratchpad)
    BY <2>2, CommandBitHeard DEF Commands
  <2>4. CASE k < 7
    BY <1>1, <2>1, <2>2, <2>3, <2>4 DEF Heeds
  <2>5. CASE k = 7
    <3>1. bus' = "read" /\ sending' = Bits(Scratchpad(measured), 16) /\ measured' = measured
      BY <2>2, <2>3, <2>5 DEF Obey, SkipRom, ConvertT, ReadScratchpad
    <3> QED BY <1>1, <2>1, <2>5, <3>1 DEF Heeds
  <2> QED BY <2>4, <2>5
<1> QED BY <1>1, <1>2, <1>3, <1>4, <1>5, <1>6

\* The sensor is where it should be before every slot.
LEMMA HeedsHolds ==
  ASSUME WireDriver = "ds18b20", PulseDelay <= 13
  PROVE  WireSpec => []Heeds
<1>1. WireInit => Heeds
  BY DEF WireInit, Heeds
<1>2. Heeds /\ [WireNext]_wire => Heeds'
  <2> SUFFICES ASSUME Heeds, [WireNext]_wire PROVE Heeds'
    OBVIOUS
  <2>1. CASE CallRead
    BY <2>1 DEF CallRead, Advance, Heeds
  <2>2. CASE PulseSlot
    BY <2>2, PulseHeard
  <2>3. CASE Wait
    BY <2>3, KindsOfSlots DEF Wait, Advance, Heeds
  <2>4. CASE ReadSlot
    <3>1. slot \in 36 .. 51 /\ slot' = slot + 1
      BY <2>4, KindsOfSlots DEF ReadSlot, Advance
    <3>2. slot' \in 37 .. 52
      BY <3>1
    <3> QED BY <3>2 DEF Heeds
  <2>5. CASE ReturnTemperature
    BY <2>5 DEF ReturnTemperature, Heeds
  <2>6. CASE UNCHANGED wire
    BY <2>6 DEF wire, sensor, Heeds, Sent
  <2> QED BY <2>1, <2>2, <2>3, <2>4, <2>5, <2>6 DEF WireNext
<1> QED BY <1>1, <1>2, PTL DEF WireSpec

\* Whatever state a read finds the sensor in, it hears every command of the ds18b20
\* driver, if no low pulse is exceeded by more than 13 microseconds.
THEOREM SensorHears ==
  ASSUME WireDriver = "ds18b20", PulseDelay <= 13
  PROVE  WireSpec => []CommandsHeard
<1>1. Heeds => CommandsHeard
  BY KindsOfSlots DEF Heeds, CommandsHeard
<1> QED BY <1>1, HeedsHolds, PTL

\* A bit that the sensor sends is sampled as what it is, by a driver both of whose
\* delays are late by at most one microsecond, and is gone after it.
LEMMA BitSampled ==
  ASSUME WireDriver = "ds18b20", SampleDelay <= 1, ReadSlot,
         slot \in 36 .. 51, bus = "read", sending # <<>>
  PROVE  /\ got' = Append(got, Head(sending))
         /\ sending' = Tail(sending) /\ UNCHANGED <<bus, measured>>
<1>1. Program[slot].low = 2 /\ Program[slot].sample = 10
  <2>1. \A i \in 36 .. 51 : Program[i].low = 2 /\ Program[i].sample = 10
    BY WrittenBits
  <2> QED BY <2>1
<1>2. PICK first \in 0 .. 1, second \in 0 .. 1 :
        /\ \E bit \in Sampled(2 + first + 10 + second) : got' = Append(got, bit)
        /\ Hear(2 + first)
  BY <1>1, WireAssumption DEF ReadSlot
<1>3. PICK late \in Nat : late <= 15 /\ \E bit \in Sampled(late) : got' = Append(got, bit)
  <2>1. 2 + first + 10 + second \in Nat /\ 2 + first + 10 + second <= 15
    OBVIOUS
  <2> QED BY <1>2, <2>1
<1>4. Sampled(late) = {Head(sending)}
  BY <1>3 DEF Sampled
<1>5. sending' = Tail(sending) /\ UNCHANGED <<bus, measured>>
  <2>1. PICK pulse \in Nat : Hear(pulse) /\ ~(pulse >= 480) /\ pulse # 0
    <3>1. 2 + first \in Nat /\ ~(2 + first >= 480) /\ 2 + first # 0
      OBVIOUS
    <3> QED BY <1>2, <3>1
  <2> QED BY <2>1 DEF Hear
<1> QED BY <1>3, <1>4, <1>5

\* What the temperature is in the sensor's registers.
Answer == Bits(Scratchpad(measured), 16)

\* The first n bits of the answer have been read and the rest is still to come.
Transferred(n) ==
  /\ Len(got) = n /\ \A i \in 1 .. n : got[i] = Answer[i]
  /\ Len(sending) = 16 - n /\ \A i \in 1 .. 16 - n : sending[i] = Answer[n + i]

\* While the driver reads, the answer is on its way, and what it returned before is
\* the temperature that is still in the sensor's registers.
Fetches ==
  /\ slot # 0 => result = {}
  /\ result \subseteq {Temperature(Scratchpad(measured))}
  /\ slot \in 36 .. 52 => bus = "read" /\ Transferred(slot - 36)

\* Slots of another kind leave the temperature alone.
LEMMA HearKeepsMeasured ==
  ASSUME NEW pulse, Hear(pulse)
  PROVE  measured' = measured
BY DEF Hear, HearBit, Obey, sensor

\* One more bit.
LEMMA OneMoreBit ==
  ASSUME NEW n \in 0 .. 15, Transferred(n), GotSoFar, SensorOK,
         got' = Append(got, Head(sending)), sending' = Tail(sending), measured' = measured
  PROVE  Transferred(n + 1)'
<1>1. PICK s \in Seq({0, 1}), g \in Seq({0, 1}) : s = sending /\ g = got
  BY DEF SensorOK, GotSoFar, Upto
<1>2. PICK a : a = Answer /\ a = Answer'
  BY DEF Answer
<1>3. /\ Len(g) = n /\ \A i \in 1 .. n : g[i] = a[i]
      /\ Len(s) = 16 - n /\ \A i \in 1 .. 16 - n : s[i] = a[n + i]
  BY <1>1, <1>2 DEF Transferred
<1>4. s # <<>> /\ Head(s) = a[n + 1] /\ Head(s) \in {0, 1}
  BY <1>3
<1>5. PICK h : h = Append(g, Head(s)) /\ Len(h) = n + 1
              /\ \A i \in 1 .. n + 1 : h[i] = a[i]
  <2>1. Len(Append(g, Head(s))) = n + 1 /\ Append(g, Head(s))[n + 1] = Head(s)
        /\ \A i \in 1 .. n : Append(g, Head(s))[i] = g[i]
    BY <1>3, <1>4, AppendProperties
  <2>2. ASSUME NEW i \in 1 .. n + 1 PROVE Append(g, Head(s))[i] = a[i]
    <3>1. i \in 1 .. n \/ i = n + 1
      OBVIOUS
    <3> QED BY <1>3, <1>4, <2>1, <3>1
  <2> QED BY <2>1, <2>2
<1>6. PICK r : r = Tail(s) /\ Len(r) = 15 - n /\ \A i \in 1 .. 15 - n : r[i] = a[n + 1 + i]
  <2>1. Len(Tail(s)) = 15 - n /\ \A i \in 1 .. 15 - n : Tail(s)[i] = s[i + 1]
    BY <1>3, <1>4, HeadTailProperties
  <2>2. \A i \in 1 .. 15 - n : s[i + 1] = a[n + 1 + i]
    <3>1. ASSUME NEW i \in 1 .. 15 - n PROVE s[i + 1] = a[n + 1 + i]
      <4>1. i + 1 \in 1 .. 16 - n /\ n + (i + 1) = n + 1 + i
        BY <3>1
      <4> QED BY <1>3, <4>1
    <3> QED BY <3>1
  <2> QED BY <2>1, <2>2
<1>7. got' = h /\ sending' = r
  BY <1>1, <1>5, <1>6
<1>8. 16 - (n + 1) = 15 - n
  OBVIOUS
<1> QED BY <1>2, <1>5, <1>6, <1>7, <1>8 DEF Transferred

\* Through all slots, a read fetches what the sensor measured and returns it to less
\* than a tenth of a degree, if each delay before a sample is late by at most one
\* microsecond and each low pulse by at most 13.
THEOREM ReadsRight ==
  ASSUME WireDriver = "ds18b20", PulseDelay <= 13, SampleDelay <= 1
  PROVE  WireSpec => []ReadsTemperature
<1>1. WireInit => Fetches
  BY DEF WireInit, Fetches
<1>2. WireShape /\ Heeds /\ Fetches /\ [WireNext]_wire => Fetches'
  <2> SUFFICES ASSUME WireShape, Heeds, Fetches, [WireNext]_wire PROVE Fetches'
    OBVIOUS
  <2>1. CASE CallRead
    BY <2>1 DEF CallRead, Advance, Fetches, sensor
  <2>2. CASE PulseSlot
    <3>1. Heeds' /\ slot \in 1 .. 35 /\ slot' = slot + 1
      BY <2>2, PulseHeard, WireAssumption
    <3>2. got' = got /\ result' = result /\ measured' = measured
      <4>1. \E pulse : Hear(pulse)
        BY <2>2 DEF PulseSlot
      <4> QED BY <2>2, <4>1, HearKeepsMeasured DEF PulseSlot
    <3>3. result' = {}
      BY <3>1, <3>2 DEF Fetches
    <3>4. CASE slot = 35
      <4>1. slot' = 36 /\ bus' = "read" /\ sending' = Answer'
        BY <3>1, <3>4 DEF Heeds, Answer
      <4>2. got' = <<>>
        BY <3>1, <3>2 DEF WireShape, GotSoFar
      <4>3. Len(Answer) = 16 /\ Answer' = Answer
        <5>1. Answer = [i \in 1 .. 16 |-> Answer[i]]
          BY DEF Answer, Bits
        <5> QED BY <3>2, <5>1 DEF Answer
      <4>4. Transferred(0)'
        BY <4>1, <4>2, <4>3 DEF Transferred
      <4> QED BY <3>3, <4>1, <4>4 DEF Fetches
    <3>5. CASE slot # 35
      <4>1. slot' \in 2 .. 35
        BY <3>1, <3>5
      <4> QED BY <3>3, <4>1 DEF Fetches
    <3> QED BY <3>4, <3>5
  <2>3. CASE Wait
    <3>1. slot = 18 /\ slot' = 19 /\ result' = result
      BY <2>3, KindsOfSlots DEF Wait, Advance
    <3> QED BY <3>1 DEF Fetches
  <2>4. CASE ReadSlot
    <3>1. slot \in 36 .. 51 /\ slot' = slot + 1 /\ slot' \in 37 .. 52 /\ result' = result
      <4>1. slot \in 36 .. 51 /\ slot' = slot + 1 /\ result' = result
        BY <2>4, KindsOfSlots DEF ReadSlot, Advance
      <4> QED BY <4>1
    <3>2. PICK n \in 0 .. 15 : n = slot - 36 /\ slot' - 36 = n + 1
      BY <3>1
    <3>3. bus = "read" /\ Transferred(n)
      BY <3>1, <3>2 DEF Fetches
    <3>4. sending # <<>>
      BY <3>3 DEF Transferred
    <3>5. /\ got' = Append(got, Head(sending))
          /\ sending' = Tail(sending) /\ UNCHANGED <<bus, measured>>
      BY <2>4, <3>1, <3>3, <3>4, BitSampled
    <3>6. Transferred(n + 1)'
      BY <3>3, <3>5, OneMoreBit DEF WireShape
    <3>7. result' = {} /\ bus' = "read"
      BY <3>1, <3>3, <3>5 DEF Fetches
    <3> QED BY <3>1, <3>2, <3>6, <3>7 DEF Fetches
  <2>5. CASE ReturnTemperature
    <3>1. slot = 52 /\ slot' = 0 /\ measured' = measured
      <4>1. slot > 51 /\ slot \in 0 .. 52
        BY <2>5, KindsOfSlots DEF ReturnTemperature, WireShape, GotSoFar
      <4> QED BY <2>5, <4>1 DEF ReturnTemperature, sensor
    <3>2. \A i \in 1 .. 16 : got[i] = Bits(Scratchpad(measured), 16)[i]
      BY <3>1 DEF Fetches, Transferred, Answer
    <3>3. PICK n \in Nat : n = Scratchpad(measured) /\ n < 65536
      BY WireAssumption DEF WireShape, SensorOK, Scratchpad
    <3>4. Raw(got) = Scratchpad(measured)
      BY <3>2, <3>3, BitsGiveNumber
    <3>5. result' \subseteq {Temperature(Scratchpad(measured'))}
      BY <2>5, <3>1, <3>4 DEF ReturnTemperature
    <3> QED BY <3>1, <3>5 DEF Fetches
  <2>6. CASE UNCHANGED wire
    BY <2>6 DEF wire, sensor, Fetches, Transferred, Answer
  <2> QED BY <2>1, <2>2, <2>3, <2>4, <2>5, <2>6 DEF WireNext
<1>3. WireShape /\ Fetches => ReadsTemperature
  <2> SUFFICES ASSUME WireShape, Fetches, NEW r \in result
               PROVE  16 * r - 100 * (measured - 880) \in -159 .. 159
    BY DEF ReadsTemperature
  <2>1. r = Temperature(Scratchpad(measured)) /\ measured \in Nat /\ measured <= 2880
    BY WireAssumption DEF Fetches, WireShape, SensorOK
  <2>2. 16 * Temperature(Scratchpad(measured)) - 100 * (measured - 880) \in -159 .. 159
    BY <2>1, PrintsNear
  <2> QED BY <2>1, <2>2
<1>4. WireSpec => []WireShape
  BY ShapeHolds
<1>5. WireSpec => []Heeds
  BY HeedsHolds
<1> QED BY <1>1, <1>2, <1>3, <1>4, <1>5, PTL DEF WireSpec
=============================================================================
