--------------------------- MODULE ChannelProofs ---------------------------
(***************************************************************************)
(* Proofs about the dial, for every dial, margin and number of channels    *)
(* whose parts are wider than a margin.  The program divides twice, and    *)
(* both quotients are cut down: what is needed of \div is in DivFloor and  *)
(* DivAtLeast, what is needed of the two quotients in StepFacts,           *)
(* PartBeyond and LimitBelow.                                              *)
(***************************************************************************)
EXTENDS Channel, TLAPS

\* Numbers of channels that channel_setStreamCount accepts.
Valid == {c \in Counts : 0 < c /\ c <= MaxCount}

\* The width of a channel's part of the dial.
Step(count) == MAX_ADC \div count
-----------------------------------------------------------------------------
(* A quotient is the number of whole divisors in a number.                 *)
LEMMA DivFloor ==
  ASSUME NEW a \in Nat, NEW b \in Nat, b > 0
  PROVE  /\ a \div b \in Nat
         /\ (a \div b) * b <= a
         /\ a < (a \div b) * b + b
         /\ a \div b <= a
  BY SMT

LEMMA DivAtLeast ==
  ASSUME NEW a \in Nat, NEW b \in Nat, b > 0, NEW c \in Nat, a >= c * b
  PROVE  a \div b >= c
  BY SMT

(* The parts of all the channels fit the dial, and each is wider than a    *)
(* margin.                                                                 *)
LEMMA StepFacts ==
  ASSUME NEW count \in Valid
  PROVE  /\ count \in Nat /\ count > 0
         /\ Step(count) \in Nat /\ Step(count) > OVERLAPP_ADC
         /\ Step(count) * count <= MAX_ADC
<1>1. count \in Nat /\ count > 0 /\ count \in Counts /\ count <= MaxCount
  BY CountsAssumption DEF Valid, MaxCount
<1>2. MAX_ADC \in Nat
  BY DialAssumption
<1> QED
  BY <1>1, <1>2, DivFloor, StepAssumption DEF Step

LEMMA PartType ==
  ASSUME NEW count \in Valid, NEW adc \in Readings
  PROVE  Part(count, adc) \in 0..MAX_ADC
<1>1. Step(count) \in Nat /\ Step(count) > 0
  BY StepFacts, DialAssumption
<1>2. adc \in Nat /\ adc <= MAX_ADC /\ MAX_ADC \in Nat
  BY DialAssumption DEF Readings
<1>3. adc \div Step(count) \in Nat /\ adc \div Step(count) <= adc
  BY <1>1, <1>2, DivFloor
<1> QED
  BY <1>2, <1>3 DEF Part, Step

(* A reading asks for the server only beyond the parts of all channels.    *)
LEMMA PartBeyond ==
  ASSUME NEW count \in Valid, NEW adc \in Readings, Part(count, adc) >= count
  PROVE  adc >= Step(count) * count
<1>1. /\ Step(count) \in Nat /\ Step(count) > 0
      /\ count \in Nat /\ adc \in Nat
  BY StepFacts, DialAssumption DEF Readings
<1> DEFINE q == adc \div Step(count)
<1>2. q \in Nat /\ q * Step(count) <= adc
  BY <1>1, DivFloor
<1>3. q >= count
  BY DEF Part, Step
<1>4. q * Step(count) >= count * Step(count)
  BY <1>1, <1>2, <1>3
<1> QED
  BY <1>1, <1>2, <1>4

(* The upper margin of a channel ends before the end of the dial.          *)
LEMMA LimitBelow ==
  ASSUME NEW count \in Valid, NEW cur \in Nat, cur < count
  PROVE  LimitMax(cur, count) \in Nat /\ LimitMax(cur, count) < MAX_ADC
<1> DEFINE quot == ((1 + cur) * MAX_ADC) \div count
<1>1. /\ count \in Nat /\ count > 0
      /\ Step(count) \in Nat /\ Step(count) > OVERLAPP_ADC
      /\ Step(count) * count <= MAX_ADC
  BY StepFacts
<1>2. /\ MAX_ADC \in Nat /\ OVERLAPP_ADC \in Nat /\ OVERLAPP_ADC > 0
      /\ MAX_ADC > 2 * OVERLAPP_ADC /\ MAX_ADC + OVERLAPP_ADC < 65536
  BY DialAssumption, StepAssumption
<1>3. (1 + cur) * MAX_ADC \in Nat /\ (1 + cur) * MAX_ADC <= count * MAX_ADC
  BY <1>1, <1>2
<1>4. quot \in Nat /\ quot * count <= (1 + cur) * MAX_ADC
  BY <1>1, <1>3, DivFloor
<1>5. quot <= MAX_ADC
  BY <1>1, <1>2, <1>3, <1>4
<1>6. uint16(quot + OVERLAPP_ADC) = quot + OVERLAPP_ADC
  BY <1>2, <1>4, <1>5 DEF uint16
<1>7. quot + OVERLAPP_ADC # MAX_ADC
  <2>1. CASE cur = count - 1
    <3>1. (1 + cur) * MAX_ADC >= MAX_ADC * count
      BY <2>1, <1>1, <1>2
    <3>2. quot >= MAX_ADC
      BY <3>1, <1>1, <1>2, <1>3, DivAtLeast
    <3> QED
      BY <3>2, <1>2, <1>4
  <2>2. CASE cur <= count - 2
    <3>1. (1 + cur) * MAX_ADC <= (count - 1) * MAX_ADC
      BY <2>2, <1>1, <1>2
    <3>2. (count - 1) * MAX_ADC = count * MAX_ADC - MAX_ADC
      BY <1>1, <1>2
    <3>3. quot * count + Step(count) * count <= MAX_ADC * count
      BY <3>1, <3>2, <1>1, <1>2, <1>3, <1>4
    <3>4. (quot + Step(count)) * count <= MAX_ADC * count
      BY <3>3, <1>1, <1>4
    <3>5. quot + Step(count) <= MAX_ADC
      BY <3>4, <1>1, <1>2, <1>4
    <3> QED
      BY <3>5, <1>1, <1>2, <1>4
  <2> QED
    BY <2>1, <2>2, <1>1
<1>8. LimitMax(cur, count) = IF quot + OVERLAPP_ADC > MAX_ADC
                               THEN MAX_ADC - OVERLAPP_ADC
                               ELSE quot + OVERLAPP_ADC
  BY <1>6 DEF LimitMax
<1> QED
  BY <1>2, <1>4, <1>7, <1>8

(* Whatever the radio is at, the end of the dial asks for the server.      *)
LEMMA EndOfDial ==
  ASSUME NEW count \in Valid, NEW cur \in Nat
  PROVE  Select(cur, count, MAX_ADC) >= count
<1>1. /\ count \in Nat /\ Step(count) \in Nat /\ Step(count) > 0
      /\ Step(count) * count <= MAX_ADC /\ MAX_ADC \in Nat
  BY StepFacts, DialAssumption
<1>2. MAX_ADC >= count * Step(count)
  BY <1>1
<1>3. Part(count, MAX_ADC) >= count
  BY <1>1, <1>2, DivAtLeast DEF Part, Step
<1>4. CASE cur >= count
  BY <1>3, <1>4 DEF Select
<1>5. CASE cur < count
  <2>1. Leaves(cur, count, MAX_ADC)
    BY <1>1, <1>5, LimitBelow DEF Leaves
  <2> QED
    BY <1>3, <2>1 DEF Select
<1> QED
  BY <1>1, <1>4, <1>5

-----------------------------------------------------------------------------
LEMMA TypeInit == Init => TypeOK
  BY DialAssumption DEF Init, TypeOK

LEMMA TypeStep == TypeOK /\ [Next]_vars => TypeOK'
<1> SUFFICES ASSUME TypeOK, [Next]_vars PROVE TypeOK'
  OBVIOUS
<1> USE DEF TypeOK
<1>1. ASSUME NEW count \in Counts, streamCount = 0, channel_setStreamCount(count)
      PROVE  TypeOK'
  BY <1>1, DialAssumption, CountsAssumption
  DEF channel_setStreamCount, CountAfter, MaxCount
<1>2. ASSUME NEW adc \in Readings, streamCount > 0, channel_read(adc)
      PROVE  TypeOK'
  <2>1. streamCount \in Valid
    BY <1>2, CountsAssumption DEF Valid
  <2> QED
    BY <1>2, <2>1, PartType, CountsAssumption DEF channel_read, Valid
<1>3. CASE streamCount > 0 /\ channel_setCurrentStream(streamCounter)
  BY <1>3 DEF channel_setCurrentStream
<1>4. CASE UNCHANGED vars
  BY <1>4 DEF vars
<1> QED
  BY <1>1, <1>2, <1>3, <1>4 DEF Next

(* The noted and the selected channel are never more than the end of the   *)
(* dial has room for, and the number of channels is an accepted one.       *)
THEOREM ChannelTypeCorrect == Spec => []TypeOK
  BY TypeInit, TypeStep, PTL DEF Spec

(* The config server can be reached from every channel, for every number   *)
(* of channels.                                                            *)
THEOREM EndIsServer == Spec => []MaxKnobIsServer
<1>1. TypeOK => MaxKnobIsServer
  <2> SUFFICES ASSUME TypeOK, streamCount > 0
               PROVE  Select(currentStream, streamCount, MAX_ADC) >= streamCount
    BY DEF MaxKnobIsServer
  <2>1. streamCount \in Valid /\ currentStream \in Nat
    BY CountsAssumption, DialAssumption DEF TypeOK, Valid
  <2> QED
    BY <2>1, EndOfDial
<1> QED
  BY <1>1, ChannelTypeCorrect, PTL
-----------------------------------------------------------------------------
\* What whole steps leave over at the end of the dial, and where a channel's
\* part of the dial would start if it were divided exactly.
Rest(count) == MAX_ADC - Step(count) * count
Start(c, count) == (c * MAX_ADC) \div count

\* Channels wide enough for both margins, and for what whole steps leave over.
Wide(count) ==
  /\ Step(count) >= 2 * OVERLAPP_ADC
  /\ Step(count) > OVERLAPP_ADC + Rest(count) + 1

\* No limit of the channel behind the last one wraps.
NoWrap == 2 * MAX_ADC + OVERLAPP_ADC < 65536

(* One channel's whole steps end where the next one's begin, or before.    *)
LEMMA PartsInOrder ==
  ASSUME NEW S \in Nat, NEW a \in Nat, NEW b \in Nat, a < b
  PROVE  a * S + S <= b * S
<1>1. (a + 1) * S <= b * S
  BY SMT
<1> QED
  BY <1>1, SMT

(* An exact part starts where the whole steps do or a little later.        *)
LEMMA StartBounds ==
  ASSUME NEW count \in Valid, NEW c \in Nat
  PROVE  /\ Start(c, count) \in Nat
         /\ c * Step(count) <= Start(c, count)
         /\ c <= count => Start(c, count) <= c * Step(count) + Rest(count)
         /\ c = count => Start(c, count) = MAX_ADC
         /\ Rest(count) \in Nat
<1> DEFINE S == Step(count)
           r == Rest(count)
           q == Start(c, count)
<1>1. /\ count \in Nat /\ count > 0 /\ S \in Nat /\ S * count <= MAX_ADC
      /\ MAX_ADC \in Nat
  BY StepFacts, DialAssumption
<1>2. r \in Nat /\ MAX_ADC = S * count + r
  BY <1>1 DEF Rest
<1>3. c * MAX_ADC \in Nat
  BY <1>1
<1>4. q \in Nat /\ q * count <= c * MAX_ADC
  BY <1>1, <1>3, DivFloor DEF Start
<1>5. c * S <= q
  <2>1. c * MAX_ADC >= c * (S * count)
    BY <1>1
  <2>2. c * (S * count) = (c * S) * count /\ c * S \in Nat
    BY <1>1
  <2> QED
    BY <2>1, <2>2, <1>1, <1>3, DivAtLeast DEF Start
<1> HIDE DEF S, r, q
<1>6. ASSUME c <= count PROVE q <= c * S + r
  <2>1. c * MAX_ADC = c * (S * count) + c * r
    BY <1>1, <1>2
  <2>2. c * (S * count) = (c * S) * count /\ c * r <= count * r
    BY <1>1, <1>2, <1>6
  <2>3. q * count <= (c * S + r) * count
    BY <2>1, <2>2, <1>1, <1>2, <1>4
  <2> QED
    BY <2>3, <1>1, <1>2, <1>4
<1>7. ASSUME c = count PROVE q = MAX_ADC
  <2>1. q * count <= MAX_ADC * count
    BY <1>1, <1>4, <1>7
  <2>2. q <= MAX_ADC
    BY <2>1, <1>1, <1>4
  <2>3. c * MAX_ADC >= MAX_ADC * count
    BY <1>1, <1>7
  <2>4. q >= MAX_ADC
    BY <2>3, <1>1, <1>3, DivAtLeast DEF Start, q
  <2> QED
    BY <2>2, <2>4, <1>1, <1>4
<1> QED
  BY <1>2, <1>4, <1>5, <1>6, <1>7 DEF S, r, q

(* The channel behind the last one starts at most a dial further on.       *)
LEMMA BehindTheLast ==
  ASSUME NEW count \in Valid
  PROVE  /\ Start(1 + count, count) \in Nat
         /\ MAX_ADC <= Start(1 + count, count)
         /\ Start(1 + count, count) <= 2 * MAX_ADC
<1> DEFINE q == Start(1 + count, count)
<1>1. count \in Nat /\ count > 0 /\ MAX_ADC \in Nat
  BY StepFacts, DialAssumption
<1>2. (1 + count) * MAX_ADC \in Nat /\ (1 + count) * MAX_ADC >= MAX_ADC * count
  BY <1>1
<1>3. q \in Nat /\ q * count <= (1 + count) * MAX_ADC /\ q >= MAX_ADC
  BY <1>1, <1>2, DivFloor, DivAtLeast DEF Start
<1>4. (1 + count) * MAX_ADC <= (2 * MAX_ADC) * count
  BY <1>1
<1> HIDE DEF q
<1>5. q * count <= (2 * MAX_ADC) * count
  BY <1>3, <1>4, <1>1
<1>6. q <= 2 * MAX_ADC
  BY <1>5, <1>1, <1>3
<1> QED
  BY <1>3, <1>6 DEF q

(* The margins of a channel, or of the server behind the last one, without *)
(* the 16 bits and the cut.                                                *)
LEMMA Margins ==
  ASSUME NEW count \in Valid, Wide(count), NoWrap, NEW c \in 0..count
  PROVE  /\ LimitMin(c, count) = IF Start(c, count) < OVERLAPP_ADC THEN 0
                                 ELSE Start(c, count) - OVERLAPP_ADC
         /\ c + 2 <= count => LimitMax(c, count) = Start(1 + c, count) + OVERLAPP_ADC
         /\ c + 2 > count => LimitMax(c, count) = MAX_ADC - OVERLAPP_ADC
<1> DEFINE S == Step(count)
           r == Rest(count)
<1>1. /\ count \in Nat /\ count > 0 /\ S \in Nat /\ r \in Nat
      /\ MAX_ADC \in Nat /\ OVERLAPP_ADC \in Nat /\ OVERLAPP_ADC > 0
      /\ MAX_ADC = S * count + r /\ S > OVERLAPP_ADC + r + 1
  BY StepFacts, DialAssumption, StartBounds DEF Wide, Rest
<1>2. c \in Nat /\ c <= count /\ 1 + c \in Nat
  BY <1>1
<1>3. Start(c, count) \in Nat /\ Start(c, count) <= c * S + r
  BY <1>2, StartBounds
<1> HIDE DEF S, r
<1>4. c * S <= count * S
  BY <1>1, <1>2
<1>5. Start(c, count) <= MAX_ADC
  BY <1>1, <1>2, <1>3, <1>4
<1>6. LimitMin(c, count) = IF Start(c, count) < OVERLAPP_ADC THEN 0
                           ELSE Start(c, count) - OVERLAPP_ADC
  BY <1>1, <1>3, <1>5, StepAssumption DEF LimitMin, Start, uint16
<1>7. ASSUME c + 2 <= count
      PROVE  LimitMax(c, count) = Start(1 + c, count) + OVERLAPP_ADC
  <2>1. /\ Start(1 + c, count) \in Nat
        /\ Start(1 + c, count) <= (1 + c) * S + r
    BY <1>1, <1>2, <1>7, StartBounds DEF S, r
  <2>2. (1 + c) * S + S <= count * S
    BY <1>1, <1>2, <1>7, PartsInOrder
  <2>3. (1 + c) * S \in Nat /\ count * S \in Nat /\ count * S = S * count
    BY <1>1, <1>2
  <2>4. Start(1 + c, count) + OVERLAPP_ADC <= MAX_ADC
    BY <2>1, <2>2, <2>3, <1>1
  <2> QED
    BY <2>1, <2>4, <1>1, StepAssumption DEF LimitMax, Start, uint16
<1>8. ASSUME c + 2 > count PROVE LimitMax(c, count) = MAX_ADC - OVERLAPP_ADC
  <2>1. /\ Start(1 + c, count) \in Nat /\ Start(1 + c, count) >= MAX_ADC
        /\ Start(1 + c, count) <= 2 * MAX_ADC
    <3>1. CASE 1 + c = count
      BY <3>1, <1>1, <1>2, StartBounds
    <3>2. CASE c = count
      BY <3>2, BehindTheLast
    <3> QED
      BY <3>1, <3>2, <1>8, <1>1, <1>2
  <2> QED
    BY <2>1, <1>1 DEF LimitMax, Start, uint16, NoWrap
<1> QED
  BY <1>6, <1>7, <1>8

(* The channel whose part a reading lies in: at most the server behind the *)
(* last one, and the only one whose whole steps enclose the reading.       *)
LEMMA PartEncloses ==
  ASSUME NEW count \in Valid, Wide(count), NEW adc \in Readings
  PROVE  /\ Part(count, adc) \in 0..count
         /\ Part(count, adc) * Step(count) <= adc
         /\ adc < Part(count, adc) * Step(count) + Step(count)
         /\ \A c \in Nat : c * Step(count) <= adc /\ adc < c * Step(count) + Step(count)
              => Part(count, adc) = c
<1> DEFINE S == Step(count)
           r == Rest(count)
           q == Part(count, adc)
<1>1. /\ count \in Nat /\ S \in Nat /\ S > 0 /\ r \in Nat /\ MAX_ADC \in Nat
      /\ MAX_ADC = S * count + r /\ S > r
  BY StepFacts, DialAssumption, StartBounds DEF Wide, Rest
<1>2. adc \in Nat /\ adc <= MAX_ADC
  BY <1>1 DEF Readings
<1>3. q \in Nat /\ q * S <= adc /\ adc < q * S + S
  BY <1>1, <1>2, DivFloor DEF Part, Step
<1> HIDE DEF S, r, q
<1>4. ~(count < q)
  <2> SUFFICES ASSUME count < q PROVE FALSE
    OBVIOUS
  <2>1. count * S + S <= q * S
    BY <1>1, <1>3, PartsInOrder
  <2>2. q * S \in Nat /\ count * S \in Nat /\ count * S = S * count
    BY <1>1, <1>3
  <2> QED
    BY <2>1, <2>2, <1>1, <1>2, <1>3
<1>5. ASSUME NEW c \in Nat, c * S <= adc, adc < c * S + S PROVE q = c
  <2>1. q * S \in Nat /\ c * S \in Nat
    BY <1>1, <1>3
  <2>2. ~(q < c)
    <3> SUFFICES ASSUME q < c PROVE FALSE
      OBVIOUS
    <3>1. q * S + S <= c * S
      BY <1>1, <1>3, PartsInOrder
    <3> QED
      BY <3>1, <2>1, <1>1, <1>2, <1>3, <1>5
  <2>3. ~(c < q)
    <3> SUFFICES ASSUME c < q PROVE FALSE
      OBVIOUS
    <3>1. c * S + S <= q * S
      BY <1>1, <1>3, PartsInOrder
    <3> QED
      BY <3>1, <2>1, <1>1, <1>2, <1>3, <1>5
  <2> QED
    BY <2>2, <2>3, <1>3
<1> QED
  BY <1>1, <1>3, <1>4, <1>5 DEF S, q

(* From anywhere there is a reading that selects a given channel: any in   *)
(* its margins, if the radio is there already, else the first step of its  *)
(* part, coming from above, or the last one, coming from below.            *)
LEMMA Selectable ==
  ASSUME NEW count \in Valid, Wide(count), NoWrap,
         NEW cur \in 0..count, NEW c \in 0..count - 1
  PROVE  \E adc \in Readings : Select(cur, count, adc) = c
<1> DEFINE S == Step(count)
           r == Rest(count)
<1>1. /\ count \in Nat /\ count > 0 /\ S \in Nat /\ r \in Nat
      /\ MAX_ADC \in Nat /\ OVERLAPP_ADC \in Nat /\ OVERLAPP_ADC > 0
      /\ MAX_ADC = S * count + r /\ S > OVERLAPP_ADC + r + 1
  BY StepFacts, DialAssumption, StartBounds DEF Wide, Rest
<1>2. /\ c \in Nat /\ cur \in Nat /\ cur <= count /\ c < count
      /\ c * S \in Nat /\ cur * S \in Nat
  BY <1>1
<1>3. c * S + S <= count * S /\ count * S = S * count
  BY <1>1, <1>2, PartsInOrder
<1>4. /\ Start(cur, count) \in Nat /\ cur * S <= Start(cur, count)
      /\ Start(cur, count) <= cur * S + r
  BY <1>2, StartBounds
<1> HIDE DEF S, r
<1>5. CASE c = cur
  <2>1. /\ Start(1 + c, count) \in Nat /\ (1 + c) * S <= Start(1 + c, count)
    BY <1>2, StartBounds DEF S
  <2>2. (1 + c) * S = c * S + S
    BY <1>1, <1>2
  <2>3. LimitMin(c, count) \in Nat /\ LimitMin(c, count) <= c * S + r
    BY <1>1, <1>2, <1>4, <1>5, Margins
  <2>4. LimitMax(c, count) \in Nat /\ c * S + r <= LimitMax(c, count)
    <3>1. CASE c + 2 <= count
      BY <3>1, <2>1, <2>2, <1>1, <1>2, <1>5, Margins
    <3>2. CASE c + 2 > count
      BY <3>2, <1>1, <1>2, <1>3, <1>5, Margins
    <3> QED
      BY <3>1, <3>2, <1>1, <1>2
  <2>5. c * S + r \in Readings
    BY <1>1, <1>2, <1>3 DEF Readings
  <2>6. Select(cur, count, c * S + r) = c
    BY <2>3, <2>4, <1>1, <1>2, <1>5 DEF Select, Leaves
  <2> QED
    BY <2>5, <2>6
<1>6. CASE c < cur
  <2>1. c * S + S <= cur * S
    BY <1>1, <1>2, <1>6, PartsInOrder
  <2>2. c * S < LimitMin(cur, count)
    BY <2>1, <1>1, <1>2, <1>4, Margins
  <2>3. c * S \in Readings
    BY <1>1, <1>2, <1>3 DEF Readings
  <2>4. Part(count, c * S) = c
    <3>1. c * S <= c * S /\ c * S < c * S + S
      BY <1>1, <1>2
    <3> QED
      BY <2>3, <3>1, <1>2, PartEncloses DEF S
  <2> QED
    BY <2>2, <2>3, <2>4 DEF Select, Leaves
<1>7. CASE c > cur
  <2> DEFINE adc == c * S + S - 1
  <2>1. /\ Start(1 + cur, count) \in Nat
        /\ Start(1 + cur, count) <= (1 + cur) * S + r
    BY <1>1, <1>2, <1>7, StartBounds DEF S, r
  <2>2. (1 + cur) * S <= c * S /\ (1 + cur) * S \in Nat
    <3>1. CASE 1 + cur = c
      BY <3>1, <1>2
    <3>2. CASE 1 + cur < c
      <4>1. (1 + cur) * S + S <= c * S
        BY <3>2, <1>1, <1>2, PartsInOrder
      <4>2. (1 + cur) * S \in Nat
        BY <1>1, <1>2
      <4> QED
        BY <4>1, <4>2, <1>1, <1>2
    <3> QED
      BY <3>1, <3>2, <1>2, <1>7
  <2>3. adc > LimitMax(cur, count)
    <3>1. LimitMax(cur, count) = Start(1 + cur, count) + OVERLAPP_ADC
      BY <1>1, <1>2, <1>7, Margins
    <3> QED
      BY <3>1, <2>1, <2>2, <1>1, <1>2
  <2>4. adc \in Readings /\ c * S <= adc /\ adc < c * S + S
    BY <1>1, <1>2, <1>3 DEF Readings
  <2>5. Part(count, adc) = c
    BY <2>4, <1>2, PartEncloses DEF S
  <2> QED
    BY <2>3, <2>4, <2>5 DEF Select, Leaves
<1> QED
  BY <1>2, <1>5, <1>6, <1>7

(* A reading that switches is not undone by noise within both margins: if  *)
(* the channels are neighbours the new one's margin still holds the        *)
(* reading, if not the old one's part is too far away.                     *)
LEMMA NoFlicker ==
  ASSUME NEW count \in Valid, Wide(count), NoWrap, NEW cur \in 0..count - 1,
         NEW adc \in Readings, NEW noise \in Readings,
         adc - 2 * OVERLAPP_ADC <= noise, noise <= adc + 2 * OVERLAPP_ADC,
         Leaves(cur, count, adc), Part(count, adc) # cur, Part(count, adc) < count
  PROVE  Select(Part(count, adc), count, noise) # cur
<1> DEFINE S == Step(count)
           r == Rest(count)
           next == Part(count, adc)
<1> SUFFICES ASSUME Select(next, count, noise) = cur PROVE FALSE
  OBVIOUS
<1>1. /\ count \in Nat /\ count > 0 /\ S \in Nat /\ r \in Nat
      /\ MAX_ADC \in Nat /\ OVERLAPP_ADC \in Nat /\ OVERLAPP_ADC > 0
      /\ MAX_ADC = S * count + r /\ S > OVERLAPP_ADC + r + 1 /\ S >= 2 * OVERLAPP_ADC
  BY StepFacts, DialAssumption, StartBounds DEF Wide, Rest
<1>2. /\ next \in Nat /\ next < count /\ next * S \in Nat
      /\ next * S <= adc /\ adc < next * S + S
  BY <1>1, PartEncloses
<1>3. /\ Leaves(next, count, noise) /\ Part(count, noise) = cur
  BY DEF Select
<1>4. /\ cur * S <= noise /\ noise < cur * S + S
  BY <1>3, PartEncloses
<1>5. /\ cur \in Nat /\ cur < count /\ cur * S \in Nat
      /\ adc \in Nat /\ noise \in Nat
  BY <1>1 DEF Readings
<1>6. /\ Start(cur, count) \in Nat /\ Start(cur, count) <= cur * S + r
      /\ Start(next, count) \in Nat /\ Start(next, count) <= next * S + r
      /\ Start(1 + cur, count) \in Nat /\ (1 + cur) * S <= Start(1 + cur, count)
      /\ Start(1 + next, count) \in Nat /\ (1 + next) * S <= Start(1 + next, count)
  BY <1>1, <1>2, <1>5, StartBounds
<1>7. /\ (1 + cur) * S = cur * S + S /\ (1 + next) * S = next * S + S
      /\ count * S = S * count /\ count * S \in Nat
      /\ cur * S + S <= count * S /\ next * S + S <= count * S
  <2>1. cur * S + S <= count * S /\ next * S + S <= count * S
    BY <1>1, <1>2, <1>5, PartsInOrder
  <2> QED
    BY <2>1, <1>1, <1>2, <1>5
<1>8. next # cur /\ Leaves(cur, count, adc)
  OBVIOUS
<1>9. \A c \in 0..count - 1 :
        /\ LimitMin(c, count) = IF Start(c, count) < OVERLAPP_ADC THEN 0
                                ELSE Start(c, count) - OVERLAPP_ADC
        /\ c + 2 <= count => LimitMax(c, count) = Start(1 + c, count) + OVERLAPP_ADC
        /\ c + 2 > count => LimitMax(c, count) = MAX_ADC - OVERLAPP_ADC
  BY <1>1, Margins
<1>10. /\ LimitMin(cur, count) = IF Start(cur, count) < OVERLAPP_ADC THEN 0
                                 ELSE Start(cur, count) - OVERLAPP_ADC
       /\ cur + 2 <= count => LimitMax(cur, count) = Start(1 + cur, count) + OVERLAPP_ADC
       /\ cur + 2 > count => LimitMax(cur, count) = MAX_ADC - OVERLAPP_ADC
  BY <1>9
<1>11. /\ LimitMin(next, count) = IF Start(next, count) < OVERLAPP_ADC THEN 0
                                  ELSE Start(next, count) - OVERLAPP_ADC
       /\ next + 2 <= count => LimitMax(next, count) = Start(1 + next, count) + OVERLAPP_ADC
       /\ next + 2 > count => LimitMax(next, count) = MAX_ADC - OVERLAPP_ADC
  <2>1. next \in 0..count - 1
    BY <1>1, <1>2
  <2> HIDE DEF next
  <2> QED
    BY <1>9, <2>1
<1> HIDE DEF S, r, next
<1>12. CASE next > cur
  <2>1. cur * S + S <= next * S
    BY <1>1, <1>2, <1>5, <1>12, PartsInOrder
  <2>2. cur + 2 <= count
    BY <1>1, <1>2, <1>5, <1>12
  <2>3. adc > Start(1 + cur, count) + OVERLAPP_ADC
    BY <2>1, <2>2, <1>1, <1>2, <1>5, <1>6, <1>8, <1>10 DEF Leaves
  <2>4. CASE next = 1 + cur
    <3>1. noise > Start(next, count) - OVERLAPP_ADC
      BY <2>3, <2>4, <1>1, <1>5, <1>6
    <3>2. noise > LimitMax(next, count)
      BY <3>1, <1>3, <1>1, <1>4, <1>5, <1>6, <1>11 DEF Leaves
    <3>3. next * S = cur * S + S
      BY <2>4, <1>7
    <3> QED
      BY <3>2, <3>3, <1>1, <1>2, <1>4, <1>5, <1>6, <1>7, <1>11
  <2>5. CASE next > 1 + cur
    <3>1. (1 + cur) * S + S <= next * S
      BY <2>5, <1>1, <1>2, <1>5, PartsInOrder
    <3> QED
      BY <3>1, <1>1, <1>2, <1>4, <1>5, <1>7
  <2> QED
    BY <2>4, <2>5, <1>2, <1>5, <1>12
<1>13. CASE next < cur
  <2>1. next * S + S <= cur * S
    BY <1>1, <1>2, <1>5, <1>13, PartsInOrder
  <2>2. ~(adc > LimitMax(cur, count))
    BY <2>1, <1>1, <1>2, <1>5, <1>6, <1>7, <1>10
  <2>3. adc < Start(cur, count) - OVERLAPP_ADC
    BY <2>2, <1>1, <1>5, <1>6, <1>8, <1>10 DEF Leaves
  <2>4. CASE cur = 1 + next
    <3>1. noise < Start(1 + next, count) + OVERLAPP_ADC
      BY <2>3, <2>4, <1>1, <1>5, <1>6
    <3>2. next + 2 <= count
      BY <2>4, <1>1, <1>2, <1>5
    <3>3. ~(noise > LimitMax(next, count))
      BY <3>1, <3>2, <1>1, <1>5, <1>6, <1>11
    <3>4. ~(noise < LimitMin(next, count))
      BY <2>1, <1>1, <1>2, <1>4, <1>5, <1>6, <1>11
    <3> QED
      BY <3>3, <3>4, <1>3 DEF Leaves
  <2>5. CASE cur > 1 + next
    <3>1. (1 + next) * S + S <= cur * S
      BY <2>5, <1>1, <1>2, <1>5, PartsInOrder
    <3> QED
      BY <3>1, <1>1, <1>2, <1>4, <1>5, <1>7
  <2> QED
    BY <2>4, <2>5, <1>2, <1>5, <1>13
<1> QED
  BY <1>12, <1>13, <1>8, <1>2, <1>5

(* Whole steps and margins put a reading at most one channel off.          *)
LEMMA OneOff ==
  ASSUME NEW count \in Valid, Wide(count), NoWrap,
         NEW cur \in 0..count, NEW adc \in Readings
  PROVE  LET got == Select(cur, count, adc)
             exact == (adc * count) \div MAX_ADC
         IN  got \in 0..count /\ exact \in 0..count /\ got - exact \in {-1, 0, 1}
<1> DEFINE S == Step(count)
           r == Rest(count)
           q == Part(count, adc)
           e == (adc * count) \div MAX_ADC
<1>1. /\ count \in Nat /\ count > 0 /\ S \in Nat /\ r \in Nat
      /\ MAX_ADC \in Nat /\ MAX_ADC > 0 /\ OVERLAPP_ADC \in Nat /\ OVERLAPP_ADC > 0
      /\ MAX_ADC = S * count + r /\ S > OVERLAPP_ADC + r + 1
  BY StepFacts, DialAssumption, StartBounds DEF Wide, Rest
<1>2. /\ adc \in Nat /\ adc <= MAX_ADC /\ cur \in Nat /\ cur <= count
      /\ cur * S \in Nat
  BY <1>1 DEF Readings
<1>3. /\ q \in Nat /\ q <= count /\ q * S <= adc /\ adc < q * S + S
  BY <1>1, PartEncloses
<1>4. adc * count \in Nat /\ adc * count <= MAX_ADC * count
  BY <1>1, <1>2
<1>5. e \in Nat /\ e * MAX_ADC <= adc * count /\ adc * count < e * MAX_ADC + MAX_ADC
  BY <1>1, <1>4, DivFloor
<1>6. /\ Start(cur, count) \in Nat /\ cur * S <= Start(cur, count)
  BY <1>2, StartBounds
<1>7. /\ LimitMin(cur, count) = IF Start(cur, count) < OVERLAPP_ADC THEN 0
                                ELSE Start(cur, count) - OVERLAPP_ADC
      /\ cur + 2 <= count => LimitMax(cur, count) = Start(1 + cur, count) + OVERLAPP_ADC
  BY Margins
<1> HIDE DEF S, r, q, e
<1>8. e <= count
  <2>1. e * MAX_ADC <= count * MAX_ADC
    BY <1>1, <1>2, <1>4, <1>5
  <2> QED
    BY <2>1, <1>1, <1>5
<1>9. e * S \in Nat /\ e * S <= adc
  <2>1. e * MAX_ADC = (e * S) * count + e * r /\ e * r \in Nat /\ e * S \in Nat
    BY <1>1, <1>5
  <2>2. (e * S) * count <= adc * count
    BY <2>1, <1>1, <1>4, <1>5
  <2> QED
    BY <2>1, <2>2, <1>1, <1>2
<1>10. ASSUME e < count PROVE adc < e * S + S + r
  <2>1. e * MAX_ADC + MAX_ADC = (e * S + S) * count + (e + 1) * r
    BY <1>1, <1>5, <1>9
  <2>2. (e + 1) * r <= count * r
    BY <1>1, <1>5, <1>10
  <2>3. adc * count < (e * S + S + r) * count
    BY <2>1, <2>2, <1>1, <1>4, <1>5, <1>9
  <2> QED
    BY <2>3, <1>1, <1>2, <1>9
<1>11. CASE Leaves(cur, count, adc)
  <2>1. Select(cur, count, adc) = q
    BY <1>11 DEF Select, q
  <2>2. ~(q < e)
    <3> SUFFICES ASSUME q < e PROVE FALSE
      OBVIOUS
    <3>1. q * S + S <= e * S
      BY <1>1, <1>3, <1>5, PartsInOrder
    <3> QED
      BY <3>1, <1>1, <1>2, <1>3, <1>9
  <2>3. ~(1 + e < q)
    <3> SUFFICES ASSUME 1 + e < q PROVE FALSE
      OBVIOUS
    <3>1. (1 + e) * S + S <= q * S /\ (1 + e) * S = e * S + S
      BY <1>1, <1>3, <1>5, PartsInOrder
    <3>2. adc < e * S + S + r
      BY <1>1, <1>3, <1>5, <1>10
    <3> QED
      BY <3>1, <3>2, <1>1, <1>2, <1>3, <1>9
  <2>4. q \in 0..count /\ e \in 0..count /\ q - e \in {-1, 0, 1}
    BY <2>2, <2>3, <1>1, <1>3, <1>5, <1>8
  <2> QED
    BY <2>1, <2>4, Zenon DEF e
<1>12. CASE ~Leaves(cur, count, adc)
  <2>1. Select(cur, count, adc) = cur
    BY <1>12 DEF Select
  <2>2. ~(1 + e < cur)
    <3> SUFFICES ASSUME 1 + e < cur PROVE FALSE
      OBVIOUS
    <3>1. (1 + e) * S + S <= cur * S /\ (1 + e) * S = e * S + S
      BY <1>1, <1>2, <1>5, PartsInOrder
    <3>2. adc < e * S + S + r
      BY <1>1, <1>2, <1>5, <1>10
    <3>3. adc >= Start(cur, count) - OVERLAPP_ADC
      BY <1>1, <1>2, <1>6, <1>7, <1>12 DEF Leaves
    <3> QED
      BY <3>1, <3>2, <3>3, <1>1, <1>2, <1>6, <1>9
  <2>3. ~(1 + cur < e)
    <3> SUFFICES ASSUME 1 + cur < e PROVE FALSE
      OBVIOUS
    <3>1. (1 + cur) * S + S <= e * S /\ (1 + cur) * S \in Nat
      BY <1>1, <1>2, <1>5, PartsInOrder
    <3>2. /\ Start(1 + cur, count) \in Nat
          /\ Start(1 + cur, count) <= (1 + cur) * S + r
      BY <1>1, <1>2, <1>5, <1>8, StartBounds DEF S, r
    <3>3. adc <= Start(1 + cur, count) + OVERLAPP_ADC
      BY <3>2, <1>1, <1>2, <1>5, <1>7, <1>8, <1>12 DEF Leaves
    <3> QED
      BY <3>1, <3>2, <3>3, <1>1, <1>2, <1>9
  <2> QED
    BY <2>1, <2>2, <2>3, <1>1, <1>2, <1>5, <1>8 DEF e
<1> QED
  BY <1>11, <1>12
-----------------------------------------------------------------------------
\* With wide channels the dial leads no further than to the server.
OnDial == TypeOK /\ (streamCount > 0 /\ Wide(streamCount)
                       => streamCounter <= streamCount /\ currentStream <= streamCount)

(* The noted and the selected channel are channels of the dial, or the     *)
(* server.                                                                 *)
LEMMA StaysOnDial == Spec => []OnDial
<1>1. Init => OnDial
  BY TypeInit DEF Init, OnDial
<1>2. OnDial /\ [Next]_vars => OnDial'
  <2> SUFFICES ASSUME OnDial, [Next]_vars PROVE OnDial'
    OBVIOUS
  <2>1. TypeOK /\ TypeOK'
    BY TypeStep DEF OnDial
  <2>2. ASSUME NEW count \in Counts, streamCount = 0, channel_setStreamCount(count)
        PROVE  OnDial'
    BY <2>1, <2>2, CountsAssumption
    DEF channel_setStreamCount, CountAfter, OnDial, TypeOK, MaxCount
  <2>3. ASSUME NEW adc \in Readings, streamCount > 0, channel_read(adc)
        PROVE  OnDial'
    <3>1. streamCount \in Valid
      BY <2>1, <2>3, CountsAssumption DEF Valid, TypeOK
    <3>2. Wide(streamCount) => Part(streamCount, adc) \in 0..streamCount
      BY <3>1, PartEncloses
    <3> QED
      BY <2>1, <2>3, <3>1, <3>2, CountsAssumption DEF channel_read, OnDial, Valid
  <2>4. CASE streamCount > 0 /\ channel_setCurrentStream(streamCounter)
    BY <2>1, <2>4 DEF channel_setCurrentStream, OnDial
  <2>5. CASE UNCHANGED vars
    BY <2>1, <2>5 DEF vars, OnDial
  <2> QED
    BY <2>2, <2>3, <2>4, <2>5 DEF Next
<1> QED
  BY <1>1, <1>2, PTL DEF Spec

(* A reading that switches is not undone by noise, for every dial whose    *)
(* channels are wide enough (channel.c:96-104).                            *)
THEOREM NoiseIsIgnored ==
  ASSUME NoWrap
  PROVE  Spec => [](Wide(streamCount) => Hysteresis)
<1>1. OnDial => (Wide(streamCount) => Hysteresis)
  <2> SUFFICES ASSUME OnDial, Wide(streamCount), streamCount > 0, IsChannel(currentStream),
                      NEW adc \in Readings,
                      NEW noise \in Readings
                        \cap (adc - 2 * OVERLAPP_ADC .. adc + 2 * OVERLAPP_ADC),
                      Select(currentStream, streamCount, adc) # currentStream,
                      IsChannel(Select(currentStream, streamCount, adc))
               PROVE  Select(Select(currentStream, streamCount, adc), streamCount, noise)
                        # currentStream
    BY DEF Hysteresis
  <2>1. streamCount \in Valid /\ currentStream \in 0..streamCount - 1
    BY CountsAssumption, DialAssumption DEF OnDial, TypeOK, Valid, IsChannel
  <2>2. /\ Leaves(currentStream, streamCount, adc)
        /\ Select(currentStream, streamCount, adc) = Part(streamCount, adc)
    BY DEF Select
  <2>3. Part(streamCount, adc) # currentStream /\ Part(streamCount, adc) < streamCount
    BY <2>2 DEF IsChannel
  <2>4. /\ noise \in Readings /\ adc - 2 * OVERLAPP_ADC <= noise
        /\ noise <= adc + 2 * OVERLAPP_ADC
    BY DialAssumption DEF Readings
  <2> QED
    BY <2>1, <2>2, <2>3, <2>4, NoFlicker
<1> QED
  BY <1>1, StaysOnDial, PTL

(* Every channel has a place on the dial, wherever the radio is, for every *)
(* dial whose channels are wide enough.                                    *)
THEOREM ChannelsSelectable ==
  ASSUME NoWrap
  PROVE  Spec => [](Wide(streamCount) => EveryChannelSelectable)
<1>1. OnDial => (Wide(streamCount) => EveryChannelSelectable)
  <2> SUFFICES ASSUME OnDial, Wide(streamCount), streamCount > 0, NEW c \in 0..streamCount - 1
               PROVE  \E adc \in Readings : Select(currentStream, streamCount, adc) = c
    BY DEF EveryChannelSelectable
  <2>1. streamCount \in Valid /\ currentStream \in 0..streamCount
    BY CountsAssumption, DialAssumption DEF OnDial, TypeOK, Valid
  <2> QED
    BY <2>1, Selectable
<1> QED
  BY <1>1, StaysOnDial, PTL

(* No reading selects a channel more than one off, for every dial whose    *)
(* channels are wide enough.                                               *)
THEOREM DialIsEven ==
  ASSUME NoWrap
  PROVE  Spec => [](Wide(streamCount) => DialEven)
<1>1. OnDial => (Wide(streamCount) => DialEven)
  <2> SUFFICES ASSUME OnDial, Wide(streamCount), streamCount > 0, NEW adc \in Readings
               PROVE  LET got == Select(currentStream, streamCount, adc)
                          exact == (adc * streamCount) \div MAX_ADC
                          capped(c) == IF c < streamCount THEN c ELSE streamCount
                      IN  capped(got) - capped(exact) \in {-1, 0, 1}
    BY DEF DialEven
  <2>1. streamCount \in Valid /\ currentStream \in 0..streamCount /\ streamCount \in Nat
    BY CountsAssumption, DialAssumption DEF OnDial, TypeOK, Valid
  <2> DEFINE got == Select(currentStream, streamCount, adc)
             exact == (adc * streamCount) \div MAX_ADC
  <2>2. got \in 0..streamCount /\ exact \in 0..streamCount /\ got - exact \in {-1, 0, 1}
    BY <2>1, OneOff
  <2> HIDE DEF got, exact
  <2>3. /\ (IF got < streamCount THEN got ELSE streamCount) = got
        /\ (IF exact < streamCount THEN exact ELSE streamCount) = exact
    BY <2>1, <2>2
  <2> QED
    BY <2>2, <2>3 DEF got, exact
<1> QED
  BY <1>1, StaysOnDial, PTL
-----------------------------------------------------------------------------
\* The numbers of channels that are wide enough on the board's dial.
BoardCounts == 1..36 \cup {39, 42, 44, 46, 51, 60, 64, 68, 73, 85, 93}

(* On the board's dial, 1024 steps with a margin of 5 (channel.c:13-14),   *)
(* these numbers of channels are wide enough: division by literals.        *)
LEMMA WideOnBoard ==
  ASSUME MAX_ADC = 1024, OVERLAPP_ADC = 5, NEW count \in BoardCounts
  PROVE  Wide(count)
<1> USE DEF Wide, Rest, Step
<1>1. \A c \in 1..12 : Wide(c)
  <2> SUFFICES ASSUME NEW c \in 1..12 PROVE Wide(c)
    OBVIOUS
  <2>1. \/ c = 1 \/ c = 2 \/ c = 3 \/ c = 4 \/ c = 5 \/ c = 6
        \/ c = 7 \/ c = 8 \/ c = 9 \/ c = 10 \/ c = 11 \/ c = 12
    OBVIOUS
  <2> QED
    BY <2>1
<1>2. \A c \in 13..24 : Wide(c)
  <2> SUFFICES ASSUME NEW c \in 13..24 PROVE Wide(c)
    OBVIOUS
  <2>1. \/ c = 13 \/ c = 14 \/ c = 15 \/ c = 16 \/ c = 17 \/ c = 18
        \/ c = 19 \/ c = 20 \/ c = 21 \/ c = 22 \/ c = 23 \/ c = 24
    OBVIOUS
  <2> QED
    BY <2>1
<1>3. \A c \in 25..36 : Wide(c)
  <2> SUFFICES ASSUME NEW c \in 25..36 PROVE Wide(c)
    OBVIOUS
  <2>1. \/ c = 25 \/ c = 26 \/ c = 27 \/ c = 28 \/ c = 29 \/ c = 30
        \/ c = 31 \/ c = 32 \/ c = 33 \/ c = 34 \/ c = 35 \/ c = 36
    OBVIOUS
  <2> QED
    BY <2>1
<1>4. \A c \in {39, 42, 44, 46, 51, 60, 64, 68, 73, 85, 93} : Wide(c)
  OBVIOUS
<1> QED
  BY <1>1, <1>2, <1>3, <1>4 DEF BoardCounts

(* The board's dial keeps all three promises for 1 to 36 channels, and for *)
(* the larger numbers whose whole steps leave little over.  That it does   *)
(* not for 37, 38, 40 ... is why BoardCounts has gaps.                     *)
THEOREM BoardDial ==
  ASSUME MAX_ADC = 1024, OVERLAPP_ADC = 5
  PROVE  Spec => [](streamCount \in BoardCounts
                      => Hysteresis /\ EveryChannelSelectable /\ DialEven)
<1>1. NoWrap
  BY DEF NoWrap
<1>2. streamCount \in BoardCounts => Wide(streamCount)
  BY WideOnBoard
<1> QED
  BY <1>1, <1>2, NoiseIsIgnored, ChannelsSelectable, DialIsEven, PTL
=============================================================================
