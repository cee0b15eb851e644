------------------------------ MODULE Channel ------------------------------
(***************************************************************************)
(* The dial of src/mp3/user/channel.c: channel_read turns the voltage of   *)
(* the knob, 0 to MAX_ADC, into a channel.  The dial is divided evenly     *)
(* between the streamCount channels; a selected channel keeps a margin of  *)
(* OVERLAPP_ADC on both sides, so that noise does not switch back and      *)
(* forth.  A result of streamCount or more stands for the config server.   *)
(*                                                                         *)
(* channel_read only notes its result in streamCounter; its callers decide *)
(* when to make it the currentStream.  The strings and ports of a channel  *)
(* are left to module Settings.                                            *)
(*                                                                         *)
(* A definition that stands right before another one, without a comment of *)
(* its own, is that other one with a plausible bug in it: the properties   *)
(* below are checked to notice it.                                         *)
(***************************************************************************)
EXTENDS Integers

CONSTANTS MAX_ADC,        \* the reading at the end of the dial (1024)
          OVERLAPP_ADC,   \* margin of a selected channel (5)
          Counts          \* numbers of channels the user asks for

ASSUME DialAssumption ==
  /\ MAX_ADC \in Nat /\ OVERLAPP_ADC \in Nat
  /\ OVERLAPP_ADC > 0 /\ MAX_ADC > 2 * OVERLAPP_ADC
ASSUME CountsAssumption == Counts \subseteq Int

VARIABLES streamCounter,   \* channel noted by the last channel_read
          currentStream,   \* channel the radio is at
          streamCount      \* channels there are; 0 until they are set

vars == <<streamCounter, currentStream, streamCount>>

Readings == 0 .. MAX_ADC
MaxCount == 99

uint16(x) == x % 65536

\* The limits fit 16 bits, and a channel's part of the dial is wider than a margin.
\* The board's constants allow all of the 99 channels.
ASSUME StepAssumption ==
  /\ MAX_ADC + OVERLAPP_ADC < 65536
  /\ \A c \in Counts : 0 < c /\ c <= MaxCount => MAX_ADC \div c > OVERLAPP_ADC
-----------------------------------------------------------------------------
\* The margins of channel cur on a dial of count channels.
LimitMaxNext(cur, count) ==
  LET limit == uint16(((2 + cur) * MAX_ADC) \div count + OVERLAPP_ADC)
  IN  IF limit > MAX_ADC THEN MAX_ADC - OVERLAPP_ADC ELSE limit
LimitMaxUncut(cur, count) == uint16(((1 + cur) * MAX_ADC) \div count + OVERLAPP_ADC)
LimitMax(cur, count) ==
  LET limit == uint16(((1 + cur) * MAX_ADC) \div count + OVERLAPP_ADC)
  IN  IF limit > MAX_ADC THEN MAX_ADC - OVERLAPP_ADC ELSE limit

LimitMinBare(cur, count) == uint16((cur * MAX_ADC) \div count)
LimitMin(cur, count) ==
  LET start == (cur * MAX_ADC) \div count
  IN  IF start < OVERLAPP_ADC THEN 0 ELSE uint16(start - OVERLAPP_ADC)

Leaves(cur, count, adc) == adc < LimitMin(cur, count) \/ adc > LimitMax(cur, count)

\* The channel whose part of the dial a reading lies in.
PartRounded(count, adc) == (adc * count + MAX_ADC \div 2) \div MAX_ADC + 1
Part(count, adc) == adc \div (MAX_ADC \div count)

channel_read(adc) ==
  /\ streamCounter' = IF Leaves(currentStream, streamCount, adc)
                        THEN Part(streamCount, adc) ELSE streamCounter
  /\ UNCHANGED <<currentStream, streamCount>>

channel_setCurrentStream(id) ==
  /\ currentStream' = id
  /\ UNCHANGED <<streamCounter, streamCount>>

\* What channel_setStreamCount makes of the old number of channels.
CountAfterUnchecked(count, old) == IF count <= 0 THEN old ELSE count
CountAfter(count, old) == IF count <= 0 \/ count > MaxCount THEN old ELSE count

channel_setStreamCount(count) ==
  /\ streamCount' = CountAfter(count, streamCount)
  /\ UNCHANGED <<streamCounter, currentStream>>
-----------------------------------------------------------------------------
(* The dial by itself: the channels are set once, then the knob is read    *)
(* and the result selected in any order.                                   *)
Init == streamCounter = 0 /\ currentStream = 0 /\ streamCount = 0

Next ==
  \/ streamCount = 0 /\ \E count \in Counts : channel_setStreamCount(count)
  \/ streamCount > 0 /\ \E adc \in Readings : channel_read(adc)
  \/ streamCount > 0 /\ channel_setCurrentStream(streamCounter)

Spec == Init /\ [][Next]_vars
-----------------------------------------------------------------------------
\* The channel the radio is at after a reading is taken and selected.
Select(cur, count, adc) ==
  IF Leaves(cur, count, adc) THEN Part(count, adc) ELSE cur

IsChannel(c) == 0 <= c /\ c < streamCount

TypeOK ==
  /\ streamCount \in {0} \cup {c \in Counts : 0 < c /\ c <= MaxCount}
  /\ streamCounter \in 0..MAX_ADC /\ currentStream \in 0..MAX_ADC
  /\ streamCount = 0 => streamCounter = 0 /\ currentStream = 0

(* A reading that switches from one channel to another is not undone by    *)
(* noise: to switch back the knob must move by more than both margins      *)
(* (channel.c, lines 96-104).                                              *)
Hysteresis ==
  streamCount > 0 /\ IsChannel(currentStream) =>
    \A adc \in Readings :
      LET next == Select(currentStream, streamCount, adc)
      IN  next # currentStream /\ IsChannel(next) =>
            \A noise \in Readings \cap (adc - 2 * OVERLAPP_ADC .. adc + 2 * OVERLAPP_ADC) :
              Select(next, streamCount, noise) # currentStream

(* "Just use poti to select different channels" (README.md, line 163):     *)
(* wherever the radio is, every channel has a place on the dial.           *)
EveryChannelSelectable ==
  streamCount > 0 =>
    \A c \in 0 .. streamCount - 1 :
      \E adc \in Readings : Select(currentStream, streamCount, adc) = c

(* The end of the dial always asks for the config server, whatever the     *)
(* radio is at: neither a margin nor a wrapped limit hides it (README.md,  *)
(* line 139; user_main.c, line 282).                                       *)
MaxKnobIsServer ==
  streamCount > 0 => Select(currentStream, streamCount, MAX_ADC) >= streamCount

(* The dial is even: wherever the knob stands, the channel is at most one  *)
(* off the one an exact division of the dial gives, in spite of the width  *)
(* cut down to whole steps and of the margins.                             *)
DialEven ==
  streamCount > 0 =>
    \A adc \in Readings :
      LET got == Select(currentStream, streamCount, adc)
          exact == (adc * streamCount) \div MAX_ADC
          capped(c) == IF c < streamCount THEN c ELSE streamCount
      IN  capped(got) - capped(exact) \in {-1, 0, 1}
=============================================================================
