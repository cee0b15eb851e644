-------------------------------- MODULE Render --------------------------------
(***************************************************************************)
(* The way out of the decoder, src/mp3/user/mad_helper.c: mad_synth_frame  *)
(* sets the rate of the DAC when it begins a frame and then hands blocks   *)
(* of samples to render_sample_block, which leaves samples out or repeats  *)
(* them, to play a little faster or slower than the clock: recalcAddDelSamp*)
(* watches the fill of the fifo and decides by how much.                   *)
(*                                                                         *)
(* One action is one turn of the loop over the samples, or the code before *)
(* that loop.  The fills that spiRamFifoFill returns are arbitrary: the    *)
(* network and the decoder's own reads decide them.  The numbers are those *)
(* of the code scaled down, ONE being one sample in its fixed point.       *)
(*                                                                         *)
(* A definition that stands right before another one, without a comment of *)
(* its own, is that other one with a plausible bug in it: the properties   *)
(* below are checked to notice it.                                         *)
(***************************************************************************)
EXTENDS SampleRate

CONSTANTS Rates,        \* sample rates of the frames
          FifoLens,     \* what spiRamFifoLen may return: the size in each build
          SmallFifo,    \* below this the fifo counts as very small (10K)
          Fills,        \* fills of the fifo that are looked at
          ONE,          \* one sample (1 << 24)
          BLOCK,        \* samples in a block (32)
          PERIOD,       \* blocks from one correction to the next (1500)
          TGT,          \* fill aimed at in a small fifo (1600)
          GAIN, GAIN_NOSPIRAM,   \* correction per byte too much or too little
          AddDelCap,    \* bound: the correction does not pass it
          ErrCap        \* bound: the error before a block does not pass it

ASSUME RenderAssumption ==
  /\ Rates \subseteq Nat \ {0}
  /\ FifoLens \subseteq Nat
  /\ Fills \subseteq Nat
  /\ SmallFifo \in Nat /\ TGT \in Nat /\ TGT < 9999
  /\ ONE \in Nat \ {0} /\ BLOCK \in Nat \ {0} /\ PERIOD \in Nat \ {0}
  /\ GAIN \in Nat /\ GAIN_NOSPIRAM \in Nat
  /\ AddDelCap \in Nat /\ ErrCap \in Nat

VARIABLES
  fifoLen,        \* spiRamFifoLen(), fixed by the build
  oldRate, dac,   \* set_dac_sample_rate: rate it last saw; I2SCONF, or Unset
  cnt, minFifoFill,      \* recalcAddDelSamp's static variables
  sampAddDel, sampErr,   \* render_sample_block's static variables
  i,              \* samples of the block dealt with; BLOCK between blocks
  out,            \* history: samples pushed for this block
  owed,           \* history: sampErr when the block's loop began
  first,          \* history: no correction has been worked out yet
  wentLow,        \* history: a fill of TGT or less was seen in this period
  beyond          \* history: a correction was more than a sample per sample

rate == <<oldRate, dac>>
speed == <<cnt, minFifoFill, sampAddDel, first, wentLow, beyond>>
block == <<sampErr, i, out, owed>>
vars == <<fifoLen, rate, speed, block>>

Init ==
  /\ fifoLen \in FifoLens
  /\ oldRate = 0 /\ dac = Unset
  /\ cnt = 0 /\ minFifoFill = 0 /\ sampAddDel = 0
  /\ first = TRUE /\ wentLow = FALSE /\ beyond = FALSE
  /\ sampErr = 0 /\ i = BLOCK /\ out = BLOCK /\ owed = 0
-----------------------------------------------------------------------------
Dividers == [r \in Rates |-> BestDividers(r)]

\* set_dac_sample_rate, at the start of a frame of rate r.
SetDacSampleRate(r) ==
  /\ i = BLOCK /\ r # oldRate
  /\ oldRate' = r /\ dac' = Registers(Dividers[r])
  /\ UNCHANGED <<fifoLen, speed, block>>
-----------------------------------------------------------------------------
\* recalcAddDelSamp's answer in the block in which cnt comes to PERIOD: a small
\* fifo adds to the last correction, a large one works it out anew from a
\* second look at the fill.  Underruns are not counted here: input never reads
\* more than the fifo holds, so spiRamGetUnderrunCt stays 0 (Player!NoUnderrun).
Recalc(low, fill) ==
  IF fifoLen < SmallFifo THEN sampAddDel + (low - TGT) * GAIN_NOSPIRAM
                         ELSE (fill - fifoLen \div 2) * GAIN

\* The least fill to go on with after a correction; a large fifo keeps its own.
LowAgainNever(low) == low
LowAgain(low) == IF fifoLen < SmallFifo THEN 9999 ELSE low

\* render_sample_block up to its loop, recalcAddDelSamp included.
StartBlock(seen, fill) ==
  LET low == IF seen < minFifoFill THEN seen ELSE minFifoFill
      due == ~(cnt + 1 < PERIOD)
      addDel == IF due THEN Recalc(low, fill) ELSE sampAddDel
  IN  /\ i = BLOCK /\ oldRate # 0
      /\ Abs(addDel) <= AddDelCap /\ Abs(sampErr + addDel) <= ErrCap
      /\ cnt' = IF due THEN 0 ELSE cnt + 1
      /\ minFifoFill' = IF due THEN LowAgain(low) ELSE low
      /\ sampAddDel' = addDel
      /\ sampErr' = sampErr + addDel
      /\ i' = 0 /\ out' = 0 /\ owed' = sampErr + addDel
      /\ first' = IF due THEN FALSE ELSE first
      /\ wentLow' = IF seen <= TGT THEN TRUE ELSE IF cnt = 0 THEN FALSE ELSE wentLow
      /\ beyond' = IF Abs(addDel) > BLOCK * ONE THEN TRUE ELSE beyond
      /\ UNCHANGED <<fifoLen, rate>>

\* One sample of the block: it is left out, sent twice, or sent once.
Drop ==
  /\ i < BLOCK /\ sampErr > ONE
  /\ sampErr' = sampErr - ONE
  /\ i' = i + 1
  /\ UNCHANGED <<fifoLen, rate, speed, out, owed>>

RepeatUnpaid ==
  /\ i < BLOCK /\ sampErr < -ONE
  /\ i' = i + 1 /\ out' = out + 2
  /\ UNCHANGED <<fifoLen, rate, speed, sampErr, owed>>
Repeat ==
  /\ i < BLOCK /\ sampErr < -ONE
  /\ sampErr' = sampErr + ONE
  /\ i' = i + 1 /\ out' = out + 2
  /\ UNCHANGED <<fifoLen, rate, speed, owed>>

PushOnce ==
  /\ i < BLOCK /\ ~(sampErr > ONE) /\ ~(sampErr < -ONE)
  /\ i' = i + 1 /\ out' = out + 1
  /\ UNCHANGED <<fifoLen, rate, speed, sampErr, owed>>

Next == \/ \E r \in Rates : SetDacSampleRate(r)
        \/ \E seen, fill \in {n \in Fills : n <= fifoLen} : StartBlock(seen, fill)
        \/ Drop \/ Repeat \/ PushOnce

Spec == Init /\ [][Next]_vars
-----------------------------------------------------------------------------
TypeOK ==
  /\ fifoLen \in FifoLens /\ oldRate \in Rates \cup {0}
  /\ dac.bckdiv \in 0 .. FieldSize - 1 /\ dac.clkmdiv \in 0 .. FieldSize - 1
  /\ cnt \in 0 .. PERIOD - 1 /\ minFifoFill \in Nat
  /\ sampAddDel \in -AddDelCap .. AddDelCap
  /\ sampErr \in -ErrCap .. ErrCap /\ owed \in -ErrCap .. ErrCap
  /\ first \in BOOLEAN /\ wentLow \in BOOLEAN /\ beyond \in BOOLEAN
  /\ i \in 0..BLOCK /\ out \in 0 .. 2 * BLOCK

(* The error that is spread over the samples never piles up: as long as no *)
(* correction asked for more than a sample per sample, what a block leaves *)
(* over is at most one sample, whatever corrections followed on each other *)
(* (render_sample_block, lines 112-135).                                   *)
ErrorSettles == i = BLOCK /\ ~beyond => Abs(sampErr) <= ONE

(* Samples left out or repeated are paid for exactly: however the three    *)
(* cases alternate, what is pushed more or less than once is what has gone *)
(* from the error since the block began (lines 121-134).                   *)
SamplesPaid == (out - i) * ONE = sampErr - owed

(* With a small fifo the playback is sped up only if the fill stayed above *)
(* the target for the whole period, and slowed down only if it did not:    *)
(* no fill of an earlier period decides, except that the first period      *)
(* counts the fifo as empty (lines 62-83).                                 *)
SpeedFollowsFill ==
  [][fifoLen < SmallFifo =>
       /\ sampAddDel' > sampAddDel => ~wentLow'
       /\ sampAddDel' < sampAddDel => wentLow' \/ first]_vars

(* "I2S_CLKM_DIV_NUM - 5-127, I2S_BCK_DIV_NUM - 2-127" (i2s_freertos.c,    *)
(* lines 242-243): the port divides by the dividers that were found.       *)
DividersReachPort ==
  oldRate # 0 => /\ dac.bckdiv = Dividers[oldRate].bckdiv
                 /\ dac.clkmdiv = Dividers[oldRate].clkmdiv
=============================================================================
