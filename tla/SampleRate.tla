------------------------------ MODULE SampleRate ------------------------------
(***************************************************************************)
(* i2sSetRate of src/mp3/driver/i2s_freertos.c: the search for the two     *)
(* clock dividers and the number of bits per sample that bring the I2S     *)
(* port closest to a sample rate, and the registers they are written to.   *)
(* A pure algorithm; module Render calls it.                               *)
(***************************************************************************)
EXTENDS Integers, FiniteSetsExt

CONSTANTS BASEFREQ,       \* the clock that is divided (160 MHz)
          MaxDiv,         \* largest divider tried (127)
          FieldSize,      \* a divider's register field holds 0..FieldSize - 1 (64)
          lockBitcount    \* always 16 bits per sample (1 in the shipped build)

ASSUME DividerAssumption ==
  /\ BASEFREQ \in Nat /\ MaxDiv \in Nat /\ MaxDiv >= 5
  /\ FieldSize \in Nat /\ FieldSize > 0 /\ lockBitcount \in BOOLEAN

Abs(x) == IF x > 0 THEN x ELSE -x

\* The rate that two dividers and a number of bits give.
Freq(bckdiv, clkmdiv, bits) == BASEFREQ \div (bckdiv * clkmdiv * bits * 2)

\* Nothing found yet; bestfreq starts at 0, the other three uninitialised.
Unset == [freq |-> 0, bckdiv |-> 0, clkmdiv |-> 0, bits |-> 16]

\* What the three nested loops go through, the later ones inside.
Bckdivs == 2 .. MaxDiv
Clkmdivs == 5 .. MaxDiv
BitCounts == IF lockBitcount THEN {16} ELSE 16 .. 19

\* The loops keep a setting only if it is strictly closer to the rate than
\* the one they hold, at first the rate 0: of the closest settings they end
\* up with the one they come to first.
BestDividers(rate) ==
  LET Off(b, c, n) == Abs(rate - Freq(b, c, n))
      least == Min({Off(b, c, n) : b \in Bckdivs, c \in Clkmdivs, n \in BitCounts})
      bckdiv == Min({b \in Bckdivs : \E c \in Clkmdivs, n \in BitCounts :
                                       Off(b, c, n) = least})
      clkmdiv == Min({c \in Clkmdivs : \E n \in BitCounts :
                                         Off(bckdiv, c, n) = least})
      bits == Min({n \in BitCounts : Off(bckdiv, clkmdiv, n) = least})
  IN  IF least < Abs(rate)
        THEN [freq |-> Freq(bckdiv, clkmdiv, bits), bckdiv |-> bckdiv,
              clkmdiv |-> clkmdiv, bits |-> bits]
        ELSE Unset

\* What arrives in I2SCONF: each divider is masked to the width of its field.
RegistersWide(best) == [bckdiv |-> best.bckdiv, clkmdiv |-> best.clkmdiv, bits |-> best.bits]
Registers(best) == [bckdiv  |-> best.bckdiv % FieldSize,
                    clkmdiv |-> best.clkmdiv % FieldSize,
                    bits    |-> best.bits]
=============================================================================
