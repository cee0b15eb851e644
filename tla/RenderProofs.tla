----------------------------- MODULE RenderProofs -----------------------------
(***************************************************************************)
(* Proofs about Render for every size of block, period, gain and fill.     *)
(*                                                                         *)
(* ErrorSettles is not inductive: in the middle of a block the error may   *)
(* still be many samples.  ErrorInv says how many, one less with every     *)
(* sample dealt with.  SpeedFollowsFill rests on LowInv: the least fill    *)
(* remembered is at or below the target exactly if one of this period was. *)
(* The search for dividers takes minima of sets that are bounded by        *)
(* constants only; that they exist (NatMin) is what its theorem and the    *)
(* types rest on; SearchKeeps is what the loops know of the settings tried *)
(* so far.  LargeInv adds to ErrorInv that no correction was ever beyond a *)
(* sample per sample, which a large fifo makes true.                       *)
(***************************************************************************)
EXTENDS Render, RateSearch, WellFoundedInduction, TLAPS

Types ==
  /\ oldRate \in Nat /\ cnt \in Nat /\ minFifoFill \in Int
  /\ sampAddDel \in Int /\ sampErr \in Int /\ owed \in Int
  /\ i \in 0..BLOCK /\ out \in Int
  /\ fifoLen \in Nat

ErrorInv ==
  /\ Types /\ SamplesPaid
  /\ ~beyond => /\ -(BLOCK * ONE) <= sampAddDel /\ sampAddDel <= BLOCK * ONE
                /\ -((BLOCK - i + 1) * ONE) <= sampErr
                /\ sampErr <= (BLOCK - i + 1) * ONE

\* A block may leave one sample over, and its loop has one sample less to go.
LEMMA LessToGo ==
  ASSUME NEW n \in Nat, n < BLOCK
  PROVE  /\ (BLOCK - n + 1) * ONE = (BLOCK - n) * ONE + ONE
         /\ (BLOCK - (n + 1) + 1) * ONE = (BLOCK - n) * ONE
         /\ ONE <= (BLOCK - n) * ONE
         /\ (BLOCK - 0 + 1) * ONE = BLOCK * ONE + ONE
         /\ (BLOCK - BLOCK + 1) * ONE = ONE
         /\ BLOCK * ONE \in Nat /\ (BLOCK - n) * ONE \in Nat
<1> USE RenderAssumption
<1>1. BLOCK \in Nat /\ ONE \in Nat /\ BLOCK - n \in Nat /\ BLOCK - n >= 1
  OBVIOUS
<1>2. \A a, b \in Nat : a >= 1 => b <= a * b
  OBVIOUS
<1>3. \A a, b \in Nat : (a + 1) * b = a * b + b
  OBVIOUS
<1>4. BLOCK - (n + 1) + 1 = BLOCK - n /\ BLOCK - BLOCK + 1 = 1
      /\ BLOCK - 0 + 1 = BLOCK + 1
  BY <1>1
<1>5. \A a, b \in Nat : a * b \in Nat
  OBVIOUS
<1> QED
  BY <1>1, <1>2, <1>3, <1>4, <1>5

LEMMA AbsBound ==
  ASSUME NEW x \in Int, NEW b \in Nat
  PROVE  Abs(x) <= b <=> (-b <= x /\ x <= b)
BY DEF Abs

LEMMA ErrorStart == Init => ErrorInv
<1> SUFFICES ASSUME Init PROVE ErrorInv
  OBVIOUS
<1> USE RenderAssumption DEF Init
<1>1. Types
  BY DEF Types
<1>2. SamplesPaid
  <2>1. (BLOCK - BLOCK) * ONE = 0
    OBVIOUS
  <2> QED
    BY <2>1 DEF SamplesPaid
<1>3. (BLOCK - i + 1) * ONE = ONE /\ BLOCK * ONE \in Nat
  BY LessToGo, 0 < BLOCK
<1> QED
  BY <1>1, <1>2, <1>3 DEF ErrorInv

\* The block begins: the error grows by one correction.
LEMMA ErrorBlock ==
  ASSUME ErrorInv, NEW seen \in Fills, NEW fill \in Fills, StartBlock(seen, fill)
  PROVE  ErrorInv'
<1> USE RenderAssumption
<1>1. seen \in Nat /\ fill \in Nat
  OBVIOUS
<1>2. Types'
  <2>1. \A a, b \in Int : a * b \in Int
    OBVIOUS
  <2>2. fifoLen \div 2 \in Int
    BY DEF ErrorInv, Types
  <2> DEFINE low == IF seen < minFifoFill THEN seen ELSE minFifoFill
  <2>3. low \in Int
    BY <1>1 DEF ErrorInv, Types
  <2>4. Recalc(low, fill) \in Int
    BY <1>1, <2>1, <2>2, <2>3 DEF ErrorInv, Types, Recalc
  <2>5. LowAgain(low) \in Int
    BY <2>3 DEF LowAgain
  <2>6. sampAddDel' \in Int /\ minFifoFill' \in Int /\ cnt' \in Nat
    BY <2>3, <2>4, <2>5 DEF StartBlock, ErrorInv, Types
  <2> QED
    BY <2>6 DEF StartBlock, ErrorInv, Types, rate
<1>3. SamplesPaid'
  <2>1. (0 - 0) * ONE = 0
    OBVIOUS
  <2> QED
    BY <1>2, <2>1 DEF StartBlock, SamplesPaid, Types
<1>4. ASSUME ~beyond'
      PROVE  /\ -(BLOCK * ONE) <= sampAddDel' /\ sampAddDel' <= BLOCK * ONE
             /\ -((BLOCK - i' + 1) * ONE) <= sampErr'
             /\ sampErr' <= (BLOCK - i' + 1) * ONE
  <2>0. beyond' = IF Abs(sampAddDel') > BLOCK * ONE THEN TRUE ELSE beyond
    BY DEF StartBlock
  <2>1. ~beyond /\ ~(Abs(sampAddDel') > BLOCK * ONE)
        /\ sampErr' = sampErr + sampAddDel' /\ i = BLOCK /\ i' = 0
    <3>1. ~beyond /\ ~(Abs(sampAddDel') > BLOCK * ONE)
      BY <1>4, <2>0
    <3>2. sampErr' = sampErr + sampAddDel' /\ i = BLOCK /\ i' = 0
      BY DEF StartBlock
    <3> QED
      BY <3>1, <3>2
  <2>2. /\ (BLOCK - BLOCK + 1) * ONE = ONE
        /\ (BLOCK - 0 + 1) * ONE = BLOCK * ONE + ONE /\ BLOCK * ONE \in Nat
    BY LessToGo, 0 < BLOCK
  <2>3. -ONE <= sampErr /\ sampErr <= ONE
    BY <2>1, <2>2 DEF ErrorInv
  <2>4. Abs(sampAddDel') \in Int
    BY <1>2 DEF Types, Abs
  <2>5. -(BLOCK * ONE) <= sampAddDel' /\ sampAddDel' <= BLOCK * ONE
    BY <1>2, <2>1, <2>2, <2>4, AbsBound DEF Types
  <2>6. (BLOCK - i' + 1) * ONE = BLOCK * ONE + ONE
    BY <2>1, <2>2
  <2>7. sampErr \in Int /\ sampAddDel' \in Int
    BY <1>2 DEF ErrorInv, Types
  <2>8. \A b, d \in Nat, x, y \in Int :
          -d <= x /\ x <= d /\ -b <= y /\ y <= b
            => -(b + d) <= x + y /\ x + y <= b + d
    OBVIOUS
  <2>9. -(BLOCK * ONE + ONE) <= sampErr' /\ sampErr' <= BLOCK * ONE + ONE
    <3>1. ONE \in Nat /\ BLOCK * ONE \in Nat /\ sampErr' = sampErr + sampAddDel'
      BY <2>1, <2>2
    <3> QED
      BY ONLY <2>3, <2>5, <2>7, <2>8, <3>1
  <2> QED
    BY <2>5, <2>6, <2>9
<1> QED
  BY <1>2, <1>3, <1>4 DEF ErrorInv

\* One sample: the error comes nearer to 0 or is small already.
LEMMA ErrorSample ==
  ASSUME ErrorInv, Drop \/ Repeat \/ PushOnce
  PROVE  ErrorInv'
<1> USE RenderAssumption
<1>1. i \in Nat /\ i < BLOCK /\ i' = i + 1
  BY DEF ErrorInv, Types, Drop, Repeat, PushOnce
<1>2. /\ (BLOCK - i + 1) * ONE = (BLOCK - i) * ONE + ONE
      /\ (BLOCK - i' + 1) * ONE = (BLOCK - i) * ONE
      /\ ONE <= (BLOCK - i) * ONE /\ (BLOCK - i) * ONE \in Nat
      /\ BLOCK * ONE \in Nat
  BY <1>1, LessToGo
<1>3. \A a, b \in Int : (a - 1) * b = a * b - b /\ (a + 1) * b = a * b + b
                        /\ a * b \in Int
  OBVIOUS
<1> USE DEF ErrorInv, Types, SamplesPaid
<1>4. CASE Drop
  <2>1. out' - i' = (out - i) - 1
    BY <1>1, <1>4 DEF Drop
  <2>2. SamplesPaid'
    BY <1>1, <1>3, <1>4, <2>1 DEF Drop
  <2> QED
    BY <1>1, <1>2, <1>4, <2>2 DEF Drop, rate, speed
<1>5. CASE Repeat
  <2>1. out' - i' = (out - i) + 1
    BY <1>1, <1>5 DEF Repeat
  <2>2. SamplesPaid'
    BY <1>1, <1>3, <1>5, <2>1 DEF Repeat
  <2> QED
    BY <1>1, <1>2, <1>5, <2>2 DEF Repeat, rate, speed
<1>6. CASE PushOnce
  <2>1. out' - i' = out - i
    BY <1>1, <1>6 DEF PushOnce
  <2>2. SamplesPaid'
    BY <1>1, <1>6, <2>1 DEF PushOnce
  <2> QED
    BY <1>1, <1>2, <1>6, <2>2 DEF PushOnce, rate, speed
<1> QED
  BY <1>4, <1>5, <1>6

LEMMA ErrorStep == ErrorInv /\ [Next]_vars => ErrorInv'
<1> SUFFICES ASSUME ErrorInv, [Next]_vars PROVE ErrorInv'
  OBVIOUS
<1>1. CASE \E r \in Rates : SetDacSampleRate(r)
  BY <1>1, RenderAssumption
  DEF SetDacSampleRate, ErrorInv, Types, SamplesPaid, speed, block
<1>2. CASE \E seen, fill \in {n \in Fills : n <= fifoLen} : StartBlock(seen, fill)
  BY <1>2, ErrorBlock
<1>3. CASE Drop \/ Repeat \/ PushOnce
  BY <1>3, ErrorSample
<1>4. CASE UNCHANGED vars
  BY <1>4 DEF vars, rate, speed, block, ErrorInv, Types, SamplesPaid
<1> QED
  BY <1>1, <1>2, <1>3, <1>4 DEF Next

\* The error is never lost track of and never piles up, for every size of
\* block and every correction of up to a sample per sample.
THEOREM ErrorAlways == Spec => []ErrorInv
  BY ErrorStart, ErrorStep, PTL DEF Spec

\* What a block leaves over is at most one sample (lines 112-135).
THEOREM ErrorIsSettled == Spec => []ErrorSettles
<1>1. ErrorInv => ErrorSettles
  <2> SUFFICES ASSUME ErrorInv, i = BLOCK, ~beyond PROVE Abs(sampErr) <= ONE
    BY DEF ErrorSettles
  <2>0. 0 < BLOCK
    BY RenderAssumption
  <2>1. (BLOCK - BLOCK + 1) * ONE = ONE
    BY <2>0, LessToGo
  <2>2. -ONE <= sampErr /\ sampErr <= ONE /\ sampErr \in Int /\ ONE \in Nat
    BY <2>1, RenderAssumption DEF ErrorInv, Types
  <2> QED
    BY <2>2, AbsBound
<1> QED
  BY <1>1, ErrorAlways, PTL

\* Every sample left out or repeated is paid for (lines 121-134).
THEOREM SamplesArePaid == Spec => []SamplesPaid
<1>1. ErrorInv => SamplesPaid
  BY DEF ErrorInv
<1> QED
  BY <1>1, ErrorAlways, PTL
-----------------------------------------------------------------------------
LowInv ==
  /\ minFifoFill \in Int /\ cnt \in Nat /\ sampAddDel \in Int /\ fifoLen \in Nat
  /\ first => minFifoFill <= TGT
  /\ fifoLen < SmallFifo =>
       /\ cnt = 0 => first \/ minFifoFill > TGT
       /\ cnt # 0 /\ minFifoFill <= TGT => first \/ wentLow
       /\ cnt # 0 /\ wentLow => minFifoFill <= TGT

\* A product with a gain has the sign of its other factor, or is 0.
LEMMA GainSign ==
  ASSUME NEW x \in Int, NEW g \in Nat
  PROVE  x * g \in Int /\ (x * g > 0 => x > 0) /\ (x * g < 0 => x < 0)
<1>1. x >= 0 => x * g >= 0
  OBVIOUS
<1>2. x <= 0 => x * g <= 0
  OBVIOUS
<1> QED
  BY <1>1, <1>2

LEMMA LowBlock ==
  ASSUME LowInv, NEW seen \in Fills, NEW fill \in Fills, StartBlock(seen, fill)
  PROVE  /\ LowInv'
         /\ fifoLen < SmallFifo =>
              /\ sampAddDel' > sampAddDel => ~wentLow'
              /\ sampAddDel' < sampAddDel => wentLow' \/ first
<1> USE RenderAssumption
<1> DEFINE low == IF seen < minFifoFill THEN seen ELSE minFifoFill
           due == ~(cnt + 1 < PERIOD)
<1>1. seen \in Nat /\ fill \in Nat /\ low \in Int /\ fifoLen' = fifoLen
  BY DEF LowInv, StartBlock
<1>w. /\ wentLow /\ cnt # 0 => wentLow'
      /\ seen <= TGT => wentLow'
      /\ wentLow' => (wentLow /\ cnt # 0) \/ seen <= TGT
  <2>1. wentLow' = IF seen <= TGT THEN TRUE ELSE IF cnt = 0 THEN FALSE ELSE wentLow
    BY DEF StartBlock
  <2> QED
    BY <2>1
<1>2. CASE ~due
  <2>1. cnt' = cnt + 1 /\ minFifoFill' = low /\ sampAddDel' = sampAddDel
    BY <1>2 DEF StartBlock
  <2>2. first' => first
    <3>1. first' = IF due THEN FALSE ELSE first
      BY DEF StartBlock
    <3> QED
      BY <1>2, <3>1
  <2>3. ~first' => ~first
    <3>1. first' = IF due THEN FALSE ELSE first
      BY DEF StartBlock
    <3> QED
      BY <1>2, <3>1
  <2> QED
    BY <1>1, <1>w, <2>1, <2>2, <2>3 DEF LowInv
<1>3. CASE due
  <2>1. /\ cnt' = 0 /\ minFifoFill' = LowAgain(low)
        /\ sampAddDel' = Recalc(low, fill)
    BY <1>3 DEF StartBlock
  <2>0. ~first'
    <3>1. first' = IF due THEN FALSE ELSE first
      BY DEF StartBlock
    <3> QED
      BY <1>3, <3>1
  <2>2. CASE fifoLen < SmallFifo
    <3>1. (low - TGT) * GAIN_NOSPIRAM \in Int
          /\ ((low - TGT) * GAIN_NOSPIRAM > 0 => low > TGT)
          /\ ((low - TGT) * GAIN_NOSPIRAM < 0 => low < TGT)
      BY <1>1, GainSign
    <3>2. /\ sampAddDel' = sampAddDel + (low - TGT) * GAIN_NOSPIRAM
          /\ minFifoFill' = 9999
      BY <2>1, <2>2 DEF Recalc, LowAgain
    <3>3. /\ sampAddDel' \in Int
          /\ sampAddDel' > sampAddDel => low > TGT
          /\ sampAddDel' < sampAddDel => low < TGT
      BY <3>1, <3>2 DEF LowInv
    <3> QED
      BY <1>1, <1>w, <2>0, <2>1, <2>2, <3>2, <3>3 DEF LowInv
  <2>3. CASE ~(fifoLen < SmallFifo)
    <3>1. fifoLen \div 2 \in Int
      BY DEF LowInv
    <3>2. (fill - fifoLen \div 2) * GAIN \in Int
      BY <1>1, <3>1, GainSign
    <3>3. sampAddDel' \in Int /\ minFifoFill' = low
      BY <2>1, <2>3, <3>2 DEF Recalc, LowAgain
    <3> QED
      BY <1>1, <2>0, <2>1, <2>3, <3>3 DEF LowInv
  <2> QED
    BY <2>2, <2>3
<1> QED
  BY <1>2, <1>3

\* The correction of the playback speed goes the way the fifo asks for, for
\* every target, gain and period (lines 62-83).
THEOREM SpeedFollows == Spec => SpeedFollowsFill
<1> DEFINE Obeys == fifoLen < SmallFifo =>
                      /\ sampAddDel' > sampAddDel => ~wentLow'
                      /\ sampAddDel' < sampAddDel => wentLow' \/ first
<1>1. Init => LowInv
  BY RenderAssumption DEF Init, LowInv
<1>2. LowInv /\ [Next]_vars => LowInv' /\ Obeys
  <2> SUFFICES ASSUME LowInv, [Next]_vars PROVE LowInv' /\ Obeys
    OBVIOUS
  <2>1. CASE \E seen, fill \in {n \in Fills : n <= fifoLen} : StartBlock(seen, fill)
    BY <2>1, LowBlock
  <2>2. CASE UNCHANGED <<fifoLen, speed>>
    BY <2>2 DEF speed, LowInv
  <2>3. CASE \E r \in Rates : SetDacSampleRate(r)
    BY <2>2, <2>3 DEF SetDacSampleRate
  <2>4. CASE Drop \/ Repeat \/ PushOnce
    BY <2>2, <2>4 DEF Drop, Repeat, PushOnce
  <2>5. CASE UNCHANGED vars
    BY <2>2, <2>5 DEF vars
  <2> QED
    BY <2>1, <2>3, <2>4, <2>5 DEF Next
<1>3. LowInv /\ [Next]_vars => [Obeys]_vars
  BY <1>2
<1> QED
  BY <1>1, <1>2, <1>3, PTL DEF Spec, SpeedFollowsFill
-----------------------------------------------------------------------------
(* The order of the numbers has no infinite descent, so a set of them has  *)
(* a least one: the Min of FiniteSetsExt is what it is called.             *)
LEMMA NatMin ==
  ASSUME NEW S \in SUBSET Nat, S # {}
  PROVE  Min(S) \in S /\ \A k \in S : Min(S) <= k
<1> DEFINE R == {r \in Nat \X Nat : r[1] < r[2]}
<1>1. IsWellFoundedOn(R, Nat)
  BY NatLessThanWellFounded, Zenon DEF OpToRel
<1>2. PICK m \in S : \A k \in S : ~(<<k, m>> \in R)
  BY <1>1, WFMin
<1>3. ASSUME NEW k \in S PROVE m <= k
  <2>1. k \in Nat /\ m \in Nat
    OBVIOUS
  <2>2. <<k, m>> \in Nat \X Nat /\ <<k, m>>[1] = k /\ <<k, m>>[2] = m
    BY <2>1
  <2>3. ~(k < m)
    BY <1>2, <2>2
  <2> QED
    BY <2>1, <2>3
<1>4. \E x \in S : \A y \in S : x =< y
  BY <1>3
<1> QED
  BY <1>4 DEF Min

\* How far a setting is from the rate wanted.
Off(r, b, c, n) == Abs(r - Freq(b, c, n))

\* The clock is never divided by 0.
LEMMA OffIsNumber ==
  ASSUME NEW r \in Nat, NEW b \in Bckdivs, NEW c \in Clkmdivs, NEW n \in BitCounts
  PROVE  Freq(b, c, n) \in Int /\ Off(r, b, c, n) \in Nat
<1>1. /\ b \in Nat /\ b > 0 /\ c \in Nat /\ c > 0 /\ n \in Nat /\ n > 0
  BY DividerAssumption DEF Bckdivs, Clkmdivs, BitCounts
<1>2. \A x, y \in Nat : x > 0 /\ y > 0 => x * y \in Nat /\ x * y > 0
  OBVIOUS
<1>3. b * c \in Nat /\ b * c > 0
  BY <1>1, <1>2
<1>4. (b * c) * n \in Nat /\ (b * c) * n > 0
  BY <1>1, <1>2, <1>3
<1>5. b * c * n * 2 \in Nat /\ b * c * n * 2 > 0
  BY <1>4
<1>6. BASEFREQ \div (b * c * n * 2) \in Int
  BY <1>5, DividerAssumption
<1> QED
  BY <1>6 DEF Freq, Off, Abs

\* The order in which the loops come to the settings.
Earlier(b, c, n, p, q, m) == b < p \/ (b = p /\ (c < q \/ (c = q /\ n < m)))

\* A setting that i2sSetRate leaves behind: nearer to the rate than the rate 0
\* it starts with, no setting of the loops is nearer and no earlier one as near;
\* or nothing at all.
Closest(r, best) ==
  \/ /\ best.bckdiv \in Bckdivs /\ best.clkmdiv \in Clkmdivs
     /\ best.bits \in BitCounts
     /\ best = [freq |-> Freq(best.bckdiv, best.clkmdiv, best.bits),
                bckdiv |-> best.bckdiv, clkmdiv |-> best.clkmdiv, bits |-> best.bits]
     /\ Abs(r - best.freq) < r
     /\ \A b \in Bckdivs, c \in Clkmdivs, n \in BitCounts :
          /\ Abs(r - best.freq) <= Off(r, b, c, n)
          /\ Earlier(b, c, n, best.bckdiv, best.clkmdiv, best.bits)
               => Abs(r - best.freq) < Off(r, b, c, n)
  \/ /\ best = Unset
     /\ \A b \in Bckdivs, c \in Clkmdivs, n \in BitCounts : r <= Off(r, b, c, n)

\* For every rate the search ends with the closest setting there is, and leaves
\* the dividers unset only if none is closer than the rate 0 (lines 250-262 of
\* i2s_freertos.c).
THEOREM DividersAreClosest == \A r \in Nat : Closest(r, BestDividers(r))
<1> SUFFICES ASSUME NEW r \in Nat PROVE Closest(r, BestDividers(r))
  OBVIOUS
<1> DEFINE Offs == {Off(r, b, c, n) : b \in Bckdivs, c \in Clkmdivs, n \in BitCounts}
           least == Min(Offs)
           Bs == {b \in Bckdivs : \E c \in Clkmdivs, n \in BitCounts :
                                    Off(r, b, c, n) = least}
           firstBck == Min(Bs)
           Cs == {c \in Clkmdivs : \E n \in BitCounts : Off(r, firstBck, c, n) = least}
           firstClkm == Min(Cs)
           Ns == {n \in BitCounts : Off(r, firstBck, firstClkm, n) = least}
           firstBits == Min(Ns)
<1>0. \A S \in SUBSET Nat : S # {} => Min(S) \in S /\ \A k \in S : Min(S) <= k
  BY NatMin
<1>1. 2 \in Bckdivs /\ 5 \in Clkmdivs /\ 16 \in BitCounts
  BY DividerAssumption DEF Bckdivs, Clkmdivs, BitCounts
<1>2. least \in Offs /\ \A k \in Offs : least <= k
  <2>1. Offs \in SUBSET Nat
    BY OffIsNumber
  <2>2. Off(r, 2, 5, 16) \in Offs
    BY <1>1
  <2> HIDE DEF Offs
  <2> QED
    BY <2>1, <2>2, <1>0
<1>3. firstBck \in Bs /\ \A k \in Bs : firstBck <= k
  <2>1. Bs # {}
    <3> HIDE DEF least
    <3>1. PICK b \in Bckdivs, c \in Clkmdivs, n \in BitCounts : Off(r, b, c, n) = least
      BY <1>2
    <3>2. b \in Bs
      BY <3>1
    <3> QED
      BY <3>2
  <2>2. Bs \in SUBSET Nat
    BY DividerAssumption DEF Bckdivs
  <2> HIDE DEF Bs
  <2> QED
    BY <2>1, <2>2, <1>0
<1>4. firstClkm \in Cs /\ \A k \in Cs : firstClkm <= k
  <2>1. Cs # {}
    <3> HIDE DEF least, firstBck
    <3>1. PICK c \in Clkmdivs, n \in BitCounts : Off(r, firstBck, c, n) = least
      BY <1>3
    <3>2. c \in Cs
      BY <3>1
    <3> QED
      BY <3>2
  <2>2. Cs \in SUBSET Nat
    BY DEF Clkmdivs
  <2> HIDE DEF Cs
  <2> QED
    BY <2>1, <2>2, <1>0
<1>5. firstBits \in Ns /\ \A k \in Ns : firstBits <= k
  <2>1. Ns # {}
    <3> HIDE DEF least, firstBck, firstClkm
    <3>1. PICK n \in BitCounts : Off(r, firstBck, firstClkm, n) = least
      BY <1>4
    <3>2. n \in Ns
      BY <3>1
    <3> QED
      BY <3>2
  <2>2. Ns \in SUBSET Nat
    BY DEF BitCounts
  <2> HIDE DEF Ns
  <2> QED
    BY <2>1, <2>2, <1>0
<1>6. BestDividers(r) =
        IF least < Abs(r)
          THEN [freq |-> Freq(firstBck, firstClkm, firstBits), bckdiv |-> firstBck,
                clkmdiv |-> firstClkm, bits |-> firstBits]
          ELSE Unset
  BY DEF BestDividers, Off
<1>7. Abs(r) = r
  BY DEF Abs
<1>8. \A b \in Bckdivs, c \in Clkmdivs, n \in BitCounts : least <= Off(r, b, c, n)
  BY <1>2
<1>9. least \in Nat
  BY <1>2, OffIsNumber
<1> HIDE DEF least, firstBck, firstClkm, firstBits
<1>10. CASE least < r
  <2>1. least = Abs(r - Freq(firstBck, firstClkm, firstBits))
    BY <1>5 DEF Off
  <2>2. ASSUME NEW b \in Bckdivs, NEW c \in Clkmdivs, NEW n \in BitCounts,
               Earlier(b, c, n, firstBck, firstClkm, firstBits)
        PROVE  least < Off(r, b, c, n)
    <3> SUFFICES ASSUME Off(r, b, c, n) = least PROVE FALSE
      BY <1>8, <1>9, OffIsNumber
    <3>1. b \in Bs /\ b \in Nat /\ c \in Nat /\ n \in Nat
      BY DEF Bckdivs, Clkmdivs, BitCounts
    <3>2. firstBck \in Nat /\ firstClkm \in Nat /\ firstBits \in Nat
      BY <1>3, <1>4, <1>5 DEF Bckdivs, Clkmdivs, BitCounts
    <3>3. firstBck <= b
      BY <1>3, <3>1
    <3>4. b = firstBck
      BY <2>2, <3>1, <3>2, <3>3 DEF Earlier
    <3>5. c \in Cs
      BY <3>4
    <3>6. firstClkm <= c
      BY <1>4, <3>5
    <3>7. c = firstClkm
      BY <2>2, <3>1, <3>2, <3>4, <3>6 DEF Earlier
    <3>8. n \in Ns
      BY <3>4, <3>7
    <3>9. firstBits <= n
      BY <1>5, <3>8
    <3> QED
      BY <2>2, <3>1, <3>2, <3>4, <3>7, <3>9 DEF Earlier
  <2> QED
    BY <1>3, <1>4, <1>5, <1>6, <1>7, <1>8, <1>10, <2>1, <2>2 DEF Closest
<1>11. CASE ~(least < r)
  <2>1. \A b \in Bckdivs, c \in Clkmdivs, n \in BitCounts : r <= Off(r, b, c, n)
    <3> SUFFICES ASSUME NEW b \in Bckdivs, NEW c \in Clkmdivs, NEW n \in BitCounts
                 PROVE  r <= Off(r, b, c, n)
      OBVIOUS
    <3>1. least <= Off(r, b, c, n) /\ Off(r, b, c, n) \in Nat
      BY <1>8, OffIsNumber
    <3> QED
      BY <1>9, <1>11, <3>1
  <2> QED
    BY <1>6, <1>7, <1>11, <2>1 DEF Closest
<1> QED
  BY <1>10, <1>11

\* bestbckdiv, bestclkmdiv and bestbits are read uninitialised only for a rate no
\* more than half the slowest the port can do (310 Hz): every rate of MPEG audio
\* sets them (lines 234 and 250-262 of i2s_freertos.c).
THEOREM DividersAreSet ==
  \A r \in Nat : 0 < Freq(MaxDiv, MaxDiv, 16) /\ Freq(MaxDiv, MaxDiv, 16) < 2 * r
               => BestDividers(r) # Unset
<1> SUFFICES ASSUME NEW r \in Nat, 0 < Freq(MaxDiv, MaxDiv, 16),
                    Freq(MaxDiv, MaxDiv, 16) < 2 * r
             PROVE  BestDividers(r) # Unset
  OBVIOUS
<1>1. MaxDiv \in Bckdivs /\ MaxDiv \in Clkmdivs /\ 16 \in BitCounts
  BY DividerAssumption DEF Bckdivs, Clkmdivs, BitCounts
<1>2. Freq(MaxDiv, MaxDiv, 16) \in Int
  BY <1>1, OffIsNumber
<1>3. ~(r <= Off(r, MaxDiv, MaxDiv, 16))
  BY <1>2 DEF Off, Abs
<1>4. ~(Unset.bckdiv \in Bckdivs)
  BY DEF Unset, Bckdivs
<1>5. Closest(r, BestDividers(r))
  BY DividersAreClosest
<1> QED
  BY <1>1, <1>3, <1>4, <1>5 DEF Closest

\* There is only one such setting.
LEMMA ClosestIsUnique ==
  ASSUME NEW r \in Nat, NEW x, NEW y, Closest(r, x), Closest(r, y)
  PROVE  x = y
<1>1. ASSUME NEW u, NEW v, Closest(r, u), v = Unset, Closest(r, v) PROVE u = v
  <2>1. ~(Unset.bckdiv \in Bckdivs)
    BY DEF Unset, Bckdivs
  <2>2. \A b \in Bckdivs, c \in Clkmdivs, n \in BitCounts : r <= Off(r, b, c, n)
    BY <1>1, <2>1 DEF Closest
  <2> SUFFICES ASSUME u # Unset PROVE FALSE
    BY <1>1
  <2>3. /\ u.bckdiv \in Bckdivs /\ u.clkmdiv \in Clkmdivs /\ u.bits \in BitCounts
        /\ u.freq = Freq(u.bckdiv, u.clkmdiv, u.bits) /\ Abs(r - u.freq) < r
    BY <1>1 DEF Closest
  <2>4. Off(r, u.bckdiv, u.clkmdiv, u.bits) < r
        /\ Off(r, u.bckdiv, u.clkmdiv, u.bits) \in Nat
    BY <2>3, OffIsNumber DEF Off
  <2> QED
    BY <2>2, <2>3, <2>4
<1>2. CASE x = Unset \/ y = Unset
  BY <1>1, <1>2
<1>3. CASE x # Unset /\ y # Unset
  <2>1. /\ x.bckdiv \in Bckdivs /\ x.clkmdiv \in Clkmdivs /\ x.bits \in BitCounts
        /\ x = [freq |-> Freq(x.bckdiv, x.clkmdiv, x.bits),
                bckdiv |-> x.bckdiv, clkmdiv |-> x.clkmdiv, bits |-> x.bits]
        /\ y.bckdiv \in Bckdivs /\ y.clkmdiv \in Clkmdivs /\ y.bits \in BitCounts
        /\ y = [freq |-> Freq(y.bckdiv, y.clkmdiv, y.bits),
                bckdiv |-> y.bckdiv, clkmdiv |-> y.clkmdiv, bits |-> y.bits]
    BY <1>3 DEF Closest
  <2>2. /\ Abs(r - x.freq) = Off(r, x.bckdiv, x.clkmdiv, x.bits)
        /\ Abs(r - y.freq) = Off(r, y.bckdiv, y.clkmdiv, y.bits)
    BY <2>1 DEF Off
  <2>3. Abs(r - x.freq) \in Nat /\ Abs(r - y.freq) \in Nat
    BY <2>1, <2>2, OffIsNumber
  <2>4. Abs(r - x.freq) <= Abs(r - y.freq) /\ Abs(r - y.freq) <= Abs(r - x.freq)
    BY <1>3, <2>1, <2>2 DEF Closest
  <2>5. /\ ~Earlier(x.bckdiv, x.clkmdiv, x.bits, y.bckdiv, y.clkmdiv, y.bits)
        /\ ~Earlier(y.bckdiv, y.clkmdiv, y.bits, x.bckdiv, x.clkmdiv, x.bits)
    BY <1>3, <2>1, <2>2, <2>3, <2>4 DEF Closest
  <2>6. x.bckdiv = y.bckdiv /\ x.clkmdiv = y.clkmdiv /\ x.bits = y.bits
    BY <2>1, <2>5 DEF Earlier, Bckdivs, Clkmdivs, BitCounts
  <2> QED
    BY <2>1, <2>6
<1> QED
  BY <1>2, <1>3

\* The settings gone through, and what is kept of them: the nearest, the first of
\* those as near.
Tried(b, c, n) == Earlier(b, c, n, bck, clkm, nbits)

SearchInv ==
  /\ asked \in Nat /\ bck \in 2 .. MaxDiv + 1 /\ clkm \in Clkmdivs /\ nbits \in BitCounts
  /\ \A b \in Bckdivs, c \in Clkmdivs, n \in BitCounts :
       Tried(b, c, n) => Abs(asked - found.freq) <= Off(asked, b, c, n)
  /\ \/ found = Unset
     \/ /\ found.bckdiv \in Bckdivs /\ found.clkmdiv \in Clkmdivs
        /\ found.bits \in BitCounts
        /\ found = [freq |-> Freq(found.bckdiv, found.clkmdiv, found.bits),
                    bckdiv |-> found.bckdiv, clkmdiv |-> found.clkmdiv,
                    bits |-> found.bits]
        /\ Abs(asked - found.freq) < asked
        /\ Tried(found.bckdiv, found.clkmdiv, found.bits)
        /\ \A b \in Bckdivs, c \in Clkmdivs, n \in BitCounts :
             Earlier(b, c, n, found.bckdiv, found.clkmdiv, found.bits)
               => Abs(asked - found.freq) < Off(asked, b, c, n)

\* A pass of the loops tries one setting more and leaves none out.
LEMMA OneMore ==
  ASSUME SearchInv, SearchNext
  PROVE  /\ bck \in Bckdivs /\ asked' = asked
         /\ bck' \in 2 .. MaxDiv + 1 /\ clkm' \in Clkmdivs /\ nbits' \in BitCounts
         /\ \A b \in Bckdivs, c \in Clkmdivs, n \in BitCounts :
              Earlier(b, c, n, bck', clkm', nbits') <=> Tried(b, c, n) \/ (b = bck /\ c = clkm /\ n = nbits)
<1>1. /\ bck \in 2 .. MaxDiv /\ clkm \in 5 .. MaxDiv /\ MaxDiv \in Nat
  BY DividerAssumption DEF SearchInv, SearchNext, NextBits, NextClkmdiv, NextBckdiv,
                           SearchOver, Clkmdivs
<1>2. PICK top \in Nat : top >= 16 /\ BitCounts = 16..top
  <2>1. BitCounts = 16..16 \/ BitCounts = 16..19
    <3>1. \A k \in {16} : k \in 16..16 /\ \A m \in 16..16 : m = k
      OBVIOUS
    <3>2. {16} = 16..16
      BY <3>1
    <3> QED
      BY <3>2 DEF BitCounts
  <2>2. 16 \in Nat /\ 16 >= 16 /\ 19 \in Nat /\ 19 >= 16
    OBVIOUS
  <2> QED
    BY ONLY <2>1, <2>2
<1>3. nbits \in 16..top /\ (LastBits <=> nbits = top)
  BY <1>2 DEF SearchInv, LastBits
<1>4. asked' = asked
  BY DEF SearchNext, NextBits, NextClkmdiv, NextBckdiv
<1> USE DEF Tried, Earlier, Bckdivs, Clkmdivs
<1>5. CASE NextBits
  BY <1>1, <1>2, <1>3, <1>4, <1>5 DEF NextBits
<1>6. CASE NextClkmdiv
  BY <1>1, <1>2, <1>3, <1>4, <1>6 DEF NextClkmdiv
<1>7. CASE NextBckdiv
  BY <1>1, <1>2, <1>3, <1>4, <1>7 DEF NextBckdiv
<1> QED
  BY <1>5, <1>6, <1>7 DEF SearchNext

LEMMA SearchKeeps == SearchInv /\ [SearchNext]_searchVars => SearchInv'
<1> SUFFICES ASSUME SearchInv, [SearchNext]_searchVars PROVE SearchInv'
  OBVIOUS
<1>1. CASE UNCHANGED searchVars
  BY <1>1 DEF searchVars, SearchInv, Tried
<1>2. CASE SearchNext
  <2> DEFINE tried == Freq(bck, clkm, nbits)
             now == Abs(asked - found.freq)
  <2>1. /\ bck \in Bckdivs /\ asked' = asked
        /\ bck' \in 2 .. MaxDiv + 1 /\ clkm' \in Clkmdivs /\ nbits' \in BitCounts
        /\ \A b \in Bckdivs, c \in Clkmdivs, n \in BitCounts :
             Earlier(b, c, n, bck', clkm', nbits') <=> Tried(b, c, n) \/ (b = bck /\ c = clkm /\ n = nbits)
    BY <1>2, OneMore
  <2>2. asked \in Nat /\ clkm \in Clkmdivs /\ nbits \in BitCounts
    BY DEF SearchInv
  <2>3. Abs(asked - tried) = Off(asked, bck, clkm, nbits)
        /\ Abs(asked - tried) \in Nat
    BY <2>1, <2>2, OffIsNumber DEF Off
  <2>4. now \in Nat /\ now <= asked
    <3>1. CASE found = Unset
      BY <2>2, <3>1 DEF Unset, Abs
    <3>2. CASE found # Unset
      <4>1. /\ now = Off(asked, found.bckdiv, found.clkmdiv, found.bits)
            /\ found.bckdiv \in Bckdivs /\ found.clkmdiv \in Clkmdivs
            /\ found.bits \in BitCounts /\ now < asked
        BY <3>2 DEF SearchInv, Off
      <4>2. now \in Nat
        BY <2>2, <4>1, OffIsNumber
      <4> HIDE DEF now
      <4> QED
        BY <2>2, <4>1, <4>2
    <3> QED
      BY <3>1, <3>2
  <2>5. found' = IF Abs(asked - tried) < now
                   THEN [freq |-> tried, bckdiv |-> bck, clkmdiv |-> clkm, bits |-> nbits]
                   ELSE found
    BY <1>2 DEF SearchNext, NextBits, NextClkmdiv, NextBckdiv, TryAlso
  <2>6. \A b \in Bckdivs, c \in Clkmdivs, n \in BitCounts :
          Tried(b, c, n) => now <= Off(asked, b, c, n)
    BY DEF SearchInv
  <2>7. \A b \in Bckdivs, c \in Clkmdivs, n \in BitCounts : Off(asked, b, c, n) \in Nat
    BY <2>2, OffIsNumber
  <2> HIDE DEF tried, now
  <2>8. CASE Abs(asked - tried) < now
    <3>1. /\ found'.freq = tried /\ found'.bckdiv = bck /\ found'.clkmdiv = clkm
          /\ found'.bits = nbits
          /\ found' = [freq |-> tried, bckdiv |-> bck, clkmdiv |-> clkm, bits |-> nbits]
      BY <2>5, <2>8
    <3>2. ASSUME NEW b \in Bckdivs, NEW c \in Clkmdivs, NEW n \in BitCounts, Tried(b, c, n)
          PROVE  Abs(asked - tried) < Off(asked, b, c, n)
      <4>1. now <= Off(asked, b, c, n) /\ Off(asked, b, c, n) \in Nat
        BY <2>6, <2>7, <3>2
      <4> QED
        BY <2>3, <2>4, <2>8, <4>1
    <3>3. ASSUME NEW b \in Bckdivs, NEW c \in Clkmdivs, NEW n \in BitCounts, Earlier(b, c, n, bck', clkm', nbits')
          PROVE  Abs(asked - tried) <= Off(asked, b, c, n)
      <4>1. CASE Tried(b, c, n)
        BY <2>3, <2>7, <3>2, <4>1
      <4>2. CASE b = bck /\ c = clkm /\ n = nbits
        BY <2>3, <4>2
      <4> QED
        BY <2>1, <3>3, <4>1, <4>2
    <3>4. Abs(asked - tried) < asked
      BY <2>2, <2>3, <2>4, <2>8
    <3>5. Earlier(bck, clkm, nbits, bck', clkm', nbits')
      BY <2>1, <2>2
    <3>6. tried = Freq(bck, clkm, nbits)
      BY DEF tried
    <3>7. Abs(asked' - found'.freq) = Abs(asked - tried)
      BY <2>1, <3>1
    <3>8. /\ found'.bckdiv \in Bckdivs /\ found'.clkmdiv \in Clkmdivs
          /\ found'.bits \in BitCounts
          /\ found' = [freq |-> Freq(found'.bckdiv, found'.clkmdiv, found'.bits),
                       bckdiv |-> found'.bckdiv, clkmdiv |-> found'.clkmdiv,
                       bits |-> found'.bits]
          /\ Abs(asked' - found'.freq) < asked'
      BY <2>1, <2>2, <3>1, <3>4, <3>6
    <3>9. Earlier(found'.bckdiv, found'.clkmdiv, found'.bits, bck', clkm', nbits')
      BY <3>1, <3>5
    <3> QED
      BY <2>1, <2>2, <3>1, <3>2, <3>3, <3>7, <3>8, <3>9 DEF SearchInv, Tried
  <2>9. CASE ~(Abs(asked - tried) < now)
    <3>1. found' = found
      BY <2>5, <2>9
    <3>2. ASSUME NEW b \in Bckdivs, NEW c \in Clkmdivs, NEW n \in BitCounts, Earlier(b, c, n, bck', clkm', nbits')
          PROVE  now <= Off(asked, b, c, n)
      <4>1. CASE Tried(b, c, n)
        BY <2>6, <4>1
      <4>2. CASE b = bck /\ c = clkm /\ n = nbits
        BY <2>3, <2>4, <2>9, <4>2
      <4> QED
        BY <2>1, <3>2, <4>1, <4>2
    <3>3. Abs(asked' - found'.freq) = now
      BY <2>1, <3>1 DEF now
    <3>4. found # Unset =>
            /\ found.bckdiv \in Bckdivs /\ found.clkmdiv \in Clkmdivs
            /\ found.bits \in BitCounts
            /\ Earlier(found.bckdiv, found.clkmdiv, found.bits, bck', clkm', nbits')
      <4> SUFFICES ASSUME found # Unset
                   PROVE  /\ found.bckdiv \in Bckdivs /\ found.clkmdiv \in Clkmdivs
                          /\ found.bits \in BitCounts
                          /\ Earlier(found.bckdiv, found.clkmdiv, found.bits,
                                     bck', clkm', nbits')
        OBVIOUS
      <4> QED
        BY <2>1 DEF SearchInv
    <3> QED
      BY <2>1, <3>1, <3>2, <3>3, <3>4 DEF SearchInv, Tried, now
  <2> QED
    BY <2>8, <2>9
<1> QED
  BY <1>1, <1>2

\* The three nested loops leave what SampleRate says they do: BestDividers is not
\* an assumption about i2sSetRate but its result (lines 250-262 of
\* i2s_freertos.c).
THEOREM SearchFindsBest == SearchSpec => [](SearchOver => found = BestDividers(asked))
<1>1. SearchInit => SearchInv
  <2> SUFFICES ASSUME SearchInit PROVE SearchInv
    OBVIOUS
  <2>1. 2 \in 2 .. MaxDiv + 1 /\ 5 \in Clkmdivs /\ 16 \in BitCounts
    BY DividerAssumption DEF Clkmdivs, BitCounts
  <2>2. \A b \in Bckdivs, c \in Clkmdivs, n \in BitCounts : ~Tried(b, c, n)
    BY DEF SearchInit, Tried, Earlier, Bckdivs, Clkmdivs, BitCounts
  <2> QED
    BY <2>1, <2>2 DEF SearchInit, SearchInv
<1>2. SearchInv /\ SearchOver => found = BestDividers(asked)
  <2> SUFFICES ASSUME SearchInv, SearchOver PROVE found = BestDividers(asked)
    OBVIOUS
  <2>1. \A b \in Bckdivs, c \in Clkmdivs, n \in BitCounts : Tried(b, c, n)
    BY DividerAssumption DEF SearchInv, SearchOver, Tried, Earlier, Bckdivs
  <2>2. asked \in Nat
    BY DEF SearchInv
  <2>3. CASE found = Unset
    <3>1. Abs(asked - found.freq) = asked
      BY <2>2, <2>3 DEF Unset, Abs
    <3>2. \A b \in Bckdivs, c \in Clkmdivs, n \in BitCounts : asked <= Off(asked, b, c, n)
      BY <2>1, <3>1 DEF SearchInv
    <3> QED
      BY <2>2, <2>3, <3>2, ClosestIsUnique, DividersAreClosest DEF Closest
  <2>4. CASE found # Unset
    <3>1. Closest(asked, found)
      BY <2>1, <2>4 DEF SearchInv, Closest
    <3> QED
      BY <2>2, <3>1, ClosestIsUnique, DividersAreClosest
  <2> QED
    BY <2>3, <2>4
<1> QED
  BY <1>1, <1>2, SearchKeeps, PTL DEF SearchSpec
-----------------------------------------------------------------------------
\* The dividers found for a rate are numbers, whatever the rate.
LEMMA DividersAreNumbers ==
  ASSUME NEW r \in Rates
  PROVE  Dividers[r].bckdiv \in Nat /\ Dividers[r].clkmdiv \in Nat
<1>1. r \in Nat /\ Dividers[r] = BestDividers(r)
  BY RenderAssumption DEF Dividers
<1>2. Closest(r, BestDividers(r))
  BY <1>1, DividersAreClosest
<1>3. CASE BestDividers(r) = Unset
  BY <1>1, <1>3 DEF Unset
<1>4. CASE BestDividers(r) # Unset
  <2>1. BestDividers(r).bckdiv \in Bckdivs /\ BestDividers(r).clkmdiv \in Clkmdivs
    BY <1>2, <1>4 DEF Closest
  <2> QED
    BY <1>1, <2>1, DividerAssumption DEF Bckdivs, Clkmdivs
<1> QED
  BY <1>3, <1>4

\* TypeOK, and every sample dealt with was sent at most twice.
TypeInv == TypeOK /\ out <= 2 * i

\* Every step keeps the types.
LEMMA TypeStep == TypeInv /\ [Next]_vars => TypeInv'
<1> SUFFICES ASSUME TypeInv, [Next]_vars PROVE TypeInv'
  OBVIOUS
<1> USE RenderAssumption
<1>1. ASSUME NEW r \in Rates, SetDacSampleRate(r) PROVE TypeInv'
  <2>1. Dividers[r].bckdiv \in Nat /\ Dividers[r].clkmdiv \in Nat
    BY DividersAreNumbers
  <2>2. dac' = Registers(Dividers[r]) /\ oldRate' = r /\ UNCHANGED <<fifoLen, speed, block>>
    BY <1>1 DEF SetDacSampleRate
  <2>3. \A n \in Nat : n % FieldSize \in 0 .. FieldSize - 1
    BY DividerAssumption
  <2>4. dac'.bckdiv \in 0 .. FieldSize - 1 /\ dac'.clkmdiv \in 0 .. FieldSize - 1
    BY <2>1, <2>2, <2>3 DEF Registers
  <2> QED
    BY <2>2, <2>4 DEF TypeInv, TypeOK, speed, block
<1>2. ASSUME NEW seen \in Fills, NEW fill \in Fills, StartBlock(seen, fill)
      PROVE  TypeInv'
  <2> DEFINE low == IF seen < minFifoFill THEN seen ELSE minFifoFill
             due == ~(cnt + 1 < PERIOD)
             addDel == IF due THEN Recalc(low, fill) ELSE sampAddDel
  <2>1. low \in Nat /\ LowAgain(low) \in Nat
    BY DEF TypeInv, TypeOK, LowAgain
  <2>2. addDel \in Int
    <3>1. fifoLen \in Nat /\ fifoLen \div 2 \in Int
      BY DEF TypeInv, TypeOK
    <3>2. \A a, b \in Int : a * b \in Int
      OBVIOUS
    <3> QED
      BY <2>1, <3>1, <3>2 DEF TypeInv, TypeOK, Recalc
  <2>3. /\ Abs(addDel) <= AddDelCap /\ Abs(sampErr + addDel) <= ErrCap
        /\ sampAddDel' = addDel /\ sampErr' = sampErr + addDel
        /\ owed' = sampErr + addDel /\ i' = 0 /\ out' = 0
        /\ cnt' = (IF due THEN 0 ELSE cnt + 1)
        /\ minFifoFill' = (IF due THEN LowAgain(low) ELSE low)
        /\ UNCHANGED <<fifoLen, oldRate, dac>>
    BY <1>2 DEF StartBlock, rate
  <2>4. first' \in BOOLEAN /\ wentLow' \in BOOLEAN /\ beyond' \in BOOLEAN
    <3>1. /\ first' = IF due THEN FALSE ELSE first
          /\ wentLow' = IF seen <= TGT THEN TRUE ELSE IF cnt = 0 THEN FALSE ELSE wentLow
          /\ beyond' = IF Abs(addDel) > BLOCK * ONE THEN TRUE ELSE beyond
      BY <1>2 DEF StartBlock
    <3>2. first \in BOOLEAN /\ wentLow \in BOOLEAN /\ beyond \in BOOLEAN
      BY DEF TypeInv, TypeOK
    <3> HIDE DEF due, addDel
    <3>3. first' \in BOOLEAN
      BY ONLY <3>1, <3>2, Zenon
    <3>4. wentLow' \in BOOLEAN
      BY ONLY <3>1, <3>2, Zenon
    <3>5. beyond' \in BOOLEAN
      BY ONLY <3>1, <3>2, Zenon
    <3> QED
      BY ONLY <3>3, <3>4, <3>5, Zenon
  <2>5. sampErr + addDel \in Int
    BY <2>2 DEF TypeInv, TypeOK
  <2> HIDE DEF addDel
  <2>6. /\ sampAddDel' \in -AddDelCap .. AddDelCap
        /\ sampErr' \in -ErrCap .. ErrCap /\ owed' \in -ErrCap .. ErrCap
    <3>1. -AddDelCap <= addDel /\ addDel <= AddDelCap
      BY <2>2, <2>3, AbsBound
    <3>2. -ErrCap <= sampErr + addDel /\ sampErr + addDel <= ErrCap
      BY <2>3, <2>5, AbsBound
    <3> QED
      BY <2>2, <2>3, <2>5, <3>1, <3>2
  <2>7. /\ cnt' \in 0 .. PERIOD - 1 /\ minFifoFill' \in Nat
        /\ i' \in 0..BLOCK /\ out' \in 0 .. 2 * BLOCK /\ out' <= 2 * i'
    BY <2>1, <2>3 DEF TypeInv, TypeOK
  <2>8. /\ fifoLen' \in FifoLens /\ oldRate' \in Rates \cup {0}
        /\ dac'.bckdiv \in 0 .. FieldSize - 1 /\ dac'.clkmdiv \in 0 .. FieldSize - 1
    BY <2>3 DEF TypeInv, TypeOK
  <2> QED
    BY ONLY <2>4, <2>6, <2>7, <2>8, Zenon DEF TypeInv, TypeOK
<1>3. CASE Drop \/ Repeat \/ PushOnce
  <2>1. /\ i \in Nat /\ i < BLOCK /\ i' = i + 1 /\ out \in Nat /\ out <= 2 * i
        /\ out' \in {out, out + 1, out + 2}
        /\ sampErr \in -ErrCap .. ErrCap
        /\ UNCHANGED <<fifoLen, rate, speed, owed>>
    BY <1>3 DEF Drop, Repeat, PushOnce, TypeInv, TypeOK
  <2>2. sampErr' \in -ErrCap .. ErrCap
    BY <1>3, <2>1 DEF Drop, Repeat, PushOnce
  <2>3. /\ i' \in 0..BLOCK /\ out' \in 0 .. 2 * BLOCK /\ out' <= 2 * i'
    BY <2>1
  <2>4. /\ fifoLen' \in FifoLens /\ oldRate' \in Rates \cup {0}
        /\ dac'.bckdiv \in 0 .. FieldSize - 1 /\ dac'.clkmdiv \in 0 .. FieldSize - 1
        /\ cnt' \in 0 .. PERIOD - 1 /\ minFifoFill' \in Nat
        /\ sampAddDel' \in -AddDelCap .. AddDelCap /\ owed' \in -ErrCap .. ErrCap
    BY <2>1 DEF TypeInv, TypeOK, rate, speed
  <2>5. first' \in BOOLEAN /\ wentLow' \in BOOLEAN /\ beyond' \in BOOLEAN
    BY <2>1 DEF TypeInv, TypeOK, speed
  <2> QED
    BY ONLY <2>2, <2>3, <2>4, <2>5, Zenon DEF TypeInv, TypeOK
<1>4. CASE UNCHANGED vars
  BY <1>4 DEF vars, rate, speed, block, TypeInv, TypeOK
<1> QED
  BY <1>1, <1>2, <1>3, <1>4 DEF Next

\* Everything has its type: the corrections and the error stay within their
\* bounds, and a divider within the field of the register.
THEOREM RenderTypeCorrect == Spec => []TypeOK
<1>1. Init => TypeInv
  <2> SUFFICES ASSUME Init PROVE TypeInv
    OBVIOUS
  <2>1. /\ first \in BOOLEAN /\ wentLow \in BOOLEAN /\ beyond \in BOOLEAN
    BY Zenon DEF Init
  <2>2. dac.bckdiv \in 0 .. FieldSize - 1 /\ dac.clkmdiv \in 0 .. FieldSize - 1
    BY DividerAssumption DEF Init, Unset
  <2> QED
    BY <2>1, <2>2, RenderAssumption DEF Init, TypeInv, TypeOK
<1>2. TypeInv => TypeOK
  BY DEF TypeInv
<1> QED
  BY <1>1, <1>2, TypeStep, PTL DEF Spec

\* The cause of what DividersReachPort finds is the width of the fields alone:
\* were a field wide enough for the dividers that are tried, every divider found
\* would reach the port (lines 274-275 of i2s_freertos.c).
THEOREM WideFieldsReachPort == MaxDiv < FieldSize => (Spec => []DividersReachPort)
<1> SUFFICES ASSUME MaxDiv < FieldSize PROVE Spec => []DividersReachPort
  OBVIOUS
<1> DEFINE Ports == oldRate \in Rates \cup {0} /\ DividersReachPort
<1>1. Init => Ports
  BY DEF Init, DividersReachPort
<1>2. Ports /\ [Next]_vars => Ports'
  <2> SUFFICES ASSUME Ports, [Next]_vars PROVE Ports'
    OBVIOUS
  <2>1. ASSUME NEW r \in Rates, SetDacSampleRate(r) PROVE Ports'
    <3>1. dac' = Registers(Dividers[r]) /\ oldRate' = r
      BY <2>1 DEF SetDacSampleRate
    <3>2. /\ Dividers[r].bckdiv \in 0..FieldSize - 1
          /\ Dividers[r].clkmdiv \in 0..FieldSize - 1
      <4>1. r \in Nat /\ Dividers[r] = BestDividers(r) /\ Closest(r, BestDividers(r))
        BY RenderAssumption, DividersAreClosest DEF Dividers
      <4> QED
        BY <4>1, DividerAssumption DEF Closest, Unset, Bckdivs, Clkmdivs
    <3>3. \A n \in 0..FieldSize - 1 : n % FieldSize = n
      BY DividerAssumption
    <3> QED
      BY <3>1, <3>2, <3>3 DEF DividersReachPort, Registers
  <2>2. CASE UNCHANGED rate
    BY <2>2 DEF rate, DividersReachPort
  <2> QED
    BY <2>1, <2>2 DEF Next, StartBlock, Drop, Repeat, PushOnce, vars
<1>3. Ports => DividersReachPort
  OBVIOUS
<1> HIDE DEF Ports
<1> QED
  BY <1>1, <1>2, <1>3, PTL DEF Spec
-----------------------------------------------------------------------------
(* With the large fifo of the RAM chip a correction is worked out anew from*)
(* the fill alone.  The numbers of that build: 131072 bytes and a gain of  *)
(* 1000 are 65,536,000 at half of it, a sample per sample is 32 * 2^24.    *)
LargeFifo ==
  /\ FifoLens \subseteq {n \in Nat : n >= SmallFifo}
  /\ \A n \in FifoLens : (n - n \div 2) * GAIN <= BLOCK * ONE

\* The correction is due in a block that begins with this fill.
AnewFrom(fill) == (fill - fifoLen \div 2) * GAIN

LargeInv == ErrorInv /\ fifoLen \in FifoLens /\ ~beyond

\* What a large fifo asks for is at most a sample per sample.
LEMMA LargeCorrection ==
  ASSUME LargeFifo, fifoLen \in FifoLens, NEW fill \in Nat, fill <= fifoLen
  PROVE  /\ AnewFrom(fill) \in Int
         /\ -(BLOCK * ONE) <= AnewFrom(fill) /\ AnewFrom(fill) <= BLOCK * ONE
<1> DEFINE half == fifoLen \div 2
           more == fifoLen - half
<1>1. fifoLen \in Nat /\ GAIN \in Nat
  BY RenderAssumption
<1>2. half \in Nat /\ more \in Nat /\ half <= more
  BY <1>1
<1>3. fill - half \in Int /\ -more <= fill - half /\ fill - half <= more
  BY <1>1, <1>2
<1>4. more * GAIN <= BLOCK * ONE
  BY DEF LargeFifo
<1>5. BLOCK * ONE \in Nat /\ more * GAIN \in Nat
  <2>1. \A a, b \in Nat : a * b \in Nat
    OBVIOUS
  <2> QED
    BY <1>1, <1>2, <2>1, RenderAssumption
<1> HIDE DEF half, more
<1>6. (fill - half) * GAIN \in Int /\ -(more * GAIN) <= (fill - half) * GAIN
      /\ (fill - half) * GAIN <= more * GAIN
  <2>1. \A x \in Int, b, g \in Nat : -b <= x /\ x <= b
          => x * g \in Int /\ -(b * g) <= x * g /\ x * g <= b * g
    <3> SUFFICES ASSUME NEW x \in Int, NEW b \in Nat, NEW g \in Nat, -b <= x, x <= b
                 PROVE  x * g \in Int /\ -(b * g) <= x * g /\ x * g <= b * g
      OBVIOUS
    <3>1. (b - x) * g >= 0 /\ (x + b) * g >= 0
      BY GainSign, b - x \in Int, x + b \in Int, b - x >= 0, x + b >= 0
    <3>2. (b - x) * g = b * g - x * g /\ (x + b) * g = x * g + b * g
      OBVIOUS
    <3>3. x * g \in Int /\ b * g \in Int
      OBVIOUS
    <3> HIDE DEF half
    <3> QED
      BY <3>1, <3>2, <3>3
  <2> QED
    BY <1>1, <1>2, <1>3, <2>1
<1>7. AnewFrom(fill) = (fill - half) * GAIN
  BY DEF AnewFrom, half
<1> QED
  BY <1>4, <1>5, <1>6, <1>7

\* A block begins: whether the correction is a new one or the last one, it is
\* not beyond a sample per sample.
LEMMA LargeBlock ==
  ASSUME LargeFifo, LargeInv, NEW seen \in Fills, NEW fill \in Fills,
         fill <= fifoLen, StartBlock(seen, fill)
  PROVE  ~beyond'
<1> USE RenderAssumption
<1> DEFINE low == IF seen < minFifoFill THEN seen ELSE minFifoFill
           due == ~(cnt + 1 < PERIOD)
           addDel == IF due THEN Recalc(low, fill) ELSE sampAddDel
<1>1. beyond' = IF Abs(addDel) > BLOCK * ONE THEN TRUE ELSE beyond
  BY DEF StartBlock
<1>2. ~(fifoLen < SmallFifo)
  BY DEF LargeFifo, LargeInv
<1>3. Recalc(low, fill) = AnewFrom(fill)
  BY <1>2 DEF Recalc, AnewFrom
<1>4. /\ AnewFrom(fill) \in Int
      /\ -(BLOCK * ONE) <= AnewFrom(fill) /\ AnewFrom(fill) <= BLOCK * ONE
  BY LargeCorrection DEF LargeInv
<1>5. /\ sampAddDel \in Int
      /\ -(BLOCK * ONE) <= sampAddDel /\ sampAddDel <= BLOCK * ONE
  BY DEF LargeInv, ErrorInv, Types
<1>6. addDel \in Int /\ -(BLOCK * ONE) <= addDel /\ addDel <= BLOCK * ONE
  BY <1>3, <1>4, <1>5
<1>7. BLOCK * ONE \in Nat
  BY LessToGo, 0 < BLOCK
<1> HIDE DEF addDel
<1>8. Abs(addDel) <= BLOCK * ONE /\ Abs(addDel) \in Int
  BY <1>6, <1>7, AbsBound DEF Abs
<1>9. ~(Abs(addDel) > BLOCK * ONE)
  BY <1>7, <1>8
<1> QED
  BY <1>1, <1>9 DEF LargeInv

\* The correction and the error stay within a sample per sample.
SpeedBounded ==
  /\ Abs(sampAddDel) <= BLOCK * ONE
  /\ Abs(sampErr) <= BLOCK * ONE + ONE
  /\ i = BLOCK => Abs(sampErr) <= ONE

\* In no block that can begin do the bounds of the model cut anything off.
CapsAreFree ==
  i = BLOCK => \A fill \in {n \in Fills : n <= fifoLen} :
                 \A addDel \in {AnewFrom(fill), sampAddDel} :
                    Abs(addDel) <= AddDelCap /\ Abs(sampErr + addDel) <= ErrCap

LEMMA LargeBounds ==
  ASSUME LargeInv
  PROVE  /\ -(BLOCK * ONE) <= sampAddDel /\ sampAddDel <= BLOCK * ONE
         /\ -(BLOCK * ONE + ONE) <= sampErr /\ sampErr <= BLOCK * ONE + ONE
         /\ i = BLOCK => -ONE <= sampErr /\ sampErr <= ONE
         /\ BLOCK * ONE \in Nat /\ ONE \in Nat
         /\ sampErr \in Int /\ sampAddDel \in Int
<1> USE RenderAssumption
<1>1. /\ (BLOCK - BLOCK + 1) * ONE = ONE /\ BLOCK * ONE \in Nat
      /\ (BLOCK - 0 + 1) * ONE = BLOCK * ONE + ONE
  BY LessToGo, 0 < BLOCK
<1>2. (BLOCK - i + 1) * ONE <= BLOCK * ONE + ONE /\ (BLOCK - i + 1) * ONE \in Nat
  <2>1. \A a, b, g \in Nat : a <= b => a * g <= b * g /\ a * g \in Nat
    <3> SUFFICES ASSUME NEW a \in Nat, NEW b \in Nat, NEW g \in Nat, a <= b
                 PROVE  a * g <= b * g /\ a * g \in Nat
      OBVIOUS
    <3>1. (b - a) * g >= 0
      BY GainSign, b - a \in Int, b - a >= 0
    <3>2. (b - a) * g = b * g - a * g
      OBVIOUS
    <3>3. a * g \in Nat /\ b * g \in Nat
      OBVIOUS
    <3> QED
      BY <3>1, <3>2, <3>3
  <2>2. BLOCK - i + 1 \in Nat /\ BLOCK - 0 + 1 \in Nat /\ BLOCK - i + 1 <= BLOCK - 0 + 1
    BY DEF LargeInv, ErrorInv, Types
  <2> QED
    BY <1>1, <2>1, <2>2
<1> QED
  BY <1>1, <1>2 DEF LargeInv, ErrorInv, Types

\* With a large fifo whose half asks for no more than a sample per sample no
\* correction ever does, whatever the fills were; the error is at most a block
\* and a sample, so that the code's 32 bits (33 * 2^24) never overflow, and the
\* bounds of this model play no part (mad_helper.c, lines 84-88 and 112-135).
THEOREM LargeFifoSettles ==
  ASSUME LargeFifo, BLOCK * ONE <= AddDelCap, BLOCK * ONE + ONE <= ErrCap
  PROVE  Spec => [](~beyond /\ SpeedBounded /\ CapsAreFree)
<1>1. Init => LargeInv
  BY ErrorStart DEF Init, LargeInv
<1>2. LargeInv /\ [Next]_vars => LargeInv'
  <2> SUFFICES ASSUME LargeInv, [Next]_vars PROVE LargeInv'
    OBVIOUS
  <2>1. ErrorInv'
    BY ErrorStep DEF LargeInv
  <2>2. fifoLen' = fifoLen
    BY DEF Next, SetDacSampleRate, StartBlock, Drop, Repeat, PushOnce, vars
  <2>3. ~beyond'
    <3>1. CASE \E seen, fill \in {n \in Fills : n <= fifoLen} : StartBlock(seen, fill)
      BY <3>1, LargeBlock
    <3>2. CASE UNCHANGED speed
      BY <3>2 DEF speed, LargeInv
    <3>3. CASE \E r \in Rates : SetDacSampleRate(r)
      BY <3>2, <3>3 DEF SetDacSampleRate
    <3>4. CASE Drop \/ Repeat \/ PushOnce
      BY <3>2, <3>4 DEF Drop, Repeat, PushOnce
    <3>5. CASE UNCHANGED vars
      BY <3>2, <3>5 DEF vars
    <3> QED
      BY <3>1, <3>3, <3>4, <3>5 DEF Next
  <2> QED
    BY <2>1, <2>2, <2>3 DEF LargeInv
<1>3. LargeInv => ~beyond /\ SpeedBounded /\ CapsAreFree
  <2> SUFFICES ASSUME LargeInv PROVE SpeedBounded /\ CapsAreFree
    BY DEF LargeInv
  <2>1. SpeedBounded
    <3>1. BLOCK * ONE + ONE \in Nat
      BY LargeBounds
    <3> QED
      BY <3>1, LargeBounds, AbsBound DEF SpeedBounded
  <2>2. ASSUME i = BLOCK, NEW fill \in {n \in Fills : n <= fifoLen},
               NEW addDel \in {AnewFrom(fill), sampAddDel}
        PROVE  Abs(addDel) <= AddDelCap /\ Abs(sampErr + addDel) <= ErrCap
    <3>1. addDel \in Int /\ -(BLOCK * ONE) <= addDel /\ addDel <= BLOCK * ONE
      BY LargeCorrection, LargeBounds, RenderAssumption DEF LargeInv
    <3>2. -AddDelCap <= addDel /\ addDel <= AddDelCap /\ AddDelCap \in Nat /\ ErrCap \in Nat
      BY <3>1, LargeBounds, RenderAssumption
    <3>3. sampErr + addDel \in Int /\ -ErrCap <= sampErr + addDel /\ sampErr + addDel <= ErrCap
      BY <2>2, <3>1, <3>2, LargeBounds
    <3> QED
      BY <3>1, <3>2, <3>3, AbsBound
  <2> QED
    BY <2>1, <2>2 DEF CapsAreFree
<1> QED
  BY <1>1, <1>2, <1>3, PTL DEF Spec
=============================================================================
