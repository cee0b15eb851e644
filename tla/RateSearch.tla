------------------------------ MODULE RateSearch ------------------------------
(***************************************************************************)
(* The three nested loops of i2sSetRate, src/mp3/driver/i2s_freertos.c,    *)
(* one pass of the innermost loop per step.  SampleRate says in one        *)
(* expression what they end up with (BestDividers), which is what Render   *)
(* uses; RenderProofs shows that they do (SearchFindsBest), for every clock*)
(* and every rate.                                                         *)
(***************************************************************************)
EXTENDS SampleRate

VARIABLES asked,              \* i2sSetRate's argument rate
          bck, clkm, nbits,   \* its loop variables bckdiv, clkmdiv and bits
          found               \* bestfreq, bestbckdiv, bestclkmdiv and bestbits

searchVars == <<asked, bck, clkm, nbits, found>>

SearchInit ==
  /\ asked \in Nat
  /\ bck = 2 /\ clkm = 5 /\ nbits = 16
  /\ found = Unset

\* The body: a setting is kept if it is strictly closer than the one kept.
TryAlso ==
  LET tstfreq == Freq(bck, clkm, nbits)
  IN  found' = IF Abs(asked - tstfreq) < Abs(asked - found.freq)
                 THEN [freq |-> tstfreq, bckdiv |-> bck, clkmdiv |-> clkm, bits |-> nbits]
                 ELSE found

SearchOver == bck > MaxDiv

LastBits == nbits + 1 \notin BitCounts

NextBits ==
  /\ ~SearchOver /\ ~LastBits /\ TryAlso
  /\ nbits' = nbits + 1 /\ UNCHANGED <<asked, bck, clkm>>

NextClkmdiv ==
  /\ ~SearchOver /\ LastBits /\ clkm < MaxDiv /\ TryAlso
  /\ nbits' = 16 /\ clkm' = clkm + 1 /\ UNCHANGED <<asked, bck>>

NextBckdiv ==
  /\ ~SearchOver /\ LastBits /\ clkm = MaxDiv /\ TryAlso
  /\ nbits' = 16 /\ clkm' = 5 /\ bck' = bck + 1 /\ UNCHANGED asked

SearchNext == NextBits \/ NextClkmdiv \/ NextBckdiv

SearchSpec == SearchInit /\ [][SearchNext]_searchVars
=============================================================================
