----------------------------- MODULE MadReservoir -----------------------------
(***************************************************************************)
(* The bit reservoir of src/mp3/mad/layer3.c: the main data of a Layer III *)
(* frame begins up to 511 bytes before the frame, in what earlier frames   *)
(* left free.  mad_layer_III keeps the end of what has gone by in MainData:*)
(* it looks at the header behind the frame to learn how much the next      *)
(* frame will want, and moves or copies just that.                         *)
(*                                                                         *)
(* A byte of main data is its distance to the first main-data byte of the  *)
(* next frame: -1 is the last byte gone by.  A byte of another stream, or  *)
(* from before a gap, is Stale.                                            *)
(*                                                                         *)
(* A definition that stands right before another one, without a comment of *)
(* its own, is that other one with a plausible bug in it: the properties   *)
(* below are checked to notice it.                                         *)
(***************************************************************************)
EXTENDS Integers, Sequences

CONSTANTS MaxBegin,   \* largest main_data_begin (511)
          MaxSpace,   \* most main data in one frame (1420, free format apart)
          MDLEN       \* size of MainData, MAD_BUFFER_MDLEN (2567)

ASSUME ReservoirAssumption ==
  /\ MaxBegin \in Nat /\ MaxSpace \in Nat /\ MDLEN \in Nat
  /\ MaxBegin + MaxSpace <= MDLEN

VARIABLES
  main_data,   \* the first md_len bytes of MainData
  promised,    \* main_data_begin of the frame that follows directly, or Unknown
  intact       \* history: main data gone by since the last gap, up to MaxBegin

rvars == <<main_data, promised, intact>>

Unknown == -1
Stale == MaxSpace
Begins == 0..MaxBegin
Spaces == 0..MaxSpace

RInit == main_data = <<>> /\ promised = Unknown /\ intact = 0
-----------------------------------------------------------------------------
\* The main-data bytes of the frame itself, and those of its data.
Fresh(s) == [k \in 1..s |-> k - 1]
Own(b, n) == [k \in 1..n |-> k - 1 - b]

Start(q, n) == SubSeq(q, 1, n)
End(q, n) == SubSeq(q, Len(q) - n + 1, Len(q))

\* The next frame's begin as the frame sees it: one that reaches back beyond
\* the frame's own data cannot be meant.
Next_md_begin(b, s, peek) == IF peek > b + s THEN 0 ELSE peek

\* Bytes of the frame that its data takes.
Frame_used(b, s, next) ==
  LET md_len == b + s - next
  IN  IF b = 0 THEN md_len
      ELSE IF b > Len(main_data) \/ md_len <= b THEN 0
      ELSE md_len - b

\* MainData while the frame is decoded: its own bytes behind the old ones,
\* unless it is decoded where it is.
Held(b, s, next) ==
  IF b = 0 THEN <<>> ELSE main_data \o Start(Fresh(s), Frame_used(b, s, next))

\* What III_decode reads from.
Read(b, s, next) ==
  LET md_len == b + s - next
  IN  IF b = 0 THEN Start(Fresh(s), md_len)
      ELSE Start(End(main_data, b) \o Start(Fresh(s), Frame_used(b, s, next)), md_len)

KeptNone(b, s, next) == <<>>
KeptAll(b, s, next) == Held(b, s, next)
\* Old bytes the next frame still wants: only if this one's data ends early.
Kept(b, s, next) ==
  LET md_len == b + s - next
      free == s - Frame_used(b, s, next)
      held == Held(b, s, next)
      extra == IF b - md_len + free > next THEN next - free ELSE b - md_len
  IN  IF ~(md_len < b) THEN <<>>
      ELSE IF extra < Len(held) THEN End(held, extra)
      ELSE held

\* MainData for the next frame(s).
Preload(b, s, next) ==
  LET free == s - Frame_used(b, s, next)
  IN  IF free >= next THEN End(Fresh(s), next)
      ELSE Kept(b, s, next) \o End(Fresh(s), free)

\* The next frame's data begins s bytes further on.
Passed(q, s) == [k \in 1..Len(q) |-> IF q[k] = Stale THEN Stale ELSE q[k] - s]
Lost(q) == [k \in 1..Len(q) |-> Stale]

\* mad_layer_III on a frame that says b, has s bytes of main data and is
\* followed by a header that says peek; whether III_decode succeeds, or is called
\* at all, makes no difference to MainData.
LayerIII(b, s, peek) == Preload(b, s, Next_md_begin(b, s, peek))
-----------------------------------------------------------------------------
\* A frame that is followed by the next frame of its stream, which says nb.
FrameStep(b, s, nb) ==
  /\ main_data' = Passed(LayerIII(b, s, nb), s)
  /\ promised' = nb
  /\ intact' = IF intact + s > MaxBegin THEN MaxBegin ELSE intact + s

\* A frame at the end of its stream, one that is damaged, or junk taken for one.
StrayStep(b, s, peek) ==
  main_data' = Lost(LayerIII(b, s, peek)) /\ promised' = Unknown /\ intact' = 0

\* A frame too short for its side information; or the chip starts again.
Forget == main_data' = <<>> /\ promised' = Unknown /\ intact' = 0

\* The encoder: a frame says what the header before it was peeked at for, and
\* its data does not end after the frame.
Frame(b, s, nb) ==
  /\ promised \in {b, Unknown} /\ nb <= b + s
  /\ FrameStep(b, s, nb)

RNext == \/ \E b, nb \in Begins, s \in Spaces : Frame(b, s, nb)
         \/ \E b, peek \in Begins, s \in Spaces : StrayStep(b, s, peek)
         \/ Forget

RSpec == RInit /\ [][RNext]_rvars
-----------------------------------------------------------------------------
\* Types of the state above.
ReservoirOK ==
  /\ main_data \in Seq(Int) /\ Len(main_data) <= MaxBegin
  /\ promised \in Begins \cup {Unknown} /\ intact \in Begins

(* A frame whose data began no further back than the last gap is decoded   *)
(* from its own data, to the byte, whatever sizes and begins the frames    *)
(* before it had, and whatever follows it: the bytes kept are always       *)
(* enough, and the right ones (layer3.c:2621-2647, 2677-2701).             *)
OwnData ==
  promised # Unknown /\ promised <= intact =>
    /\ promised <= Len(main_data)
    /\ \A s \in Spaces, next \in Begins :
         next <= promised + s =>
           Read(promised, s, next) = Own(promised, promised + s - next)
=============================================================================
