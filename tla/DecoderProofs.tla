------------------------------ MODULE DecoderProofs ------------------------------
(***************************************************************************)
(* Proofs about the decoder, in two parts.  The first is about MadReservoir*)
(* alone: whatever frames come, MainData has room for them, and a frame    *)
(* within reach is decoded from its own data.  The second is about the way *)
(* frames are found: Decoder implements RSpec, so that the first part holds*)
(* in it.                                                                  *)
(*                                                                         *)
(* ReservoirOK alone says nothing of what MainData holds.  RInv does: its  *)
(* last bytes are, in order, the last ones gone by, as far back as the     *)
(* frame to come was promised and as there is no gap; and there are as     *)
(* many of them as that.                                                   *)
(*                                                                         *)
(* For the second part SInv says that a frame in readBuf asks for no more  *)
(* than the frame before it leaves, and PromiseKept that the frame whose   *)
(* header was peeked at is in its place.                                   *)
(***************************************************************************)
EXTENDS Decoder, TLAPS

Promised(k) == promised # Unknown /\ k <= promised /\ k <= intact

RInv ==
  /\ ReservoirOK
  /\ promised = Unknown => intact = 0
  /\ promised <= Len(main_data) \/ intact <= Len(main_data)
  /\ \A k \in 1..Len(main_data) :
       Promised(k) => main_data[Len(main_data) + 1 - k] = -k

USE ReservoirAssumption DEF Unknown, Stale, Begins, Spaces
-----------------------------------------------------------------------------
(* The bytes of a frame: as many as it has, and what they are.             *)
LEMMA FreshBytes ==
  ASSUME NEW s \in Nat
  PROVE  /\ Fresh(s) \in Seq(Int) /\ Len(Fresh(s)) = s
         /\ \A k \in 1..s : Fresh(s)[k] = k - 1
BY DEF Fresh

(* The first n of a sequence.                                              *)
LEMMA StartBytes ==
  ASSUME NEW q \in Seq(Int), NEW n \in 0..Len(q)
  PROVE  /\ Start(q, n) \in Seq(Int) /\ Len(Start(q, n)) = n
         /\ \A k \in 1..n : Start(q, n)[k] = q[k]
BY DEF Start

(* The last n of a sequence.                                               *)
LEMMA EndBytes ==
  ASSUME NEW q \in Seq(Int), NEW n \in 0..Len(q)
  PROVE  /\ End(q, n) \in Seq(Int) /\ Len(End(q, n)) = n
         /\ \A k \in 1..n : End(q, n)[k] = q[Len(q) - n + k]
BY DEF End

(* One sequence behind another.                                            *)
LEMMA Concat ==
  ASSUME NEW p \in Seq(Int), NEW q \in Seq(Int)
  PROVE  /\ p \o q \in Seq(Int) /\ Len(p \o q) = Len(p) + Len(q)
         /\ \A k \in 1..Len(p) : (p \o q)[k] = p[k]
         /\ \A k \in 1..Len(q) : (p \o q)[Len(p) + k] = q[k]
OBVIOUS

(* A frame takes some of its own bytes, those before the next one's, or none; *)
(* it leaves too few for the next one only when it takes none.              *)
LEMMA UsedBytes ==
  ASSUME NEW b \in Begins, NEW s \in Spaces, NEW next \in Begins, next <= b + s,
         main_data \in Seq(Int)
  PROVE  /\ Frame_used(b, s, next) \in 0..s
         /\ Frame_used(b, s, next) \in {0, s - next}
         /\ s - Frame_used(b, s, next) < next =>
              s < next /\ b # 0 /\ Frame_used(b, s, next) = 0
BY DEF Frame_used

(* What is held: the old bytes and then those of the frame.                *)
LEMMA HeldBytes ==
  ASSUME NEW b \in Begins, NEW s \in Spaces, NEW next \in Begins, next <= b + s,
         main_data \in Seq(Int)
  PROVE  /\ Held(b, s, next) \in Seq(Int)
         /\ Len(Held(b, s, next)) <= Len(main_data) + s
         /\ b # 0 /\ Frame_used(b, s, next) = 0 => Held(b, s, next) = main_data
<1> DEFINE u == Frame_used(b, s, next)
<1>1. u \in 0..s
  BY UsedBytes
<1>2. s \in Nat /\ Fresh(s) \in Seq(Int) /\ Len(Fresh(s)) = s
  BY FreshBytes
<1>3. Start(Fresh(s), u) \in Seq(Int) /\ Len(Start(Fresh(s), u)) = u
  BY <1>1, <1>2, StartBytes
<1>4. CASE b = 0
  <2>1. Held(b, s, next) = <<>>
    BY <1>4 DEF Held
  <2> QED
    BY <2>1, <1>4, <1>2
<1>5. CASE b # 0
  <2>1. Held(b, s, next) = main_data \o Start(Fresh(s), u)
    BY <1>5 DEF Held
  <2>2. /\ Held(b, s, next) \in Seq(Int)
        /\ Len(Held(b, s, next)) = Len(main_data) + u
    BY <2>1, <1>3, Concat
  <2>3. ASSUME u = 0 PROVE Held(b, s, next) = main_data
    <3>1. Len(Start(Fresh(s), u)) = 0
      BY <1>3, <2>3
    <3>2. Start(Fresh(s), u) = <<>>
      BY <1>3, <3>1
    <3> QED
      BY <3>2, <2>1
  <2> QED
    BY <2>2, <2>3, <1>1
<1> QED
  BY <1>4, <1>5

(* What is kept when the frame leaves less room than the next one asks for. *)
LEMMA KeptBytes ==
  ASSUME NEW b \in Begins, NEW s \in Spaces, NEW next \in Begins, next <= b + s,
         main_data \in Seq(Int), s < next, b # 0, Frame_used(b, s, next) = 0
  PROVE  /\ Kept(b, s, next) \in Seq(Int)
         /\ Len(Kept(b, s, next)) <= Len(main_data)
         /\ Len(Kept(b, s, next)) \in {Len(main_data), next - s}
         /\ Len(Kept(b, s, next)) <= next - s
         /\ \A k \in 1..Len(Kept(b, s, next)) :
              Kept(b, s, next)[Len(Kept(b, s, next)) + 1 - k]
                = main_data[Len(main_data) + 1 - k]
<1>1. Held(b, s, next) = main_data
  BY HeldBytes
<1>2. b \in Nat /\ s \in Nat /\ next \in Nat /\ Len(main_data) \in Nat
  OBVIOUS
<1>3. Kept(b, s, next) = IF next - s < Len(main_data) THEN End(main_data, next - s)
                         ELSE main_data
  <2>1. b + s - next < b
    BY <1>2
  <2>2. b - (b + s - next) = next - s /\ ~(b - (b + s - next) + (s - 0) > next)
    BY <1>2
  <2> QED
    BY <1>1, <2>1, <2>2 DEF Kept
<1>4. CASE next - s < Len(main_data)
  <2>1. next - s \in 0..Len(main_data)
    BY <1>2, <1>4
  <2> DEFINE e == End(main_data, next - s)
  <2>2. /\ e \in Seq(Int) /\ Len(e) = next - s
        /\ \A k \in 1..next - s : e[k] = main_data[Len(main_data) - (next - s) + k]
    BY <2>1, EndBytes
  <2>3. ASSUME NEW k \in 1..next - s
        PROVE  e[next - s + 1 - k] = main_data[Len(main_data) + 1 - k]
    <3>1. next - s + 1 - k \in 1..next - s
      BY <1>2
    <3>2. Len(main_data) - (next - s) + (next - s + 1 - k) = Len(main_data) + 1 - k
      BY <1>2
    <3> QED
      BY <2>2, <3>1, <3>2
  <2>4. Kept(b, s, next) = e
    BY <1>3, <1>4
  <2>5. \A k \in 1..next - s : Kept(b, s, next)[next - s + 1 - k]
                              = main_data[Len(main_data) + 1 - k]
    BY <2>3, <2>4
  <2>6. Kept(b, s, next) \in Seq(Int) /\ Len(Kept(b, s, next)) = next - s
    BY <2>2, <2>4
  <2> QED
    BY <2>5, <2>6, <1>4, <1>2
<1>5. CASE ~(next - s < Len(main_data))
  BY <1>2, <1>3, <1>5
<1> QED
  BY <1>4, <1>5

(* MainData for the next frame, whose begin fits: no longer than that, its  *)
(* bytes are the frame's last ones, and behind those the last ones before.  *)
LEMMA PreloadBytes ==
  ASSUME NEW b \in Begins, NEW s \in Spaces, NEW next \in Begins, next <= b + s,
         main_data \in Seq(Int)
  PROVE  /\ Preload(b, s, next) \in Seq(Int) /\ Len(Preload(b, s, next)) <= next
         /\ next <= s => Len(Preload(b, s, next)) = next
         /\ s < next => Len(Preload(b, s, next)) \in {next, Len(main_data) + s}
         /\ \A k \in 1..Len(Preload(b, s, next)) :
              Preload(b, s, next)[Len(Preload(b, s, next)) + 1 - k]
                = IF k <= s THEN s - k ELSE main_data[Len(main_data) + 1 - (k - s)]
         /\ s < next => /\ Len(Preload(b, s, next)) >= s
                        /\ Len(Preload(b, s, next)) - s <= Len(main_data)
<1> DEFINE f == s - Frame_used(b, s, next)
           P == Preload(b, s, next)
<1>1. /\ b \in Nat /\ s \in Nat /\ next \in Nat /\ Len(main_data) \in Nat
      /\ f \in 0..s
  BY UsedBytes
<1>2. /\ Fresh(s) \in Seq(Int) /\ Len(Fresh(s)) = s
      /\ \A k \in 1..s : Fresh(s)[k] = k - 1
  BY <1>1, FreshBytes
<1>3. CASE f >= next
  <2>1. P = End(Fresh(s), next)
    BY <1>3 DEF Preload
  <2>2. next \in 0..Len(Fresh(s))
    BY <1>1, <1>2, <1>3
  <2>3. /\ P \in Seq(Int) /\ Len(P) = next
        /\ \A k \in 1..next : P[k] = Fresh(s)[s - next + k]
    BY <2>1, <2>2, <1>2, EndBytes
  <2>4. next <= s
    BY <1>1, <1>3
  <2>5. ASSUME NEW k \in 1..next PROVE k <= s /\ P[next + 1 - k] = s - k
    <3>1. /\ next + 1 - k \in 1..next /\ s - next + (next + 1 - k) = s + 1 - k
          /\ s + 1 - k \in 1..s
      BY <1>1, <2>4
    <3>2. P[next + 1 - k] = Fresh(s)[s + 1 - k]
      BY <2>3, <3>1
    <3>3. Fresh(s)[s + 1 - k] = s + 1 - k - 1
      BY <1>2, <3>1
    <3> QED
      BY <3>1, <3>2, <3>3, <1>1, <2>4
  <2> HIDE DEF P
  <2>6. \A k \in 1..Len(P) : P[Len(P) + 1 - k] = IF k <= s THEN s - k
                              ELSE main_data[Len(main_data) + 1 - (k - s)]
    BY <2>3, <2>5
  <2>7. /\ P \in Seq(Int) /\ Len(P) <= next /\ (next <= s => Len(P) = next)
        /\ ~(s < next)
    BY <2>3, <2>4, <1>1
  <2> QED
    BY <2>6, <2>7 DEF P
<1>4. CASE ~(f >= next)
  <2>1. s < next /\ b # 0 /\ Frame_used(b, s, next) = 0 /\ f = s
    <3>1. f < next
      BY <1>1, <1>4
    <3> QED
      BY <3>1, <1>1, UsedBytes
  <2> DEFINE K == Kept(b, s, next)
  <2>2. /\ K \in Seq(Int) /\ Len(K) <= Len(main_data)
        /\ Len(K) \in {Len(main_data), next - s} /\ Len(K) <= next - s
        /\ \A k \in 1..Len(K) : K[Len(K) + 1 - k] = main_data[Len(main_data) + 1 - k]
    BY <2>1, KeptBytes
  <2>3. /\ End(Fresh(s), s) \in Seq(Int) /\ Len(End(Fresh(s), s)) = s
        /\ \A k \in 1..s : End(Fresh(s), s)[k] = k - 1
    <3>1. s \in 0..Len(Fresh(s))
      BY <1>1, <1>2
    <3>2. \A k \in 1..s : s - s + k = k
      BY <1>1
    <3> QED
      BY <1>2, <3>1, <3>2, EndBytes
  <2>4. P = K \o End(Fresh(s), s)
    BY <2>1, <1>4 DEF Preload
  <2> HIDE DEF K, P
  <2>5. /\ P \in Seq(Int) /\ Len(P) = Len(K) + s
        /\ \A k \in 1..Len(K) : P[k] = K[k]
        /\ \A k \in 1..s : P[Len(K) + k] = k - 1
    <3> DEFINE F == End(Fresh(s), s)
    <3>1. F \in Seq(Int) /\ Len(F) = s /\ \A k \in 1..s : F[k] = k - 1
      BY <2>3
    <3>2. P = K \o F
      BY <2>4
    <3> HIDE DEF F
    <3>3. /\ P \in Seq(Int) /\ Len(P) = Len(K) + Len(F)
          /\ \A k \in 1..Len(K) : P[k] = K[k]
          /\ \A k \in 1..Len(F) : P[Len(K) + k] = F[k]
      BY <2>2, <3>1, <3>2, Concat
    <3> QED
      BY <3>1, <3>3
  <2>6. ASSUME NEW k \in 1..Len(P)
        PROVE  P[Len(P) + 1 - k] = IF k <= s THEN s - k
                                   ELSE main_data[Len(main_data) + 1 - (k - s)]
    <3>1. Len(K) \in Nat /\ k \in Nat /\ k <= Len(K) + s
      BY <2>2, <2>5
    <3>2. CASE k <= s
      <4>1. /\ s + 1 - k \in 1..s /\ Len(P) + 1 - k = Len(K) + (s + 1 - k)
            /\ s + 1 - k - 1 = s - k
        BY <2>5, <3>1, <3>2, <1>1
      <4>2. ASSUME NEW j \in 1..s, j = s + 1 - k
            PROVE  P[Len(P) + 1 - k] = s - k
        <5>1. P[Len(K) + j] = j - 1
          BY <2>5
        <5>2. Len(P) + 1 - k = Len(K) + j /\ j - 1 = s - k
          BY <4>1, <4>2
        <5> QED
          BY <5>1, <5>2
      <4> QED
        BY <4>1, <4>2, <3>2
    <3>3. CASE ~(k <= s)
      <4>1. /\ k - s \in 1..Len(K) /\ Len(P) + 1 - k = Len(K) + 1 - (k - s)
            /\ Len(K) + 1 - (k - s) \in 1..Len(K)
        BY <2>5, <3>1, <3>3, <1>1
      <4>2. P[Len(P) + 1 - k] = K[Len(K) + 1 - (k - s)]
        BY <2>5, <4>1
      <4> QED
        BY <2>2, <4>1, <4>2, <3>3
    <3> QED
      BY <3>2, <3>3
  <2>7. /\ Len(P) <= next /\ ~(next <= s) /\ Len(P) >= s
        /\ Len(P) \in {next, Len(main_data) + s} /\ Len(P) - s <= Len(main_data)
    <3>1. Len(K) \in Nat /\ Len(P) = Len(K) + s /\ Len(K) <= next - s
      BY <2>2, <2>5
    <3>2. CASE Len(K) = Len(main_data)
      BY <3>1, <3>2, <1>1, <2>1
    <3>3. CASE Len(K) = next - s
      BY <3>1, <3>3, <2>2, <1>1, <2>1
    <3> QED
      BY <3>2, <3>3, <2>2
  <2> QED
    BY <2>1, <2>5, <2>6, <2>7 DEF P
<1> QED
  BY <1>3, <1>4
-----------------------------------------------------------------------------
(* The bytes of MainData after a step, as far back from its end as they go. *)
LEMMA PassedBytes ==
  ASSUME NEW q \in Seq(Int), NEW s \in Nat
  PROVE  /\ Passed(q, s) \in Seq(Int) /\ Len(Passed(q, s)) = Len(q)
         /\ \A k \in 1..Len(q) :
              Passed(q, s)[k] = IF q[k] = Stale THEN Stale ELSE q[k] - s
<1>1. \A k \in 1..Len(q) : q[k] \in Int
  OBVIOUS
<1> QED
  BY <1>1 DEF Passed

(* Bytes from before a gap are as many as they were.                       *)
LEMMA LostBytes ==
  ASSUME NEW q \in Seq(Int)
  PROVE  Lost(q) \in Seq(Int) /\ Len(Lost(q)) = Len(q)
BY DEF Lost

(* The begin that mad_layer_III goes by is never beyond the frame's data.  *)
LEMMA NextBegin ==
  ASSUME NEW b \in Begins, NEW s \in Spaces, NEW peek \in Begins
  PROVE  /\ Next_md_begin(b, s, peek) \in Begins
         /\ Next_md_begin(b, s, peek) <= b + s
         /\ peek <= b + s => Next_md_begin(b, s, peek) = peek
BY DEF Next_md_begin

(* A frame that is followed by the next of its stream: its own bytes are   *)
(* the last ones now, and behind them lie those that were the last before, *)
(* as many as the next frame asks for and as were there.                   *)
LEMMA FrameKeeps ==
  ASSUME RInv, NEW b \in Begins, NEW nb \in Begins, NEW s \in Spaces, Frame(b, s, nb)
  PROVE  RInv'
<1> DEFINE P == Preload(b, s, nb)
<1>1. /\ b \in Nat /\ s \in Nat /\ nb \in Nat /\ nb <= b + s
      /\ promised \in {b, -1} /\ main_data \in Seq(Int) /\ Len(main_data) \in Nat
      /\ intact \in Nat /\ intact <= MaxBegin /\ (promised = -1 => intact = 0)
      /\ promised <= Len(main_data) \/ intact <= Len(main_data)
  BY DEF RInv, ReservoirOK, Frame
<1>2. /\ promised' = nb
      /\ intact' = IF intact + s > MaxBegin THEN MaxBegin ELSE intact + s
      /\ main_data' = Passed(P, s)
  BY <1>1, NextBegin DEF Frame, FrameStep, LayerIII
<1>3. /\ P \in Seq(Int) /\ Len(P) <= nb
      /\ nb <= s => Len(P) = nb
      /\ s < nb => Len(P) \in {nb, Len(main_data) + s}
      /\ \A k \in 1..Len(P) :
           P[Len(P) + 1 - k] = IF k <= s THEN s - k
                               ELSE main_data[Len(main_data) + 1 - (k - s)]
      /\ s < nb => /\ Len(P) >= s
                   /\ Len(P) - s <= Len(main_data)
  <2>1. nb <= b + s /\ main_data \in Seq(Int)
    BY <1>1
  <2> QED
    BY <2>1, PreloadBytes
<1> HIDE DEF P
<1>4. /\ main_data' \in Seq(Int) /\ Len(main_data') = Len(P) /\ Len(P) \in Nat
      /\ \A k \in 1..Len(P) :
           main_data'[k] = IF P[k] = Stale THEN Stale ELSE P[k] - s
  <2>1. P \in Seq(Int) /\ s \in Nat /\ Len(P) \in Nat
    BY <1>1, <1>3
  <2>2. /\ Passed(P, s) \in Seq(Int) /\ Len(Passed(P, s)) = Len(P)
        /\ \A k \in 1..Len(P) :
             Passed(P, s)[k] = IF P[k] = Stale THEN Stale ELSE P[k] - s
    BY <2>1, PassedBytes
  <2>3. main_data' = Passed(P, s)
    BY <1>2
  <2> QED
    BY <2>1, <2>2, <2>3
<1>5. ReservoirOK'
  <2>1. Len(main_data') <= MaxBegin
    BY <1>1, <1>3, <1>4
  <2>2. intact' \in Begins
    BY <1>1, <1>2
  <2> QED
    BY <2>1, <2>2, <1>2, <1>4 DEF ReservoirOK
<1>6. promised' <= Len(main_data') \/ intact' <= Len(main_data')
  <2>1. CASE nb <= s
    BY <2>1, <1>2, <1>3, <1>4
  <2>2. CASE s < nb /\ Len(P) = nb
    BY <2>2, <1>2, <1>4, <1>1
  <2>3. CASE s < nb /\ Len(P) = Len(main_data) + s
    <3>1. intact' <= intact + s
      BY <1>1, <1>2
    <3>2. CASE intact <= Len(main_data)
      BY <3>1, <3>2, <2>3, <1>1, <1>4, <1>2
    <3>3. CASE promised = b /\ promised <= Len(main_data)
      BY <3>3, <2>3, <1>1, <1>4, <1>2
    <3> QED
      BY <3>2, <3>3, <1>1
  <2> QED
    BY <2>1, <2>2, <2>3, <1>1, <1>3
<1>7. ASSUME NEW k \in 1..Len(P), k <= nb, k <= intact'
      PROVE  main_data'[Len(P) + 1 - k] = -k
  <2>1. /\ k \in Nat /\ k >= 1 /\ k <= Len(P) /\ k <= nb
        /\ intact' \in Nat /\ intact' <= intact + s /\ k <= intact'
        /\ Len(P) + 1 - k \in 1..Len(P)
    BY <1>1, <1>2, <1>4, <1>7
  <2>4. main_data'[Len(P) + 1 - k] = IF P[Len(P) + 1 - k] = Stale THEN Stale
                                     ELSE P[Len(P) + 1 - k] - s
    <3>1. \A j \in 1..Len(P) :
            main_data'[j] = IF P[j] = Stale THEN Stale ELSE P[j] - s
      BY <1>4
    <3>2. Len(P) + 1 - k \in 1..Len(P)
      BY <2>1
    <3> QED
      BY <3>1, <3>2, Zenon
  <2>2. CASE k <= s
    <3>1. P[Len(P) + 1 - k] = s - k
      BY <1>3, <2>2
    <3>2. s - k < MaxSpace /\ s - k - s = -k
      BY <1>1, <2>1
    <3> QED
      BY <3>1, <3>2, <2>4
  <2>3. CASE ~(k <= s)
    <3>1. s < nb /\ k - s \in 1..Len(main_data)
      <4>1. /\ Len(P) \in Nat /\ Len(P) <= nb
            /\ s < nb => Len(P) - s <= Len(main_data)
        BY <1>3, <1>4
      <4> QED
        BY <4>1, <2>3, <2>1, <1>1
    <3>2. promised # -1 /\ k - s <= promised /\ k - s <= intact
      BY <2>3, <2>1, <1>1
    <3>3. main_data[Len(main_data) + 1 - (k - s)] = -(k - s)
      BY <3>1, <3>2 DEF RInv, Promised
    <3>4. P[Len(P) + 1 - k] = -(k - s)
      BY <1>3, <2>3, <3>3
    <3>5. -(k - s) # MaxSpace /\ -(k - s) - s = -k
      BY <2>3, <2>1, <1>1
    <3> QED
      BY <3>4, <3>5, <2>4
  <2> QED
    BY <2>2, <2>3
<1>8. \A k \in 1..Len(main_data)' :
        Promised(k)' => main_data'[Len(main_data') + 1 - k] = -k
  BY <1>7, <1>4, <1>2 DEF Promised
<1> QED
  BY <1>5, <1>6, <1>8, <1>2, <1>1 DEF RInv

(* After a gap nothing is promised, and MainData stays within its bound.   *)
LEMMA StrayKeeps ==
  ASSUME RInv, NEW b \in Begins, NEW peek \in Begins, NEW s \in Spaces,
         StrayStep(b, s, peek)
  PROVE  RInv'
<1> DEFINE next == Next_md_begin(b, s, peek)
           P == Preload(b, s, next)
<1>1. main_data \in Seq(Int)
  BY DEF RInv, ReservoirOK
<1>2. next \in Begins /\ next <= b + s
  BY NextBegin
<1> HIDE DEF next
<1>3. P \in Seq(Int) /\ Len(P) <= next
  BY <1>1, <1>2, PreloadBytes
<1>4. main_data' = Lost(P) /\ promised' = -1 /\ intact' = 0
  BY DEF StrayStep, LayerIII, next
<1> HIDE DEF P
<1>5. main_data' \in Seq(Int) /\ Len(main_data') = Len(P) /\ Len(P) \in Nat
  BY <1>3, <1>4, LostBytes
<1>6. ReservoirOK'
  BY <1>2, <1>3, <1>4, <1>5 DEF ReservoirOK
<1> QED
  BY <1>4, <1>5, <1>6 DEF RInv, Promised

(* MainData is emptied.                                                    *)
LEMMA ForgetKeeps ==
  ASSUME main_data = <<>>, promised = -1, intact = 0
  PROVE  RInv
BY DEF RInv, ReservoirOK, Promised

(* What MainData holds is right always: in the first state, and after any  *)
(* step.                                                                   *)
THEOREM ReservoirInv == RSpec => []RInv
<1>1. RInit => RInv
  BY ForgetKeeps DEF RInit
<1>2. RInv /\ [RNext]_rvars => RInv'
  <2> SUFFICES ASSUME RInv, [RNext]_rvars PROVE RInv'
    OBVIOUS
  <2>1. CASE \E b, nb \in Begins, s \in Spaces : Frame(b, s, nb)
    BY <2>1, FrameKeeps
  <2>2. CASE \E b, peek \in Begins, s \in Spaces : StrayStep(b, s, peek)
    BY <2>2, StrayKeeps
  <2>3. CASE Forget
    BY <2>3, ForgetKeeps DEF Forget, RInv, ReservoirOK, Promised
  <2>4. CASE UNCHANGED rvars
    BY <2>4 DEF rvars, RInv, ReservoirOK, Promised
  <2> QED
    BY <2>1, <2>2, <2>3, <2>4 DEF RNext
<1> QED
  BY <1>1, <1>2, PTL DEF RSpec

(* MainData never holds more than a frame can ask for when a frame is over *)
(* (layer3.c:2677-2702).                                                   *)
THEOREM ReservoirBounded == RSpec => []ReservoirOK
<1>1. RInv => ReservoirOK
  BY DEF RInv
<1> QED
  BY <1>1, ReservoirInv, PTL

(* Whatever frame comes next, and whatever follows it, its bytes fit behind *)
(* those kept in MainData (layer3.c:2639-2645, where an assertion says so). *)
FitsMainData ==
  \A b, next \in Begins, s \in Spaces :
    next <= b + s => Len(Held(b, s, next)) <= MDLEN

THEOREM FrameFits == RSpec => []FitsMainData
<1>1. RInv => FitsMainData
  <2> SUFFICES ASSUME RInv, NEW b \in Begins, NEW next \in Begins, NEW s \in Spaces,
                      next <= b + s
               PROVE  Len(Held(b, s, next)) <= MDLEN
    BY DEF FitsMainData
  <2>1. main_data \in Seq(Int) /\ Len(main_data) <= MaxBegin
    BY DEF RInv, ReservoirOK
  <2>2. Held(b, s, next) \in Seq(Int) /\ Len(Held(b, s, next)) <= Len(main_data) + s
    BY <2>1, HeldBytes
  <2>3. Len(Held(b, s, next)) \in Nat /\ Len(main_data) \in Nat
    BY <2>1, <2>2
  <2> QED
    BY <2>1, <2>2, <2>3
<1> QED
  BY <1>1, ReservoirInv, PTL
-----------------------------------------------------------------------------
(* A frame as it was promised, within what is intact, reads its own data.  *)
LEMMA ReadsOwn ==
  ASSUME RInv, promised # Unknown, promised <= intact,
         NEW s \in Spaces, NEW next \in Begins, next <= promised + s
  PROVE  /\ promised <= Len(main_data)
         /\ Read(promised, s, next) = Own(promised, promised + s - next)
<1> DEFINE b == promised
           n == b + s - next
           u == Frame_used(b, s, next)
<1>1. /\ b \in Begins /\ b \in Nat /\ s \in Nat /\ next \in Nat /\ n \in Nat
      /\ main_data \in Seq(Int) /\ Len(main_data) \in Nat
      /\ b <= Len(main_data) /\ next <= b + s
  BY DEF RInv, ReservoirOK
<1>2. \A k \in 1..b : main_data[Len(main_data) + 1 - k] = -k
  <2> SUFFICES ASSUME NEW k \in 1..b PROVE main_data[Len(main_data) + 1 - k] = -k
    OBVIOUS
  <2>1. k \in 1..Len(main_data) /\ Promised(k)
    BY <1>1 DEF Promised, RInv, ReservoirOK
  <2> QED
    BY <2>1 DEF RInv
<1>3. /\ Fresh(s) \in Seq(Int) /\ Len(Fresh(s)) = s
      /\ \A k \in 1..s : Fresh(s)[k] = k - 1
  BY <1>1, FreshBytes
<1>4. /\ Own(b, n) \in Seq(Int) /\ Len(Own(b, n)) = n
      /\ \A k \in 1..n : Own(b, n)[k] = k - 1 - b
  BY <1>1 DEF Own
<1>5. CASE b = 0
  <2>1. Read(b, s, next) = Start(Fresh(s), n) /\ n \in 0..Len(Fresh(s))
    BY <1>5, <1>1, <1>3 DEF Read
  <2>2. /\ Start(Fresh(s), n) \in Seq(Int) /\ Len(Start(Fresh(s), n)) = n
        /\ \A k \in 1..n : Start(Fresh(s), n)[k] = Fresh(s)[k]
    BY <2>1, <1>3, StartBytes
  <2>3. \A k \in 1..n : Start(Fresh(s), n)[k] = k - 1 - b
    BY <2>2, <1>3, <1>5, <1>1
  <2> QED
    BY <2>1, <2>2, <2>3, <1>1, <1>4
<1>6. CASE b # 0
  <2>1. /\ u \in 0..s /\ n <= b + u
    <3>1. u = IF b > Len(main_data) \/ n <= b THEN 0 ELSE n - b
      BY <1>6, <1>1 DEF Frame_used
    <3> QED
      BY <3>1, <1>1
  <2> DEFINE E == End(main_data, b)
             F == Start(Fresh(s), u)
  <2>2. /\ E \in Seq(Int) /\ Len(E) = b
        /\ \A k \in 1..b : E[k] = main_data[Len(main_data) - b + k]
    <3>1. b \in 0..Len(main_data)
      BY <1>1
    <3> QED
      BY <1>1, <3>1, EndBytes
  <2>3. \A k \in 1..b : E[k] = k - 1 - b
    <3> SUFFICES ASSUME NEW k \in 1..b PROVE E[k] = k - 1 - b
      OBVIOUS
    <3>1. /\ b + 1 - k \in 1..b
          /\ Len(main_data) + 1 - (b + 1 - k) = Len(main_data) - b + k
          /\ -(b + 1 - k) = k - 1 - b
      BY <1>1
    <3>2. main_data[Len(main_data) + 1 - (b + 1 - k)] = -(b + 1 - k)
      BY <1>2, <3>1
    <3> QED
      BY <2>2, <3>1, <3>2
  <2>4. /\ F \in Seq(Int) /\ Len(F) = u
        /\ \A k \in 1..u : F[k] = k - 1
    <3>1. u \in 0..Len(Fresh(s))
      BY <2>1, <1>3
    <3>2. /\ F \in Seq(Int) /\ Len(F) = u /\ \A k \in 1..u : F[k] = Fresh(s)[k]
      BY <1>3, <3>1, StartBytes
    <3>3. \A k \in 1..u : k \in 1..s
      BY <2>1, <1>1
    <3> QED
      BY <3>2, <3>3, <1>3
  <2>5. Read(b, s, next) = Start(E \o F, n)
    BY <1>6 DEF Read
  <2> HIDE DEF E, F, u
  <2>6. /\ E \o F \in Seq(Int) /\ Len(E \o F) = b + u
        /\ \A k \in 1..b : (E \o F)[k] = E[k]
        /\ \A k \in 1..u : (E \o F)[b + k] = F[k]
    BY <2>2, <2>4, Concat
  <2>7. /\ Start(E \o F, n) \in Seq(Int) /\ Len(Start(E \o F, n)) = n
        /\ \A k \in 1..n : Start(E \o F, n)[k] = (E \o F)[k]
    <3>1. n \in 0..Len(E \o F)
      BY <2>1, <2>6, <1>1
    <3> QED
      BY <2>6, <3>1, StartBytes
  <2>8. ASSUME NEW k \in 1..n PROVE (E \o F)[k] = k - 1 - b
    <3>1. CASE k <= b
      <4>1. k \in 1..b
        BY <3>1, <1>1
      <4>2. (E \o F)[k] = E[k] /\ E[k] = k - 1 - b
        BY <4>1, <2>3, <2>6
      <4> QED
        BY <4>2
    <3>2. CASE ~(k <= b)
      <4>1. k - b \in 1..u /\ b + (k - b) = k
        BY <3>2, <2>1, <1>1
      <4>2. ASSUME NEW j \in 1..u, b + j = k PROVE (E \o F)[k] = k - 1 - b
        <5>1. (E \o F)[b + j] = F[j] /\ F[j] = j - 1
          BY <2>6, <2>4
        <5>2. j - 1 = k - 1 - b
          BY <4>2, <2>1, <1>1
        <5> QED
          BY <5>1, <5>2, <4>2
      <4> QED
        BY <4>1, <4>2
    <3> QED
      BY <3>1, <3>2, <1>1
  <2>9. \A k \in 1..n : Start(E \o F, n)[k] = Own(b, n)[k]
    BY <2>7, <2>8, <1>4
  <2> QED
    BY <2>5, <2>7, <2>9, <1>1, <1>4
<1> QED
  BY <1>5, <1>6

(* A frame whose data began no further back than the last gap is decoded   *)
(* from its own data, whatever came before it and whatever follows         *)
(* (layer3.c:2621-2647, 2677-2701).                                        *)
THEOREM FramesReadOwnData == RSpec => []OwnData
<1>1. RInv => OwnData
  <2> SUFFICES ASSUME RInv, promised # Unknown, promised <= intact
               PROVE  /\ promised <= Len(main_data)
                      /\ \A s \in Spaces, next \in Begins :
                           next <= promised + s =>
                             Read(promised, s, next) = Own(promised, promised + s - next)
    BY DEF OwnData
  <2>1. promised <= Len(main_data)
    BY DEF RInv, ReservoirOK
  <2> QED
    BY <2>1, ReadsOwn
<1> QED
  BY <1>1, ReservoirInv, PTL
-----------------------------------------------------------------------------
(* The cells in readBuf carry what their encoder knew: a frame that follows *)
(* another says no more than that one leaves room for, and so will the next *)
(* one to be fetched.                                                       *)
IsFrame(k) == ahead[k].kind = "frame"
NoFrame(j, k) == \A m \in 1..Len(ahead) : j < m /\ m < k => ~IsFrame(m)
LeavesRoom(j) == ahead[j].begin + ahead[j].len - HEADER

Chained ==
  \A j, k \in 1..Len(ahead) :
    j < k /\ IsFrame(j) /\ IsFrame(k) /\ ahead[k].follows /\ NoFrame(j, k)
      => ahead[k].begin <= LeavesRoom(j)

LastChained ==
  \A j \in 1..Len(ahead) :
    IsFrame(j) /\ NoFrame(j, Len(ahead) + 1) => reach <= LeavesRoom(j)

SInv == StreamOK /\ Chained /\ LastChained /\ WedgeNeedsLongHeader

\* What the header behind the last frame said is what the next frame says.
PromiseKept == promised # Unknown => OnFrame /\ ahead[1].begin = promised

Same == OnFrame' /\ ahead'[1] = ahead[1]

(* What the cells are.                                                     *)
LEMMA CellTypes ==
  ASSUME NEW c \in Cells
  PROVE  /\ c.kind \in {"frame", "false", "other", "bad", "body", "junk"}
         /\ c.kind = "frame" => c.len \in FrameLens /\ c.begin \in MainBegins
         /\ c.kind = "false" => c.len \in FalseLens /\ c.begin \in MainBegins
         /\ c.kind = "other" => c.len \in FalseLens
         /\ c.kind = "bad" => c.len = 0
BY DEF Cells, Frames, FalseHeaders, Plain, Cell

(* The numbers in a frame's first cell.                                    *)
LEMMA FrameNumbers ==
  ASSUME NEW c \in Cells, c.kind = "frame"
  PROVE  c.len \in Nat /\ c.begin \in Nat
<1>1. c.len \in FrameLens /\ c.begin \in MainBegins
  BY CellTypes
<1> QED
  BY <1>1, StreamAssumption

(* One more cell from the fifo.                                            *)
LEMMA Appended ==
  ASSUME SInv, NEW c \in Cells, Fetch(c)
  PROVE  /\ ahead' \in Seq(Cells) /\ Len(ahead) \in Nat
         /\ Len(ahead') = Len(ahead) + 1 /\ Len(ahead') <= READBUFSZ
         /\ ahead'[Len(ahead) + 1] = c
         /\ \A k \in 1..Len(ahead) : ahead'[k] = ahead[k]
         /\ sync' \in {0, 1}
         /\ mode = "refill"
         /\ \/ mode' = "decode" /\ sync' = 1
            \/ mode' = "refill" /\ Len(ahead') # READBUFSZ
BY StreamAssumption DEF SInv, StreamOK, Fetch

(* Cells given up at the front.                                            *)
LEMMA Dropped ==
  ASSUME SInv, NEW n \in 0..Len(ahead), Drop(n)
  PROVE  /\ ahead' \in Seq(Cells) /\ Len(ahead) \in Nat
         /\ Len(ahead') = Len(ahead) - n /\ Len(ahead') <= READBUFSZ
         /\ \A k \in 1..Len(ahead') : ahead'[k] = ahead[k + n]
<1>1. ahead \in Seq(Cells) /\ Len(ahead) \in Nat /\ Len(ahead) <= READBUFSZ
  BY DEF SInv, StreamOK
<1>2. ahead' = SubSeq(ahead, n + 1, Len(ahead))
  BY DEF Drop
<1> QED
  BY <1>1, <1>2, StreamAssumption

(* A cell from the fifo that knows no more than the ones before it allow.  *)
LEMMA FetchKeeps ==
  ASSUME SInv, NEW c \in Cells, Fetch(c),
         reach' \in Nat \cup {-1},
         c.kind = "frame" => /\ c.follows => c.begin <= reach
                             /\ reach' = c.begin + c.len - HEADER,
         c.kind # "frame" => reach' <= reach,
         rest' = 0 \/ \E n \in FrameLens : rest' \in 1..n - 1
  PROVE  SInv' /\ (OnFrame => Same)
<1> PICK l \in Nat : l = Len(ahead)
  BY Appended
<1>1. /\ ahead' \in Seq(Cells) /\ l = Len(ahead)
      /\ Len(ahead') = l + 1 /\ Len(ahead') <= READBUFSZ
      /\ ahead'[l + 1] = c
      /\ \A k \in 1..l : ahead'[k] = ahead[k]
      /\ sync' \in {0, 1} /\ mode = "refill"
      /\ \/ mode' = "decode" /\ sync' = 1
         \/ mode' = "refill" /\ Len(ahead') # READBUFSZ
  BY Appended
<1>2. \A k \in 1..l : ahead[k] \in Cells
  BY DEF SInv, StreamOK
<1>3. reach \in Int /\ reach' \in Int /\ HEADER \in Int
  BY StreamAssumption DEF SInv, StreamOK
<1>4. \A k \in 1..l : IsFrame(k) => LeavesRoom(k) \in Int
  <2> SUFFICES ASSUME NEW k \in 1..l, IsFrame(k) PROVE LeavesRoom(k) \in Int
    OBVIOUS
  <2>1. ahead[k].len \in Nat /\ ahead[k].begin \in Nat
    BY <1>2, FrameNumbers DEF IsFrame
  <2> QED
    BY <2>1, <1>3 DEF LeavesRoom
<1>5. c.kind = "frame" => c.begin + c.len - HEADER \in Int /\ c.begin \in Int
  BY <1>3, FrameNumbers
<1>6. \A k \in 1..l : /\ IsFrame(k)' <=> IsFrame(k)
                       /\ LeavesRoom(k)' = LeavesRoom(k)
  BY <1>1 DEF IsFrame, LeavesRoom
<1>7. IsFrame(l + 1)' <=> c.kind = "frame"
  BY <1>1 DEF IsFrame
<1>8. LeavesRoom(l + 1)' = c.begin + c.len - HEADER
  BY <1>1 DEF LeavesRoom
<1>9. ASSUME NEW j \in Int, NEW k \in Int, NoFrame(j, k)'
      PROVE  NoFrame(j, k)
  <2> SUFFICES ASSUME NEW m \in 1..l, j < m, m < k PROVE ~IsFrame(m)
    BY DEF NoFrame
  <2>1. m \in 1..Len(ahead')
    BY <1>1
  <2> QED
    BY <2>1, <1>1, <1>9 DEF NoFrame, IsFrame
<1>10. StreamOK'
  BY <1>1, StreamAssumption DEF StreamOK
<1>11. ASSUME NEW j \in 1..Len(ahead'), NEW k \in 1..Len(ahead'),
              j < k, IsFrame(j)', IsFrame(k)', ahead'[k].follows, NoFrame(j, k)'
       PROVE  ahead'[k].begin <= LeavesRoom(j)'
  <2>1. j \in 1..l /\ k \in 1..l + 1
    BY <1>1, <1>11
  <2>2. CASE k \in 1..l
    <3>1. /\ IsFrame(j) /\ IsFrame(k) /\ ahead[k].follows /\ NoFrame(j, k)
          /\ k \in 1..Len(ahead) /\ j \in 1..Len(ahead)
      BY <2>1, <2>2, <1>1, <1>6, <1>9, <1>11
    <3>2. ahead[k].begin <= LeavesRoom(j)
      BY <3>1, <1>11 DEF SInv, Chained
    <3> QED
      BY <3>2, <2>1, <2>2, <1>1 DEF LeavesRoom
  <2>3. CASE k = l + 1
    <3>1. reach <= LeavesRoom(j)
      BY <2>1, <2>3, <1>6, <1>9, <1>11 DEF SInv, LastChained
    <3>2. c.begin <= reach
      BY <2>3, <1>1, <1>7, <1>11
    <3>3. LeavesRoom(j)' = LeavesRoom(j) /\ LeavesRoom(j) \in Int /\ c.begin \in Int
      BY <2>1, <2>3, <1>4, <1>5, <1>6, <1>7, <1>11
    <3> QED
      BY <3>1, <3>2, <3>3, <2>3, <1>1, <1>3
  <2> QED
    BY <2>1, <2>2, <2>3, <1>1
<1>12. ASSUME NEW j \in 1..Len(ahead'), IsFrame(j)', NoFrame(j, Len(ahead) + 1)',
              \A m \in 1..Len(ahead') : j < m => ~IsFrame(m)'
       PROVE  reach' <= LeavesRoom(j)'
  <2>1. CASE j = l + 1
    BY <2>1, <1>3, <1>5, <1>7, <1>8, <1>12
  <2>2. CASE j \in 1..l
    <3>1. c.kind # "frame"
      BY <2>2, <1>1, <1>7, <1>12
    <3>2. NoFrame(j, l + 1)
      <4> SUFFICES ASSUME NEW m \in 1..l, j < m PROVE ~IsFrame(m)
        BY DEF NoFrame
      <4>1. m \in 1..Len(ahead')
        BY <1>1
      <4> QED
        BY <4>1, <1>1, <1>12 DEF IsFrame
    <3>3. reach <= LeavesRoom(j)
      BY <3>2, <2>2, <1>6, <1>12 DEF SInv, LastChained
    <3>4. LeavesRoom(j) \in Int /\ LeavesRoom(j)' = LeavesRoom(j)
      BY <2>2, <1>4, <1>6, <1>12
    <3> QED
      BY <3>1, <3>3, <3>4, <1>3
  <2> QED
    BY <2>1, <2>2, <1>1
<1>13. Chained'
  BY <1>11 DEF Chained
<1>14. LastChained'
  <2>1. \A j \in 1..Len(ahead') :
          NoFrame(j, Len(ahead) + 1)'
            => \A m \in 1..Len(ahead') : j < m => ~IsFrame(m)'
    BY <1>1 DEF NoFrame
  <2> QED
    BY <2>1, <1>12 DEF LastChained
<1>15. WedgeNeedsLongHeader'
  BY <1>1 DEF WedgeNeedsLongHeader
<1>16. OnFrame => Same
  BY <1>1 DEF OnFrame, Same
<1> QED
  BY <1>10, <1>13, <1>14, <1>15, <1>16 DEF SInv

(* What is behind the cells given up stays as it was.                      *)
LEMMA DropKeeps ==
  ASSUME SInv, NEW n \in 0..Len(ahead), Drop(n), UNCHANGED <<rest, reach>>,
         sync' \in {0, 1}, mode' \in {"decode", "refill", "crashed"}
  PROVE  StreamOK' /\ Chained' /\ LastChained'
<1>1. /\ ahead' \in Seq(Cells) /\ Len(ahead) \in Nat /\ n \in Nat
      /\ Len(ahead') = Len(ahead) - n /\ Len(ahead') <= READBUFSZ
      /\ \A k \in 1..Len(ahead') : k + n \in 1..Len(ahead) /\ ahead'[k] = ahead[k + n]
  <2>1. /\ ahead' \in Seq(Cells) /\ Len(ahead) \in Nat
        /\ Len(ahead') = Len(ahead) - n /\ Len(ahead') <= READBUFSZ
        /\ \A k \in 1..Len(ahead') : ahead'[k] = ahead[k + n]
    BY Dropped
  <2>2. n \in Nat /\ \A k \in 1..Len(ahead') : k + n \in 1..Len(ahead)
    BY <2>1
  <2> QED
    BY <2>1, <2>2
<1>2. StreamOK'
  BY <1>1 DEF SInv, StreamOK
<1>3. \A k \in 1..Len(ahead') : /\ IsFrame(k)' <=> IsFrame(k + n)
                                /\ LeavesRoom(k)' = LeavesRoom(k + n)
  BY <1>1 DEF IsFrame, LeavesRoom
<1>4. \A j, k \in 1..Len(ahead') + 1 : NoFrame(j, k)' => NoFrame(j + n, k + n)
  <2> SUFFICES ASSUME NEW j \in 1..Len(ahead') + 1, NEW k \in 1..Len(ahead') + 1,
                      NoFrame(j, k)',
                      NEW m \in 1..Len(ahead), j + n < m, m < k + n
               PROVE  ~IsFrame(m)
    BY DEF NoFrame
  <2>1. m - n \in 1..Len(ahead') /\ j < m - n /\ m - n < k /\ (m - n) + n = m
    BY <1>1
  <2> QED
    BY <2>1, <1>3 DEF NoFrame
<1>5. Chained'
  <2> SUFFICES ASSUME NEW j \in 1..Len(ahead'), NEW k \in 1..Len(ahead'),
                      j < k, IsFrame(j)', IsFrame(k)', ahead'[k].follows, NoFrame(j, k)'
               PROVE  ahead'[k].begin <= LeavesRoom(j)'
    BY DEF Chained
  <2>1. /\ j + n \in 1..Len(ahead) /\ k + n \in 1..Len(ahead) /\ j + n < k + n
        /\ NoFrame(j + n, k + n)
    BY <1>1, <1>4
  <2>2. ahead[k + n].begin <= LeavesRoom(j + n)
    BY <2>1, <1>1, <1>3 DEF SInv, Chained
  <2> QED
    BY <2>2, <1>1, <1>3
<1>6. LastChained'
  <2> SUFFICES ASSUME NEW j \in 1..Len(ahead'), IsFrame(j)',
                      NoFrame(j, Len(ahead) + 1)'
               PROVE  reach' <= LeavesRoom(j)'
    BY DEF LastChained
  <2>1. NoFrame(j + n, Len(ahead) + 1)
    <3> SUFFICES ASSUME NEW m \in 1..Len(ahead), j + n < m PROVE ~IsFrame(m)
      BY DEF NoFrame
    <3>1. /\ m - n \in 1..Len(ahead') /\ j < m - n /\ m - n < Len(ahead') + 1
          /\ (m - n) + n = m
      BY <1>1
    <3> QED
      BY <3>1, <1>3 DEF NoFrame
  <2>2. j + n \in 1..Len(ahead) /\ reach <= LeavesRoom(j + n)
    BY <2>1, <1>1, <1>3 DEF SInv, LastChained
  <2> QED
    BY <2>2, <1>3
<1> QED
  BY <1>2, <1>5, <1>6

(* Each byte that input takes from the fifo, whatever the stream is.       *)
LEMMA SourceKeeps ==
  ASSUME SInv, Source
  PROVE  SInv' /\ (OnFrame => Same)
<1>1. /\ reach \in Nat \cup {-1}
      /\ rest = 0 \/ \E n \in FrameLens : rest \in 1..n - 1
  BY DEF SInv, StreamOK
<1>2. \A c \in FalseHeaders \cup {Plain("body"), Plain("junk")} :
        c \in Cells /\ c.kind # "frame"
  BY DEF Cells, FalseHeaders, Plain, Cell
<1>3. ASSUME NEW n \in FrameLens, NEW b \in MainBegins, NEW follows \in BOOLEAN,
             StartFrame(n, b, follows), follows => b <= reach
      PROVE  SInv' /\ (OnFrame => Same)
  <2> DEFINE c == Cell("frame", n, b, follows)
  <2>1. /\ c \in Cells /\ c.kind = "frame" /\ c.len = n /\ c.begin = b
        /\ c.follows = follows
    BY DEF Cells, Frames, Cell
  <2>2. n \in Nat /\ b \in Nat /\ n >= HEADER /\ HEADER \in Nat \ {0}
    BY StreamAssumption
  <2>3. reach' \in Nat /\ reach' = b + n - HEADER
    BY <2>2, <1>3 DEF StartFrame
  <2>4. rest' = n - 1 /\ (rest' = 0 \/ rest' \in 1..n - 1)
    BY <2>2, <1>3 DEF StartFrame
  <2>5. Fetch(c)
    BY <1>3 DEF StartFrame
  <2> HIDE DEF c
  <2> QED
    BY <2>1, <2>3, <2>4, <2>5, <1>3, FetchKeeps
<1>4. CASE FetchBody
  <2>1. PICK c \in FalseHeaders \cup {Plain("body")} : Fetch(c)
    BY <1>4 DEF FetchBody
  <2>2. rest' = 0 \/ \E n \in FrameLens : rest' \in 1..n - 1
    <3>1. rest > 0 /\ rest' = rest - 1
      BY <1>4 DEF FetchBody
    <3>2. PICK n \in FrameLens : rest \in 1..n - 1
      BY <3>1, <1>1
    <3> QED
      BY <3>1, <3>2, StreamAssumption
  <2>3. reach' \in Nat \cup {-1} /\ reach' <= reach
    BY <1>1, <1>4 DEF FetchBody
  <2> QED
    BY <2>1, <2>2, <2>3, <1>2, FetchKeeps
<1>5. CASE FetchFrame
  BY <1>3, <1>5 DEF FetchFrame
<1>6. CASE FetchStream
  BY <1>3, <1>6 DEF FetchStream
<1>7. CASE FetchJunk
  <2>1. PICK c \in FalseHeaders \cup {Plain("junk")} : Fetch(c)
    BY <1>7 DEF FetchJunk
  <2>2. rest' = 0 /\ reach' = -1 /\ reach' <= reach
    BY <1>1, <1>7 DEF FetchJunk
  <2> QED
    BY <2>1, <2>2, <1>2, FetchKeeps
<1> QED
  BY <1>4, <1>5, <1>6, <1>7 DEF Source

(* A header is found inside readBuf, and in its place if one is there.     *)
LEMMA HeaderPlace ==
  ASSUME SInv, NEW p \in 1..Len(ahead), HeaderAt(p)
  PROVE  /\ ahead[p] \in Cells /\ IsSync(ahead[p]) /\ mode = "decode"
         /\ OnFrame => p = 1
<1>1. ahead[p] \in Cells
  BY DEF SInv, StreamOK
<1>2. IsSync(ahead[p]) /\ mode = "decode" /\ p \in Candidates
  BY DEF HeaderAt, Found
<1>3. OnFrame => p = 1
  BY <1>2 DEF OnFrame, Candidates
<1> QED
  BY <1>1, <1>2, <1>3

(* Cells given up without a frame, and without the frame in its place.     *)
LEMMA SyncKeeps ==
  ASSUME SInv, Sync
  PROVE  SInv' /\ (OnFrame => Same)
<1>1. Len(ahead) \in Nat /\ Len(ahead) <= READBUFSZ /\ sync \in {0, 1}
  BY DEF SInv, StreamOK
<1>2. GUARD \in Nat \ {0} /\ READBUFSZ \in Nat /\ READBUFSZ > GUARD
  BY StreamAssumption
<1>3. ASSUME NEW n \in 0..Len(ahead), Buflen(n),
             Len(ahead) - n = READBUFSZ =>
               IsSync(ahead[1]) /\ ahead[1].len + GUARD > READBUFSZ,
             OnFrame => n = 0
      PROVE  SInv' /\ (OnFrame => Same)
  <2>1. /\ Drop(n) /\ sync' = 0 /\ mode' = "refill" /\ UNCHANGED <<rest, reach>>
    BY <1>3 DEF Buflen
  <2>2. StreamOK' /\ Chained' /\ LastChained'
    BY <2>1, DropKeeps
  <2>3. /\ Len(ahead') = Len(ahead) - n
        /\ \A k \in 1..Len(ahead') : ahead'[k] = ahead[k + n]
    BY <2>1, Dropped
  <2>4. WedgeNeedsLongHeader'
    <3> SUFFICES ASSUME Len(ahead') = READBUFSZ
                 PROVE  IsSync(ahead'[1]) /\ ahead'[1].len + GUARD > READBUFSZ
      BY DEF WedgeNeedsLongHeader, IsSync
    <3>1. n = 0 /\ Len(ahead) - n = READBUFSZ /\ 1 \in 1..Len(ahead')
      BY <2>3, <1>1, <1>2
    <3>2. ahead'[1] = ahead[1]
      BY <3>1, <2>3
    <3> QED
      BY <3>1, <3>2, <1>3
  <2>5. OnFrame => Same
    BY <2>1, <2>3, <1>1, <1>3 DEF OnFrame, Same
  <2> QED
    BY <2>2, <2>4, <2>5 DEF SInv
<1>4. ASSUME NEW n \in 0..Len(ahead), Recover(n), mode = "decode", ~OnFrame
      PROVE  SInv' /\ (OnFrame => Same)
  <2>1. /\ Drop(n) /\ sync' = 0 /\ mode' = "decode" /\ UNCHANGED <<rest, reach>>
    BY <1>4 DEF Recover
  <2>2. StreamOK' /\ Chained' /\ LastChained'
    BY <2>1, DropKeeps
  <2>3. WedgeNeedsLongHeader'
    BY <2>1 DEF WedgeNeedsLongHeader
  <2> QED
    BY <2>2, <2>3, <1>4 DEF SInv
<1>5. CASE OutOfSight
  <2>1. CASE sync = 1 /\ Len(ahead) < GUARD /\ Buflen(0)
    BY <2>1, <1>1, <1>2, <1>3
  <2>2. CASE sync = 0 /\ Found = {} /\ Buflen(Max({Len(ahead) - GUARD, 0}))
    <3> DEFINE n == Max({Len(ahead) - GUARD, 0})
    <3>1. n = IF Len(ahead) - GUARD >= 0 THEN Len(ahead) - GUARD ELSE 0
      BY <1>1, <1>2 DEF Max
    <3>2. ~OnFrame
      BY <2>2, <1>5 DEF OnFrame, OutOfSight
    <3>3. Buflen(n)
      BY <2>2
    <3> HIDE DEF n
    <3>4. n \in 0..Len(ahead) /\ Len(ahead) - n # READBUFSZ
      BY <3>1, <1>1, <1>2
    <3> QED
      BY <3>2, <3>3, <3>4, <1>3
  <2> QED
    BY <2>1, <2>2, <1>5 DEF OutOfSight
<1>6. CASE LoseSync
  <2>1. Recover(1) /\ mode = "decode" /\ Len(ahead) >= GUARD /\ ~IsSync(ahead[1])
    BY <1>6 DEF LoseSync
  <2>2. 1 \in 0..Len(ahead) /\ ~OnFrame
    BY <2>1, <1>1, <1>2 DEF OnFrame, IsSync
  <2> QED
    BY <2>1, <2>2, <1>4
<1>7. CASE BadHeader
  <2>1. PICK p \in 1..Len(ahead) : HeaderAt(p) /\ ahead[p].kind = "bad" /\ Recover(p)
    BY <1>7 DEF BadHeader
  <2>2. mode = "decode" /\ (OnFrame => p = 1)
    BY <2>1, HeaderPlace
  <2>3. p \in 0..Len(ahead) /\ ~OnFrame
    BY <2>1, <2>2, <1>1 DEF OnFrame
  <2> QED
    BY <2>1, <2>2, <2>3, <1>4
<1>8. ASSUME NEW p \in 1..Len(ahead), CutOff(p)
      PROVE  SInv' /\ (OnFrame => Same)
  <2>1. /\ HeaderAt(p) /\ ahead[p].kind # "bad" /\ Buflen(p - 1)
        /\ ~(ahead[p].len + GUARD <= Len(ahead) - p + 1)
    BY <1>8 DEF CutOff, Fits, Left
  <2>2. ahead[p] \in Cells /\ IsSync(ahead[p]) /\ (OnFrame => p = 1)
    BY <2>1, HeaderPlace
  <2>3. ahead[p].len \in Nat
    BY <2>1, <2>2, CellTypes, StreamAssumption DEF IsSync
  <2>4. p - 1 \in 0..Len(ahead) /\ (OnFrame => p - 1 = 0)
    BY <2>2, <1>1
  <2>5. Len(ahead) - (p - 1) = READBUFSZ =>
          IsSync(ahead[1]) /\ ahead[1].len + GUARD > READBUFSZ
    <3> SUFFICES ASSUME Len(ahead) - (p - 1) = READBUFSZ
                 PROVE  IsSync(ahead[1]) /\ ahead[1].len + GUARD > READBUFSZ
      OBVIOUS
    <3>1. p = 1 /\ Len(ahead) = READBUFSZ
      BY <1>1, <1>2
    <3> QED
      BY <3>1, <2>1, <2>2, <2>3, <1>1, <1>2
  <2> QED
    BY <2>1, <2>4, <2>5, <1>3
<1> QED
  BY <1>5, <1>6, <1>7, <1>8 DEF Sync

(* A frame that goes to decoder_table: what is behind it stays, and a true *)
(* frame in its place is the one that goes.                                *)
LEMMA TakeKeeps ==
  ASSUME SInv, NEW p \in 1..Len(ahead), TakeFrame(p)
  PROVE  /\ SInv' /\ (OnFrame => p = 1)
         /\ ahead[p] \in Cells /\ ahead[p].len \in Nat
         /\ ahead[p].len + GUARD <= READBUFSZ
         /\ p + ahead[p].len \in 1..Len(ahead)
         /\ ahead[p + ahead[p].len] \in Cells
         /\ Len(ahead') > 0 /\ ahead'[1] = ahead[p + ahead[p].len]
         /\ sync' = 1
         /\ mode' = IF ahead[p].kind = "other" THEN "crashed" ELSE "decode"
<1>1. /\ HeaderAt(p) /\ ahead[p].kind # "bad"
      /\ ahead[p].len + GUARD <= Len(ahead) - p + 1
      /\ Drop(p - 1 + ahead[p].len) /\ sync' = 1
      /\ mode' = IF ahead[p].kind = "other" THEN "crashed" ELSE mode
      /\ UNCHANGED <<rest, reach>>
  BY DEF TakeFrame, Fits, Left
<1>2. /\ Len(ahead) \in Nat /\ Len(ahead) <= READBUFSZ
      /\ \A k \in 1..Len(ahead) : ahead[k] \in Cells
  BY DEF SInv, StreamOK
<1>3. /\ ahead[p] \in Cells /\ IsSync(ahead[p]) /\ mode = "decode"
      /\ OnFrame => p = 1
  BY <1>1, HeaderPlace
<1>4. ahead[p].len \in Nat
  BY <1>1, <1>3, CellTypes, StreamAssumption DEF IsSync
<1>5. PICK n \in Nat : n = p - 1 + ahead[p].len
  BY <1>4
<1>6. GUARD \in Nat \ {0} /\ READBUFSZ \in Nat
  BY StreamAssumption
<1>7. /\ n \in 0..Len(ahead) /\ Len(ahead) - n > 0 /\ 1 + n = p + ahead[p].len
      /\ p + ahead[p].len \in 1..Len(ahead)
      /\ ahead[p].len + GUARD <= READBUFSZ
  <2>1. PICK l \in Nat, len \in Nat : l = Len(ahead) /\ len = ahead[p].len
    BY <1>2, <1>4
  <2>2. p \in 1..l /\ len + GUARD <= l - p + 1 /\ l <= READBUFSZ /\ n = p - 1 + len
    BY <2>1, <1>1, <1>2, <1>5
  <2>3. /\ n \in 0..l /\ l - n > 0 /\ 1 + n = p + len /\ p + len \in 1..l
        /\ len + GUARD <= READBUFSZ
    BY <2>1, <2>2, <1>6
  <2> QED
    BY <2>1, <2>3
<1>8. /\ sync' \in {0, 1} /\ mode' \in {"decode", "crashed"}
      /\ mode' = IF ahead[p].kind = "other" THEN "crashed" ELSE "decode"
  BY <1>1, <1>3
<1>9. Drop(n)
  BY <1>1, <1>5
<1>10. StreamOK' /\ Chained' /\ LastChained'
  BY <1>1, <1>7, <1>8, <1>9, DropKeeps
<1>11. WedgeNeedsLongHeader'
  BY <1>8 DEF WedgeNeedsLongHeader
<1>12. /\ Len(ahead') = Len(ahead) - n
       /\ \A k \in 1..Len(ahead') : ahead'[k] = ahead[k + n]
  BY <1>7, <1>9, Dropped
<1>13. Len(ahead') > 0 /\ ahead'[1] = ahead[p + ahead[p].len]
  BY <1>2, <1>7, <1>12
<1> QED
  BY <1>1, <1>2, <1>3, <1>4, <1>7, <1>8, <1>10, <1>11, <1>13 DEF SInv

(* input with readBuf full, and the chip starting again.                   *)
LEMMA OthersKeep ==
  ASSUME SInv
  PROVE  /\ InputFull => SInv' /\ (OnFrame => Same)
         /\ Restart => SInv' /\ ~OnFrame
<1>1. ASSUME InputFull PROVE SInv' /\ (OnFrame => Same)
  <2>1. /\ mode = "refill" /\ sync' = 1 /\ mode' = "decode"
        /\ UNCHANGED <<ahead, rest, reach>>
    BY <1>1 DEF InputFull
  <2>2. StreamOK'
    BY <2>1 DEF SInv, StreamOK
  <2>3. Chained' /\ LastChained'
    BY <2>1 DEF SInv, Chained, LastChained, IsFrame, NoFrame, LeavesRoom
  <2>4. WedgeNeedsLongHeader'
    BY <2>1 DEF WedgeNeedsLongHeader
  <2>5. OnFrame => Same
    BY <2>1 DEF OnFrame, Same
  <2> QED
    BY <2>2, <2>3, <2>4, <2>5 DEF SInv
<1>2. ASSUME Restart PROVE SInv' /\ ~OnFrame
  <2>1. /\ mode = "crashed" /\ ahead' = <<>> /\ sync' = 0 /\ mode' = "refill"
        /\ rest' = 0 /\ reach' = -1
    BY <1>2 DEF Restart
  <2>2. READBUFSZ \in Nat \ {0} /\ ahead' \in Seq(Cells) /\ Len(ahead') = 0
    BY <2>1, StreamAssumption
  <2>3. StreamOK' /\ WedgeNeedsLongHeader'
    BY <2>1, <2>2 DEF StreamOK, WedgeNeedsLongHeader
  <2>4. Chained' /\ LastChained'
    BY <2>2 DEF Chained, LastChained
  <2> QED
    BY <2>1, <2>3, <2>4 DEF SInv, OnFrame
<1> QED
  BY <1>1, <1>2

(* Nothing happens.                                                        *)
LEMMA StutterKeeps ==
  ASSUME SInv, UNCHANGED svars
  PROVE  SInv' /\ (OnFrame => Same)
<1>1. StreamOK' /\ Chained' /\ LastChained' /\ WedgeNeedsLongHeader'
  BY DEF SInv, svars, StreamOK, Chained, LastChained, IsFrame, NoFrame, LeavesRoom,
         WedgeNeedsLongHeader, IsSync
<1>2. OnFrame => Same
  BY DEF svars, OnFrame, Same
<1> QED
  BY <1>1, <1>2 DEF SInv
-----------------------------------------------------------------------------
\* A frame, or what is taken for one, goes to decoder_table.
Taken(p) == GoodFrame(p) \/ StrayFrame(p) \/ ShortFrame(p) \/ NullDecoder(p)

(* The bytes of main data a frame in readBuf can have.                     *)
LEMMA MainDataSize ==
  ASSUME SInv, NEW p \in 1..Len(ahead), TakeFrame(p),
         ahead[p].kind \in {"frame", "false"}, ahead[p].len >= HEADER
  PROVE  ahead[p].len - HEADER \in Spaces /\ ahead[p].begin \in Begins
<1>1. /\ ahead[p] \in Cells /\ ahead[p].len \in Nat
      /\ ahead[p].len + GUARD <= READBUFSZ
  BY TakeKeeps
<1>2. ahead[p].len \in FrameLens \cup FalseLens /\ ahead[p].begin \in MainBegins
  BY <1>1, CellTypes
<1> QED
  BY <1>1, <1>2, DecoderAssumption, StreamAssumption

(* How a frame the encoder meant looks to the reservoir.                   *)
LEMMA GoodFrameIsFrame ==
  ASSUME SInv, PromiseKept, NEW p \in 1..Len(ahead), GoodFrame(p)
  PROVE  /\ \E b, nb \in Begins, s \in Spaces : Frame(b, s, nb)
         /\ PromiseKept'
<1> DEFINE next == ahead[p + ahead[p].len]
<1>1. /\ TakeFrame(p) /\ IsFrame(p) /\ next.kind = "frame" /\ next.follows
      /\ \A k \in p + 1..p + ahead[p].len - 1 : ahead[k].kind # "frame"
      /\ FrameStep(ahead[p].begin, ahead[p].len - HEADER, next.begin)
  BY DEF GoodFrame, Whole, IsFrame
<1>2. /\ OnFrame => p = 1
      /\ ahead[p] \in Cells /\ next \in Cells
      /\ p + ahead[p].len \in 1..Len(ahead)
      /\ Len(ahead') > 0 /\ ahead'[1] = next /\ sync' = 1
      /\ mode' = IF ahead[p].kind = "other" THEN "crashed" ELSE "decode"
  BY <1>1, TakeKeeps
<1> HIDE DEF next
<1>3. /\ ahead[p].len \in Nat /\ ahead[p].len >= HEADER /\ HEADER \in Nat \ {0}
      /\ next.begin \in Begins
  BY <1>1, <1>2, CellTypes, StreamAssumption, DecoderAssumption DEF IsFrame
<1>4. ahead[p].len - HEADER \in Spaces /\ ahead[p].begin \in Begins
  BY <1>1, <1>3, MainDataSize DEF IsFrame
<1>5. next.begin <= LeavesRoom(p)
  <2>1. p < p + ahead[p].len
    BY <1>3
  <2>2. NoFrame(p, p + ahead[p].len)
    <3> SUFFICES ASSUME NEW m \in 1..Len(ahead), p < m, m < p + ahead[p].len
                 PROVE  ~IsFrame(m)
      BY DEF NoFrame
    <3>1. m \in p + 1..p + ahead[p].len - 1
      BY <1>3
    <3> QED
      BY <3>1, <1>1 DEF IsFrame
  <2> QED
    BY <2>1, <2>2, <1>1, <1>2 DEF SInv, Chained, IsFrame, next
<1>6. next.begin <= ahead[p].begin + (ahead[p].len - HEADER)
  BY <1>3, <1>4, <1>5 DEF LeavesRoom
<1>7. promised \in {ahead[p].begin, Unknown}
  BY <1>2 DEF PromiseKept
<1>8. Frame(ahead[p].begin, ahead[p].len - HEADER, next.begin)
  BY <1>1, <1>6, <1>7 DEF Frame
<1>9. PromiseKept'
  <2>1. promised' = next.begin
    BY <1>1 DEF FrameStep
  <2>2. mode' = "decode"
    BY <1>1, <1>2 DEF IsFrame
  <2> QED
    BY <2>1, <2>2, <1>1, <1>2 DEF PromiseKept, OnFrame
<1> QED
  BY <1>3, <1>4, <1>8, <1>9

(* Anything else that goes to decoder_table, as the reservoir sees it.     *)
LEMMA TakenIsStep ==
  ASSUME SInv, PromiseKept, NEW p \in 1..Len(ahead), Taken(p)
  PROVE  [RNext]_rvars /\ PromiseKept'
<1>1. CASE GoodFrame(p)
  BY <1>1, GoodFrameIsFrame DEF RNext
<1>2. CASE StrayFrame(p)
  <2>1. /\ ahead[p].kind \in {"frame", "false"} /\ ahead[p].len >= HEADER
        /\ TakeFrame(p)
    BY <1>2 DEF StrayFrame
  <2>2. PICK b \in IF ahead[p].kind = "frame" THEN Begins ELSE {ahead[p].begin},
             peek \in Peeks(ahead[p + ahead[p].len]) :
               StrayStep(b, ahead[p].len - HEADER, peek)
    BY <1>2 DEF StrayFrame
  <2>3. ahead[p].len - HEADER \in Spaces /\ ahead[p].begin \in Begins
    BY <2>1, MainDataSize
  <2>4. b \in Begins
    BY <2>2, <2>3
  <2>5. ahead[p + ahead[p].len] \in Cells
    BY <2>1, TakeKeeps
  <2>6. peek \in Begins
    BY <2>2, <2>5, CellTypes, DecoderAssumption DEF Peeks
  <2>7. RNext
    BY <2>2, <2>3, <2>4, <2>6 DEF RNext
  <2>8. PromiseKept'
    BY <2>2 DEF StrayStep, PromiseKept
  <2> QED
    BY <2>7, <2>8
<1>3. CASE ShortFrame(p)
  <2>1. Forget
    BY <1>3 DEF ShortFrame
  <2> QED
    BY <2>1 DEF RNext, Forget, PromiseKept
<1>4. CASE NullDecoder(p)
  <2>1. ahead[p].kind = "other" /\ TakeFrame(p) /\ UNCHANGED rvars
    BY <1>4 DEF NullDecoder
  <2>2. OnFrame => p = 1
    BY <2>1, TakeKeeps
  <2>3. ~OnFrame
    BY <2>1, <2>2 DEF OnFrame
  <2> QED
    BY <2>1, <2>3 DEF PromiseKept, rvars
<1> QED
  BY <1>1, <1>2, <1>3, <1>4 DEF Taken

(* What a frame that goes to decoder_table has in common with the others.  *)
LEMMA TakenTakes ==
  ASSUME NEW p, Taken(p)
  PROVE  TakeFrame(p)
BY DEF Taken, GoodFrame, StrayFrame, ShortFrame, NullDecoder

(* Every step of the decoder is one of these.                              *)
LEMMA Steps ==
  ASSUME [Next]_vars
  PROVE  \/ UNCHANGED rvars /\ (Source \/ InputFull \/ Sync \/ UNCHANGED svars)
         \/ \E p \in 1..Len(ahead) : Taken(p)
         \/ Restart /\ Forget
BY DEF Next, Decode, Taken, Reboot, vars, svars, rvars

(* Frames are chained, the decoder is stuck only at a header too long, and *)
(* the next frame is the one whose header was peeked at.                   *)
LEMMA DecoderInv == SafeSpec => [](SInv /\ PromiseKept)
<1>1. Init => SInv /\ PromiseKept
  <2> SUFFICES ASSUME Init PROVE SInv /\ PromiseKept
    OBVIOUS
  <2>1. /\ ahead = <<>> /\ sync = 0 /\ mode = "refill" /\ rest = 0 /\ reach = -1
        /\ promised = Unknown
    BY DEF Init, SInit, RInit
  <2>2. READBUFSZ \in Nat \ {0} /\ ahead \in Seq(Cells) /\ Len(ahead) = 0
    BY <2>1, StreamAssumption
  <2>3. StreamOK /\ WedgeNeedsLongHeader
    BY <2>1, <2>2 DEF StreamOK, WedgeNeedsLongHeader
  <2>4. Chained /\ LastChained
    BY <2>2 DEF Chained, LastChained
  <2> QED
    BY <2>1, <2>3, <2>4 DEF SInv, PromiseKept
<1>2. SInv /\ PromiseKept /\ [Next]_vars => (SInv /\ PromiseKept)'
  <2> SUFFICES ASSUME SInv, PromiseKept, [Next]_vars PROVE SInv' /\ PromiseKept'
    OBVIOUS
  <2>1. CASE UNCHANGED rvars /\ (Source \/ InputFull \/ Sync \/ UNCHANGED svars)
    <3>1. SInv' /\ (OnFrame => Same)
      BY <2>1, SourceKeeps, SyncKeeps, OthersKeep, StutterKeeps
    <3>2. promised' = promised
      BY <2>1 DEF rvars
    <3> QED
      BY <3>1, <3>2 DEF PromiseKept, Same
  <2>2. ASSUME NEW p \in 1..Len(ahead), Taken(p) PROVE SInv' /\ PromiseKept'
    BY <2>2, TakenTakes, TakeKeeps, TakenIsStep
  <2>3. CASE Restart /\ Forget
    BY <2>3, OthersKeep DEF Forget, PromiseKept
  <2> QED
    BY <2>1, <2>2, <2>3, Steps
<1> QED
  BY <1>1, <1>2, PTL DEF SafeSpec

(* The decoder gets stuck only at a header whose frame can not fit into    *)
(* readBuf, whatever the stream holds (frame.c:404-408,                    *)
(* mad_helper.c:153-156).                                                  *)
THEOREM NoWedge == SafeSpec => []WedgeNeedsLongHeader
<1>1. SInv => WedgeNeedsLongHeader
  BY DEF SInv
<1> QED
  BY <1>1, DecoderInv, PTL

(* A true frame in its place stays there until it is decoded: neither the  *)
(* search for sync words nor the refilling of readBuf loses it             *)
(* (frame.c:335-340 and 403-411, mad_helper.c:153-176).                    *)
THEOREM FrameStays == SafeSpec => AlignmentKept
<1>1. SInv /\ [Next]_vars =>
        [OnFrame => \/ OnFrame' /\ ahead'[1] = ahead[1]
                    \/ TakeFrame(1)]_svars
  <2> SUFFICES ASSUME SInv, [Next]_vars, OnFrame
               PROVE  Same \/ TakeFrame(1)
    BY DEF Same
  <2>1. CASE UNCHANGED rvars /\ (Source \/ InputFull \/ Sync \/ UNCHANGED svars)
    BY <2>1, SourceKeeps, SyncKeeps, OthersKeep, StutterKeeps
  <2>2. ASSUME NEW p \in 1..Len(ahead), Taken(p) PROVE TakeFrame(1)
    BY <2>2, TakenTakes, TakeKeeps
  <2>3. CASE Restart /\ Forget
    BY <2>3, OthersKeep
  <2> QED
    BY <2>1, <2>2, <2>3, Steps
<1> QED
  BY <1>1, DecoderInv, PTL DEF SafeSpec, AlignmentKept

(* The way frames are found keeps every promise the reservoir rests on: a  *)
(* frame whose begin was peeked at is the one decoded next, and it asks    *)
(* for no more than the one before it left (frame.c:333-423,               *)
(* layer3.c:2590-2608).                                                    *)
THEOREM ReservoirImplemented == SafeSpec => ImplementsReservoir
<1>1. Init => RInit
  BY DEF Init
<1>2. SInv /\ PromiseKept /\ [Next]_vars => [RNext]_rvars
  <2> SUFFICES ASSUME SInv, PromiseKept, [Next]_vars PROVE [RNext]_rvars
    OBVIOUS
  <2>1. ASSUME NEW p \in 1..Len(ahead), Taken(p) PROVE [RNext]_rvars
    BY <2>1, TakenIsStep
  <2>2. CASE Restart /\ Forget
    BY <2>2 DEF RNext
  <2> QED
    BY <2>1, <2>2, Steps
<1> QED
  BY <1>1, <1>2, DecoderInv, PTL DEF SafeSpec, ImplementsReservoir, RSpec

(* The types of the whole decoder's state; readBuf and MainData never hold *)
(* more than there is room for (mad_helper.c:144-180, layer3.c:2590-2701). *)
THEOREM DecoderTypeCorrect == SafeSpec => []TypeOK
<1>1. SInv => StreamOK
  BY DEF SInv
<1> QED
  BY <1>1, DecoderInv, ReservoirImplemented, ReservoirBounded, PTL
     DEF TypeOK, ImplementsReservoir

(* In the whole decoder too, a frame within reach is decoded from its own  *)
(* data: what the reservoir promises of any frames it promises of those    *)
(* that are found (layer3.c:2621-2647, 2677-2701).                         *)
THEOREM DecodesOwnData == SafeSpec => []OwnData
BY ReservoirImplemented, FramesReadOwnData, PTL DEF ImplementsReservoir
=============================================================================
