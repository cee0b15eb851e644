---------------------------- MODULE I2sDmaProofs ----------------------------
(***************************************************************************)
(* Proofs about I2sDma for every number and length of buffers.  The shape  *)
(* of the queue (QueueIsRing) needs no help but the types; that trouble    *)
(* means lateness needs one more fact about the moment between the end of  *)
(* a buffer and its interrupt (LateInv).  For the order of the samples     *)
(* OrderInv says, of a decoder that has kept up, what the whole ring holds:*)
(* the buffer it fills and those behind it the samples last pushed, those  *)
(* never filled silence.  PushResumes follows step by step; what the       *)
(* provers cannot do is evaluate ENABLED, so that the guards of the fair   *)
(* actions enable them (GuardsEnable) stands in that theorem as a premise. *)
(***************************************************************************)
EXTENDS I2sDma, SequenceTheorems, TLAPS

LateInv ==
  /\ underrunCnt > 0 => late
  /\ currDMABuff = dma /\ currDMABuffPos < I2SDMABUFLEN => late
  /\ eof # None /\ Queued(dma) => late
  /\ ppc = "write" => currDMABuff # None /\ currDMABuffPos < I2SDMABUFLEN
  /\ ppc # "idle" => pushed < MaxSamples

-----------------------------------------------------------------------------
LEMMA NextLinkInRing ==
  ASSUME NEW b \in Buffers
  PROVE  NextLink(b) \in Buffers /\ NextLink(b) # b
  BY RingAssumption DEF NextLink, Buffers

LEMMA TypeInit == Init => TypeOK
<1> SUFFICES ASSUME Init PROVE TypeOK
  OBVIOUS
<1>1. late \in BOOLEAN
  BY Zenon DEF Init
<1>2. <<>> \in Seq(Buffers) /\ Len(<<>>) = 0
  OBVIOUS
<1>3. i2sBuf \in [Buffers -> [Positions -> 0..MaxSamples]]
  BY SampleAssumption DEF Init
<1>4. /\ dma \in Buffers /\ eof \in Buffers \cup {None}
      /\ underrunCnt \in 0..UdrCap
      /\ currDMABuff \in Buffers \cup {None}
      /\ currDMABuffPos \in 0..I2SDMABUFLEN
      /\ ppc \in {"idle", "pop", "write"} /\ pushed \in 0..MaxSamples
  BY RingAssumption, SampleAssumption DEF Init, Buffers
<1>5. dmaQueue \in Seq(Buffers) /\ Len(dmaQueue) <= QueueDepth
  BY <1>2, RingAssumption DEF Init, QueueDepth
<1> QED
  BY <1>1, <1>3, <1>4, <1>5, Zenon DEF TypeOK

LEMMA TypeStep == TypeOK /\ LateInv /\ [Next]_vars => TypeOK'
<1> SUFFICES ASSUME TypeOK, LateInv, [Next]_vars PROVE TypeOK'
  OBVIOUS
<1> USE RingAssumption, SampleAssumption DEF hardware, pusher
<1>1. CASE Dma
  <2>1. late' \in BOOLEAN
    BY <1>1, Zenon DEF Dma
  <2>2. dma' \in Buffers /\ eof' \in Buffers
    BY <1>1, NextLinkInRing DEF Dma, TypeOK
  <2> QED
    BY <1>1, <2>1, <2>2 DEF Dma, TypeOK
<1>2. CASE SlcIsr
  <2>1. dmaQueue \in Seq(Buffers) /\ eof \in Buffers
    BY <1>2 DEF SlcIsr, TypeOK
  <2>2. dmaQueue' \in Seq(Buffers) /\ Len(dmaQueue') <= QueueDepth
    <3>1. CASE Len(dmaQueue) = QueueDepth
      <4>1. dmaQueue # <<>>
        BY <2>1, <3>1 DEF QueueDepth
      <4>2. Tail(dmaQueue) \in Seq(Buffers)
            /\ Len(Tail(dmaQueue)) = Len(dmaQueue) - 1
        BY <2>1, <4>1, HeadTailProperties
      <4> QED
        <5>1. dmaQueue' = Append(Tail(dmaQueue), eof)
          BY <1>2, <3>1 DEF SlcIsr
        <5>2. /\ Append(Tail(dmaQueue), eof) \in Seq(Buffers)
              /\ Len(Append(Tail(dmaQueue), eof)) = (Len(dmaQueue) - 1) + 1
          BY <2>1, <4>2, AppendProperties
        <5> QED
          BY <2>1, <3>1, <5>1, <5>2, LenProperties DEF QueueDepth
    <3>2. CASE Len(dmaQueue) # QueueDepth
      <4>1. dmaQueue' = Append(dmaQueue, eof)
        BY <1>2, <3>2 DEF SlcIsr
      <4>2. /\ Append(dmaQueue, eof) \in Seq(Buffers)
            /\ Len(Append(dmaQueue, eof)) = Len(dmaQueue) + 1
        BY <2>1, AppendProperties
      <4>3. Len(dmaQueue) \in Nat /\ Len(dmaQueue) <= QueueDepth
        BY <2>1, LenProperties DEF TypeOK
      <4> QED
        BY <3>2, <4>1, <4>2, <4>3 DEF QueueDepth
    <3> QED
      BY <3>1, <3>2
  <2>3. underrunCnt' \in 0..UdrCap
    BY <1>2 DEF SlcIsr, TypeOK
  <2> QED
    BY <1>2, <2>2, <2>3 DEF SlcIsr, TypeOK
<1>3. CASE PushCall
  BY <1>3 DEF PushCall, TypeOK
<1>4. CASE PushPop
  <2>1. dmaQueue \in Seq(Buffers) /\ dmaQueue # <<>>
    BY <1>4 DEF PushPop, TypeOK
  <2>2. /\ Head(dmaQueue) \in Buffers /\ Tail(dmaQueue) \in Seq(Buffers)
        /\ Len(Tail(dmaQueue)) = Len(dmaQueue) - 1
    BY <2>1, HeadTailProperties
  <2>3. dmaQueue' \in Seq(Buffers) /\ Len(dmaQueue') <= QueueDepth
    BY <1>4, <2>1, <2>2 DEF PushPop, TypeOK, QueueDepth
  <2> QED
    BY <1>4, <2>2, <2>3 DEF PushPop, TypeOK
<1>5. CASE PushWrite
  <2>1. currDMABuff \in Buffers /\ currDMABuffPos \in Positions
    BY <1>5 DEF PushWrite, TypeOK, LateInv, Positions
  <2>2. pushed + 1 \in 0..MaxSamples
    BY <1>5 DEF PushWrite, TypeOK, LateInv
  <2> QED
    BY <1>5, <2>1, <2>2 DEF PushWrite, TypeOK, Positions
<1>6. CASE UNCHANGED vars
  BY <1>6 DEF vars, TypeOK
<1> QED
  BY <1>1, <1>2, <1>3, <1>4, <1>5, <1>6 DEF Next

-----------------------------------------------------------------------------
(* The queue's elements and length after a pop and after a push.           *)
LEMMA PopFacts ==
  ASSUME NEW q \in Seq(Buffers), q # <<>>
  PROVE  /\ Head(q) = q[1] /\ Tail(q) \in Seq(Buffers)
         /\ Len(q) \in Nat /\ Len(q) > 0
         /\ Len(Tail(q)) = Len(q) - 1
         /\ \A i \in 1 .. Len(q) - 1 : Tail(q)[i] = q[i + 1]
  BY HeadTailProperties, LenProperties, EmptySeq

LEMMA PushFacts ==
  ASSUME NEW q \in Seq(Buffers), NEW b \in Buffers
  PROVE  /\ Len(q) \in Nat
         /\ Len(Append(q, b)) = Len(q) + 1
         /\ \A i \in 1 .. Len(q) : Append(q, b)[i] = q[i]
         /\ Append(q, b)[Len(q) + 1] = b
  BY AppendProperties, LenProperties

(* One place further back from the next buffer is the same place.          *)
LEMMA BeforeNext ==
  ASSUME NEW b \in Buffers, NEW k \in 1 .. QueueDepth
  PROVE  /\ Before(NextLink(b), k + 1) = Before(b, k)
         /\ Before(NextLink(b), 1) = b
         /\ Before(b, k) # b
  BY RingAssumption DEF Before, NextLink, Buffers, QueueDepth

LEMMA RingInit == Init => QueueIsRing
  BY EmptySeq DEF Init, QueueIsRing

LEMMA RingStep == TypeOK /\ QueueIsRing /\ [Next]_vars => QueueIsRing'
<1> SUFFICES ASSUME TypeOK, QueueIsRing, [Next]_vars PROVE QueueIsRing'
  OBVIOUS
<1>1. /\ dmaQueue \in Seq(Buffers) /\ dma \in Buffers
      /\ Len(dmaQueue) \in Nat /\ Len(dmaQueue) <= QueueDepth
      /\ None \notin Buffers
  BY LenProperties DEF TypeOK, Buffers, None
<1>2. CASE Dma
  <2>1. /\ eof' = dma /\ dma' = NextLink(dma) /\ dmaQueue' = dmaQueue
        /\ Told = dma /\ Told' = dma
    BY <1>1, <1>2 DEF Dma, Told
  <2> QED
    BY <2>1 DEF QueueIsRing, Before
<1>3. CASE SlcIsr
  <2>1. /\ eof \in Buffers /\ dma' = NextLink(eof) /\ eof' = None
        /\ Told = eof /\ Told' = NextLink(eof)
    BY <1>1, <1>3 DEF SlcIsr, TypeOK, QueueIsRing, Told
  <2>2. PICK q \in Seq(Buffers) :
           /\ dmaQueue' = Append(q, eof)
           /\ Len(q) \in Nat /\ Len(q) <= QueueDepth
           /\ \A i \in 1 .. Len(q) : q[i] = Before(eof, Len(q) + 1 - i)
    <3>1. CASE Len(dmaQueue) = QueueDepth
      <4>1. dmaQueue # <<>>
        BY <1>1, <3>1, EmptySeq, RingAssumption DEF QueueDepth
      <4> DEFINE q == Tail(dmaQueue)
      <4>2. /\ q \in Seq(Buffers) /\ Len(q) = Len(dmaQueue) - 1
            /\ \A i \in 1 .. Len(dmaQueue) - 1 : q[i] = dmaQueue[i + 1]
        BY <1>1, <4>1, PopFacts
      <4>3. dmaQueue' = Append(q, eof)
        BY <1>3, <3>1 DEF SlcIsr
      <4> HIDE DEF q
      <4>4. Len(q) \in Nat /\ Len(q) <= QueueDepth
        BY <1>1, <3>1, <4>2, RingAssumption DEF QueueDepth
      <4>5. ASSUME NEW i \in 1 .. Len(q)
            PROVE  q[i] = Before(eof, Len(q) + 1 - i)
        <5>1. i \in 1 .. Len(dmaQueue) - 1 /\ i + 1 \in 1 .. Len(dmaQueue)
          BY <1>1, <4>2
        <5>2. dmaQueue[i + 1] = Before(eof, Len(dmaQueue) + 1 - (i + 1))
          BY <2>1, <5>1, Zenon DEF QueueIsRing
        <5>3. Len(dmaQueue) + 1 - (i + 1) = Len(q) + 1 - i
          <6>1. Len(dmaQueue) \in Nat /\ i \in Nat /\ Len(q) = Len(dmaQueue) - 1
            BY <1>1, <4>2, <5>1
          <6> QED
            BY <6>1
        <5> QED
          BY <4>2, <5>1, <5>2, <5>3
      <4> QED
        BY <4>2, <4>3, <4>4, <4>5
    <3>2. CASE Len(dmaQueue) # QueueDepth
      <4>1. dmaQueue' = Append(dmaQueue, eof)
        BY <1>3, <3>2 DEF SlcIsr
      <4> QED
        BY <1>1, <2>1, <4>1 DEF QueueIsRing
    <3> QED
      BY <3>1, <3>2
  <2>3. /\ Len(dmaQueue') = Len(q) + 1 /\ dmaQueue'[Len(q) + 1] = eof
        /\ \A i \in 1 .. Len(q) : dmaQueue'[i] = q[i]
    BY <2>1, <2>2, PushFacts
  <2>4. ASSUME NEW i \in 1 .. Len(dmaQueue')
        PROVE  dmaQueue'[i] = Before(NextLink(eof), Len(dmaQueue') + 1 - i)
    <3>1. CASE i = Len(q) + 1
      <4>1. Len(dmaQueue') + 1 - i = 1
        BY <2>2, <2>3, <3>1
      <4>2. Before(NextLink(eof), 1) = eof
        BY <2>1, BeforeNext, RingAssumption DEF QueueDepth
      <4> QED
        BY <2>3, <3>1, <4>1, <4>2
    <3>2. CASE i # Len(q) + 1
      <4> DEFINE k == Len(q) + 1 - i
      <4>1. i \in 1 .. Len(q) /\ k \in 1 .. QueueDepth
        BY <2>2, <2>3, <3>2, RingAssumption DEF QueueDepth
      <4>2. Len(dmaQueue') + 1 - i = k + 1
        BY <2>2, <2>3
      <4>3. Before(NextLink(eof), k + 1) = Before(eof, k)
        BY <2>1, <4>1, BeforeNext
      <4> QED
        BY <2>2, <2>3, <4>1, <4>2, <4>3
    <3> QED
      BY <3>1, <3>2
  <2>5. eof' = None
    BY <2>1
  <2> QED
    BY <2>1, <2>4, <2>5 DEF QueueIsRing, Before
<1>4. CASE PushPop
  <2>1. /\ dmaQueue' = Tail(dmaQueue) /\ dmaQueue # <<>>
        /\ eof' = eof /\ dma' = dma /\ Told' = Told
    BY <1>4 DEF PushPop, hardware, Told
  <2>2. /\ Len(dmaQueue') = Len(dmaQueue) - 1
        /\ \A i \in 1 .. Len(dmaQueue) - 1 : dmaQueue'[i] = dmaQueue[i + 1]
    BY <1>1, <2>1, PopFacts
  <2>3. ASSUME NEW i \in 1 .. Len(dmaQueue')
        PROVE  dmaQueue'[i] = Before(Told, Len(dmaQueue') + 1 - i)
    <3>1. i \in 1 .. Len(dmaQueue) - 1 /\ i + 1 \in 1 .. Len(dmaQueue)
      BY <1>1, <2>2
    <3>2. Len(dmaQueue) + 1 - (i + 1) = Len(dmaQueue') + 1 - i
      <4>1. /\ Len(dmaQueue) \in Nat /\ i \in Nat
            /\ Len(dmaQueue') = Len(dmaQueue) - 1
        BY <1>1, <2>2, <3>1
      <4> QED
        BY <4>1
    <3>3. dmaQueue[i + 1] = Before(Told, Len(dmaQueue) + 1 - (i + 1))
      BY <3>1, Zenon DEF QueueIsRing
    <3> QED
      BY <2>2, <3>1, <3>2, <3>3
  <2> QED
    BY <2>1, <2>3 DEF QueueIsRing, Before
<1>5. CASE PushCall \/ PushWrite \/ UNCHANGED vars
  <2>1. UNCHANGED <<dma, eof, dmaQueue, Told>>
    BY <1>5 DEF PushCall, PushWrite, vars, hardware, Told
  <2> QED
    BY <2>1 DEF QueueIsRing, Before
<1> QED
  BY <1>2, <1>3, <1>4, <1>5 DEF Next

-----------------------------------------------------------------------------
(* A buffer the queue holds in a full ring, or at its front.               *)
LEMMA FullQueueIsLate ==
  TypeOK /\ QueueIsRing /\ eof # None /\ Len(dmaQueue) = QueueDepth
    => Queued(dma)
<1> SUFFICES ASSUME TypeOK, QueueIsRing, eof # None,
                    Len(dmaQueue) = QueueDepth
             PROVE  Queued(dma)
  OBVIOUS
<1>1. eof \in Buffers /\ dma = NextLink(eof) /\ Told = eof
  BY DEF TypeOK, QueueIsRing, Told
<1>2. 1 \in 1 .. Len(dmaQueue)
  BY RingAssumption DEF QueueDepth
<1>3. dmaQueue[1] = Before(eof, Len(dmaQueue) + 1 - 1)
  BY <1>1, <1>2, Zenon DEF QueueIsRing
<1>4. Before(eof, I2SDMABUFCNT - 1) = NextLink(eof)
  BY <1>1, RingAssumption DEF Before, NextLink, Buffers
<1>5. dmaQueue[1] = dma
  BY <1>1, <1>3, <1>4, RingAssumption DEF QueueDepth
<1> QED
  BY <1>2, <1>5 DEF Queued

LEMMA FrontIsNotPlaying ==
  TypeOK /\ QueueIsRing /\ eof = None /\ dmaQueue # <<>>
    => Head(dmaQueue) # dma
<1> SUFFICES ASSUME TypeOK, QueueIsRing, eof = None, dmaQueue # <<>>
             PROVE  Head(dmaQueue) # dma
  OBVIOUS
<1>1. /\ dmaQueue \in Seq(Buffers) /\ dma \in Buffers /\ Told = dma
      /\ Len(dmaQueue) <= QueueDepth
  BY DEF TypeOK, Told
<1>2. Head(dmaQueue) = dmaQueue[1] /\ Len(dmaQueue) \in 1 .. QueueDepth
  BY <1>1, PopFacts, RingAssumption DEF QueueDepth
<1>3. 1 \in 1 .. Len(dmaQueue)
  BY <1>2
<1>4. dmaQueue[1] = Before(dma, Len(dmaQueue) + 1 - 1)
  BY <1>1, <1>3, Zenon DEF QueueIsRing
<1>5. Before(dma, Len(dmaQueue)) # dma
  BY <1>1, <1>2, BeforeNext
<1>6. Len(dmaQueue) + 1 - 1 = Len(dmaQueue)
  BY <1>2
<1> QED
  BY <1>2, <1>4, <1>5, <1>6

LEMMA LateInit == Init => LateInv
  BY EmptySeq DEF Init, LateInv, Buffers, None

LEMMA LateStep ==
  TypeOK /\ QueueIsRing /\ LateInv /\ [Next]_vars => LateInv'
<1> SUFFICES ASSUME TypeOK, QueueIsRing, LateInv, [Next]_vars
             PROVE  LateInv'
  OBVIOUS
<1> USE RingAssumption DEF hardware, pusher
<1>1. CASE Dma
  <2>1. late => late'
    BY <1>1 DEF Dma
  <2>2. currDMABuff' = dma' /\ currDMABuffPos' < I2SDMABUFLEN => late'
    BY <1>1 DEF Dma
  <2>3. Queued(dma)' => late'
    BY <1>1 DEF Dma, Queued
  <2>4. UNCHANGED <<underrunCnt, ppc, pushed, currDMABuff, currDMABuffPos>>
    BY <1>1 DEF Dma
  <2> QED
    BY <2>1, <2>2, <2>3, <2>4 DEF LateInv
<1>2. CASE SlcIsr
  <2>1. UNCHANGED <<dma, late, ppc, pushed, currDMABuff, currDMABuffPos>>
        /\ eof' = None
    BY <1>2 DEF SlcIsr
  <2>2. underrunCnt' > 0 => late
    <3>1. CASE Len(dmaQueue) = QueueDepth
      BY <1>2, <3>1, FullQueueIsLate DEF SlcIsr, LateInv
    <3>2. CASE Len(dmaQueue) # QueueDepth
      BY <1>2, <3>2 DEF SlcIsr, LateInv
    <3> QED
      BY <3>1, <3>2
  <2> QED
    BY <2>1, <2>2 DEF LateInv
<1>3. CASE PushCall
  <2>1. UNCHANGED <<dma, eof, late, dmaQueue, underrunCnt, currDMABuff,
                    currDMABuffPos, pushed>>
        /\ pushed < MaxSamples
    BY <1>3 DEF PushCall
  <2>2. ppc' = "write" => currDMABuff # None /\ currDMABuffPos < I2SDMABUFLEN
    BY <1>3 DEF PushCall, TypeOK
  <2> QED
    BY <2>1, <2>2 DEF LateInv, Queued
<1>4. CASE PushPop
  <2>1. /\ dmaQueue \in Seq(Buffers) /\ dmaQueue # <<>>
        /\ UNCHANGED <<dma, eof, late, underrunCnt, pushed>>
        /\ currDMABuff' = Head(dmaQueue) /\ dmaQueue' = Tail(dmaQueue)
        /\ currDMABuffPos' = 0 /\ pushed < MaxSamples
    BY <1>4 DEF PushPop, TypeOK, LateInv
  <2>2. /\ Head(dmaQueue) = dmaQueue[1] /\ 1 \in 1 .. Len(dmaQueue)
        /\ Len(dmaQueue') = Len(dmaQueue) - 1
        /\ \A i \in 1 .. Len(dmaQueue) - 1 : dmaQueue'[i] = dmaQueue[i + 1]
    BY <2>1, PopFacts
  <2>3. Head(dmaQueue) \in Buffers
    BY <2>1, HeadTailProperties
  <2>4. currDMABuff' = dma' => late'
    BY <2>1, <2>2, FrontIsNotPlaying DEF LateInv, Queued
  <2>5. eof' # None /\ Queued(dma)' => late'
    <3>1. Queued(dma)' => Queued(dma)
      <4> SUFFICES ASSUME NEW i \in 1 .. Len(dmaQueue'), dmaQueue'[i] = dma
                   PROVE  Queued(dma)
        BY <2>1 DEF Queued
      <4>1. i + 1 \in 1 .. Len(dmaQueue) /\ dmaQueue[i + 1] = dma
        BY <2>1, <2>2, LenProperties
      <4> QED
        BY <4>1, Zenon DEF Queued
    <3> QED
      BY <2>1, <3>1 DEF LateInv
  <2>6. underrunCnt' > 0 => late'
    BY <2>1 DEF LateInv
  <2>7. currDMABuff' # None /\ currDMABuffPos' < I2SDMABUFLEN
    BY <2>1, <2>3 DEF Buffers, None
  <2> QED
    BY <2>1, <2>4, <2>5, <2>6, <2>7 DEF LateInv
<1>5. CASE PushWrite
  <2>1. /\ UNCHANGED <<dma, eof, late, dmaQueue, underrunCnt, currDMABuff>>
        /\ currDMABuffPos' = currDMABuffPos + 1 /\ ppc' = "idle"
        /\ currDMABuffPos \in Nat
    BY <1>5 DEF PushWrite, TypeOK
  <2>2. currDMABuffPos' < I2SDMABUFLEN => currDMABuffPos < I2SDMABUFLEN
    BY <2>1
  <2> QED
    BY <2>1, <2>2 DEF LateInv, Queued
<1>6. CASE UNCHANGED vars
  BY <1>6 DEF vars, LateInv, Queued
<1> QED
  BY <1>1, <1>2, <1>3, <1>4, <1>5, <1>6 DEF Next

-----------------------------------------------------------------------------
(* The three invariants hold together.                                     *)
LEMMA I2sInvariance == SafeSpec => [](TypeOK /\ QueueIsRing /\ LateInv)
<1>1. Init => TypeOK /\ QueueIsRing /\ LateInv
  BY TypeInit, RingInit, LateInit
<1>2. TypeOK /\ QueueIsRing /\ LateInv /\ [Next]_vars
        => (TypeOK /\ QueueIsRing /\ LateInv)'
  BY TypeStep, RingStep, LateStep
<1> QED
  BY <1>1, <1>2, PTL DEF SafeSpec

(* Types: in particular the decoder never writes outside a buffer, and the *)
(* queue never holds more than the ring less the buffer being sent.        *)
THEOREM I2sTypeCorrect == SafeSpec => []TypeOK
  BY I2sInvariance, PTL

(* The interrupt and the decoder keep the queue the stretch of the ring    *)
(* behind the engine, whoever comes first and however often it is lapped.  *)
THEOREM QueueStaysRing == SafeSpec => []QueueIsRing
  BY I2sInvariance, PTL

(* A decoder that keeps up causes no underrun and never writes into the    *)
(* buffer being sent.                                                      *)
THEOREM TroubleMeansLate == SafeSpec => []LateExplains
<1>1. LateInv => LateExplains
  BY DEF LateInv, LateExplains
<1> QED
  BY <1>1, I2sInvariance, PTL
-----------------------------------------------------------------------------
\* What the decoder, having filled t buffers before its present one, left at
\* place p of the buffer k places behind it; k = I2SDMABUFCNT is what its
\* present buffer held before.
Sample(t, k, p) == IF t >= k THEN (t - k) * I2SDMABUFLEN + p + 1 ELSE 0

Filled(t) ==
  /\ pushed = t * I2SDMABUFLEN + currDMABuffPos
  /\ \A k \in 0..I2SDMABUFCNT, p \in Positions :
       /\ k = 0 => p < currDMABuffPos
       /\ k = I2SDMABUFCNT => p >= currDMABuffPos
       => i2sBuf[Before(currDMABuff, k)][p] = Sample(t, k, p)

Silent ==
  /\ currDMABuff = None /\ pushed = 0 /\ currDMABuffPos = 0
  /\ \A b \in Buffers, p \in Positions : i2sBuf[b][p] = 0

Filling ==
  /\ currDMABuff \in Buffers
  /\ currDMABuff = Before(Told, Len(dmaQueue) + 1)
  /\ ppc = "pop" => currDMABuffPos = I2SDMABUFLEN
  /\ \E t \in Nat : Filled(t)

OrderInv == late \/ Silent \/ Filling

(* Places in the ring.                                                     *)
LEMMA RingPlaces ==
  ASSUME NEW b \in Buffers
  PROVE  /\ \A k \in 0..I2SDMABUFCNT : Before(b, k) \in Buffers
         /\ \A k \in 1..I2SDMABUFCNT - 1 : Before(b, k) # b
         /\ Before(b, 0) = b /\ Before(b, I2SDMABUFCNT) = b
         /\ \A c \in Buffers : \E k \in 1..I2SDMABUFCNT : c = Before(b, k)
         /\ \A k \in 0..I2SDMABUFCNT - 1 :
              /\ Before(NextLink(b), k + 1) = Before(b, k)
              /\ NextLink(Before(b, k + 1)) = Before(b, k)
<1>1. \A k \in 0..I2SDMABUFCNT : Before(b, k) \in Buffers
  BY RingAssumption DEF Before, Buffers
<1>2. \A k \in 1..I2SDMABUFCNT - 1 : Before(b, k) # b
  BY RingAssumption DEF Before, Buffers
<1>3. Before(b, 0) = b /\ Before(b, I2SDMABUFCNT) = b
  BY RingAssumption DEF Before, Buffers
<1>4. ASSUME NEW c \in Buffers PROVE \E k \in 1..I2SDMABUFCNT : c = Before(b, k)
  <2> DEFINE k == IF c < b THEN b - c ELSE b - c + I2SDMABUFCNT
  <2>1. k \in 1..I2SDMABUFCNT /\ c = Before(b, k)
    BY RingAssumption DEF Before, Buffers
  <2> QED
    BY <2>1
<1>5. \A k \in 0..I2SDMABUFCNT - 1 :
        /\ Before(NextLink(b), k + 1) = Before(b, k)
        /\ NextLink(Before(b, k + 1)) = Before(b, k)
  BY RingAssumption DEF Before, Buffers, NextLink
<1> QED
  BY <1>1, <1>2, <1>3, <1>4, <1>5

LEMMA OrderInit == Init => OrderInv
  BY DEF Init, OrderInv, Silent

(* Taking the next buffer shifts every buffer one place back.              *)
LEMMA OrderPop ==
  ASSUME TypeOK, QueueIsRing, LateInv, OrderInv, PushPop
  PROVE  OrderInv'
<1> USE RingAssumption
<1>1. /\ ppc = "pop" /\ dmaQueue \in Seq(Buffers) /\ dmaQueue # <<>>
      /\ UNCHANGED <<dma, eof, late, pushed, i2sBuf>>
      /\ currDMABuff' = Head(dmaQueue) /\ dmaQueue' = Tail(dmaQueue)
      /\ currDMABuffPos' = 0 /\ ppc' = "write"
      /\ Told \in Buffers /\ Told' = Told
  BY DEF PushPop, hardware, TypeOK, Told
<1>2. PICK l \in Nat : l = Len(dmaQueue) /\ l \in 1..I2SDMABUFCNT - 1
  BY <1>1, PopFacts DEF TypeOK, QueueDepth
<1>3. Len(dmaQueue') = l - 1 /\ Head(dmaQueue) = dmaQueue[1]
  BY <1>1, <1>2, PopFacts
<1>4. dmaQueue[1] = Before(Told, l)
  <2>1. 1 \in 1..Len(dmaQueue) /\ Len(dmaQueue) + 1 - 1 = l
    BY <1>2
  <2> QED
    BY <2>1, Zenon DEF QueueIsRing
<1>5. /\ currDMABuff' = Before(Told, l) /\ currDMABuff' \in Buffers
      /\ currDMABuff' = Before(Told', Len(dmaQueue') + 1)
  BY <1>1, <1>2, <1>3, <1>4, RingPlaces
<1>6. CASE late
  BY <1>1, <1>6 DEF OrderInv
<1>7. CASE Silent
  <2>1. Filled(0)'
    <3> SUFFICES ASSUME NEW k \in 0..I2SDMABUFCNT, NEW p \in Positions,
                        k = 0 => p < currDMABuffPos'
                 PROVE  i2sBuf'[Before(currDMABuff', k)][p] = Sample(0, k, p)
      BY <1>1, <1>7 DEF Filled, Silent
    <3>1. k > 0 /\ p \in Nat
      BY <1>1 DEF Positions
    <3>2. Before(currDMABuff', k) \in Buffers
      BY <1>5, RingPlaces
    <3> QED
      BY <1>1, <1>7, <3>1, <3>2 DEF Silent, Sample
  <2> QED
    BY <1>1, <1>5, <2>1 DEF OrderInv, Filling
<1>8. CASE Filling
  <2>1. PICK t \in Nat : Filled(t)
    BY <1>8 DEF Filling
  <2>2. /\ currDMABuffPos = I2SDMABUFLEN /\ currDMABuff \in Buffers
        /\ currDMABuff = Before(Told, l + 1)
    BY <1>1, <1>2, <1>8 DEF Filling
  <2>3. currDMABuff' = NextLink(currDMABuff)
    <3>1. l \in 0..I2SDMABUFCNT - 1
      BY <1>2
    <3>2. NextLink(Before(Told, l + 1)) = Before(Told, l)
      BY <1>1, <3>1, RingPlaces
    <3> QED
      BY <1>5, <2>2, <3>2
  <2>4. pushed' = (t + 1) * I2SDMABUFLEN + currDMABuffPos'
    BY <1>1, <2>1, <2>2 DEF Filled
  <2>5. ASSUME NEW k \in 0..I2SDMABUFCNT, NEW p \in Positions,
               k = 0 => p < currDMABuffPos'
        PROVE  i2sBuf'[Before(currDMABuff', k)][p] = Sample(t + 1, k, p)
    <3>1. PICK j \in 0..I2SDMABUFCNT - 1 : k = j + 1
      <4>1. k - 1 \in 0..I2SDMABUFCNT - 1 /\ k = (k - 1) + 1
        BY <1>1, <2>5 DEF Positions
      <4> QED
        BY <4>1
    <3>2. Before(currDMABuff', k) = Before(currDMABuff, j)
      BY <2>2, <2>3, <3>1, RingPlaces
    <3>3. /\ j \in 0..I2SDMABUFCNT /\ j # I2SDMABUFCNT /\ p < currDMABuffPos
      BY <2>2 DEF Positions
    <3>4. i2sBuf[Before(currDMABuff, j)][p] = Sample(t, j, p)
      BY <2>1, <3>3 DEF Filled
    <3>5. Sample(t, j, p) = Sample(t + 1, k, p)
      <4>1. (t >= j <=> t + 1 >= k) /\ t - j = (t + 1) - k
        BY <3>1
      <4> QED
        BY <4>1 DEF Sample
    <3> QED
      BY <1>1, <3>2, <3>4, <3>5
  <2>6. Filled(t + 1)'
    BY <2>4, <2>5 DEF Filled
  <2> QED
    BY <1>1, <1>5, <2>6 DEF OrderInv, Filling
<1> QED
  BY <1>6, <1>7, <1>8 DEF OrderInv

(* Pushing a sample fills one more place of the present buffer.            *)
LEMMA OrderWrite ==
  ASSUME TypeOK, QueueIsRing, LateInv, OrderInv, PushWrite
  PROVE  OrderInv'
<1> USE RingAssumption
<1>1. /\ ppc = "write" /\ ppc' = "idle"
      /\ UNCHANGED <<dma, eof, late, dmaQueue, currDMABuff, Told>>
      /\ i2sBuf' = [i2sBuf EXCEPT ![currDMABuff][currDMABuffPos] = pushed + 1]
      /\ currDMABuffPos' = currDMABuffPos + 1 /\ pushed' = pushed + 1
  BY DEF PushWrite, hardware, Told
<1>2. /\ currDMABuff \in Buffers /\ currDMABuffPos \in Positions
      /\ currDMABuffPos \in Nat /\ pushed \in Nat
      /\ i2sBuf \in [Buffers -> [Positions -> 0..MaxSamples]]
      /\ currDMABuff # None
  BY <1>1, SampleAssumption DEF TypeOK, LateInv, Positions
<1>3. CASE late
  BY <1>1, <1>3 DEF OrderInv
<1>4. CASE Filling
  <2>1. PICK t \in Nat : Filled(t)
    BY <1>4 DEF Filling
  <2>2. pushed = t * I2SDMABUFLEN + currDMABuffPos /\ t * I2SDMABUFLEN \in Nat
    BY <2>1 DEF Filled
  <2>3. ASSUME NEW k \in 0..I2SDMABUFCNT, NEW p \in Positions,
               k = 0 => p < currDMABuffPos', k = I2SDMABUFCNT => p >= currDMABuffPos'
        PROVE  i2sBuf'[Before(currDMABuff, k)][p] = Sample(t, k, p)
    <3>1. Before(currDMABuff, k) \in Buffers /\ p \in Nat
      BY <1>2, RingPlaces DEF Positions
    <3>2. CASE k = 0 /\ p = currDMABuffPos
      <4>1. Before(currDMABuff, k) = currDMABuff
        BY <1>2, <3>2, RingPlaces
      <4>2. i2sBuf'[currDMABuff][currDMABuffPos] = pushed + 1
        BY <1>1, <1>2
      <4>3. Sample(t, k, p) = t * I2SDMABUFLEN + p + 1
        BY <3>2 DEF Sample
      <4> QED
        BY <2>2, <3>2, <4>1, <4>2, <4>3
    <3>3. CASE ~(k = 0 /\ p = currDMABuffPos)
      <4>1. (k = 0 => p < currDMABuffPos) /\ (k = I2SDMABUFCNT => p > currDMABuffPos)
        BY <1>1, <1>2, <2>3, <3>1, <3>3
      <4>2. i2sBuf[Before(currDMABuff, k)][p] = Sample(t, k, p)
        <5>1. k = I2SDMABUFCNT => p >= currDMABuffPos
          BY <1>2, <3>1, <4>1
        <5> QED
          BY <2>1, <4>1, <5>1 DEF Filled
      <4>3. Before(currDMABuff, k) # currDMABuff \/ p # currDMABuffPos
        <5>1. k \in 1..I2SDMABUFCNT - 1 \/ k = 0 \/ k = I2SDMABUFCNT
          OBVIOUS
        <5>2. CASE k \in 1..I2SDMABUFCNT - 1
          BY <1>2, <5>2, RingPlaces
        <5>3. CASE k = 0 \/ k = I2SDMABUFCNT
          BY <1>2, <3>1, <4>1, <5>3
        <5> QED
          BY <5>1, <5>2, <5>3
      <4>4. i2sBuf'[Before(currDMABuff, k)][p] = i2sBuf[Before(currDMABuff, k)][p]
        BY <1>1, <1>2, <3>1, <4>3
      <4> QED
        BY <4>2, <4>4
    <3> QED
      BY <3>2, <3>3
  <2>4. pushed' = t * I2SDMABUFLEN + currDMABuffPos'
    BY <1>1, <1>2, <2>2
  <2>5. Filled(t)'
    BY <1>1, <2>3, <2>4 DEF Filled
  <2> QED
    BY <1>1, <1>4, <2>5 DEF OrderInv, Filling
<1> QED
  BY <1>2, <1>3, <1>4 DEF OrderInv, Silent

(* The end of a buffer and its interrupt move the engine, not the samples. *)
LEMMA OrderStep ==
  TypeOK /\ QueueIsRing /\ LateInv /\ OrderInv /\ [Next]_vars => OrderInv'
<1> SUFFICES ASSUME TypeOK, QueueIsRing, LateInv, OrderInv, [Next]_vars
             PROVE  OrderInv'
  OBVIOUS
<1> USE RingAssumption
<1>1. ASSUME UNCHANGED <<Told, dmaQueue, currDMABuff, currDMABuffPos, pushed, i2sBuf>>,
             late => late',
             ppc' = "pop" => ppc = "pop" \/ currDMABuffPos = I2SDMABUFLEN \/ Silent
      PROVE  OrderInv'
  <2>1. Silent => Silent'
    BY <1>1 DEF Silent
  <2>2. CASE Filling
    <3>1. PICK t \in Nat : Filled(t)
      BY <2>2 DEF Filling
    <3>2. Filled(t)'
      BY <1>1, <3>1 DEF Filled
    <3>3. ~Silent
      BY <2>2 DEF Filling, Silent, Buffers, None
    <3> QED
      BY <1>1, <2>2, <3>2, <3>3 DEF Filling, OrderInv
  <2> QED
    BY <1>1, <2>1, <2>2 DEF OrderInv
<1>2. CASE Dma
  <2>1. /\ eof = None /\ eof' = dma /\ dma \in Buffers /\ None \notin Buffers
        /\ UNCHANGED <<dmaQueue, pusher>> /\ (late => late')
    BY <1>2 DEF Dma, TypeOK, Buffers, None
  <2>2. Told' = Told
    BY <2>1 DEF Told
  <2> QED
    BY <1>1, <2>1, <2>2 DEF pusher
<1>3. CASE SlcIsr
  <2>1. /\ eof \in Buffers /\ eof' = None /\ dma = NextLink(eof)
        /\ UNCHANGED <<dma, late, pusher>>
        /\ Told = eof /\ Told' = NextLink(eof)
    BY <1>3 DEF SlcIsr, TypeOK, QueueIsRing, Told
  <2>2. CASE Len(dmaQueue) = QueueDepth
    <3>1. late
      BY <1>3, <2>2, FullQueueIsLate DEF SlcIsr, LateInv
    <3> QED
      BY <2>1, <3>1 DEF OrderInv
  <2>3. CASE Len(dmaQueue) # QueueDepth
    <3>1. dmaQueue' = Append(dmaQueue, eof) /\ dmaQueue \in Seq(Buffers)
      BY <1>3, <2>3 DEF SlcIsr, TypeOK
    <3>2. PICK l \in Nat : l = Len(dmaQueue) /\ l < I2SDMABUFCNT - 1
      BY <2>3, <3>1, LenProperties DEF TypeOK, QueueDepth
    <3>3. Len(dmaQueue') = l + 1
      BY <2>1, <3>1, <3>2, PushFacts
    <3>4. Before(NextLink(eof), (l + 1) + 1) = Before(eof, l + 1)
      <4>1. l + 1 \in 0..I2SDMABUFCNT - 1
        BY <3>2
      <4> QED
        BY <2>1, <4>1, RingPlaces
    <3>5. Silent => Silent'
      BY <2>1 DEF Silent, pusher
    <3>6. CASE Filling
      <4>1. PICK t \in Nat : Filled(t)
        BY <3>6 DEF Filling
      <4>2. Filled(t)'
        BY <2>1, <4>1 DEF Filled, pusher
      <4> QED
        BY <2>1, <3>2, <3>3, <3>4, <3>6, <4>2 DEF Filling, OrderInv, pusher
    <3> QED
      BY <2>1, <3>5, <3>6 DEF OrderInv
  <2> QED
    BY <2>2, <2>3
<1>4. CASE PushCall
  <2>1. /\ UNCHANGED <<Told, dmaQueue, currDMABuff, currDMABuffPos, pushed, i2sBuf, late>>
        /\ ppc' = "pop" => currDMABuffPos = I2SDMABUFLEN \/ currDMABuff = None
    BY <1>4 DEF PushCall, hardware, Told
  <2>2. CASE late
    BY <2>1, <2>2 DEF OrderInv
  <2>3. CASE ~late
    <3>1. currDMABuff = None => Silent
      BY <2>3 DEF OrderInv, Filling, Buffers, None
    <3> QED
      BY <1>1, <2>1, <3>1
  <2> QED
    BY <2>2, <2>3
<1>5. CASE PushPop
  BY <1>5, OrderPop
<1>6. CASE PushWrite
  BY <1>6, OrderWrite
<1>7. CASE UNCHANGED vars
  BY <1>1, <1>7 DEF vars, hardware, pusher, Told
<1> QED
  BY <1>2, <1>3, <1>4, <1>5, <1>6, <1>7 DEF Next

(* The buffer the engine goes on to, if it has been refilled, is not the   *)
(* one that is refilled next.                                              *)
LEMMA NextIsFilled ==
  ASSUME TypeOK, QueueIsRing, Filling, Dma, ~late'
  PROVE  \E k \in 0..I2SDMABUFCNT - 2 :
           /\ dma' = Before(currDMABuff, k)
           /\ dma = Before(currDMABuff, k + 1)
           /\ k = 0 => currDMABuffPos = I2SDMABUFLEN
<1> USE RingAssumption
<1>1. /\ eof = None /\ dma \in Buffers /\ dma' = NextLink(dma) /\ Told = dma
      /\ ~Queued(dma')
      /\ currDMABuff = dma' => currDMABuffPos = I2SDMABUFLEN
      /\ currDMABuff \in Buffers /\ currDMABuff = Before(dma, Len(dmaQueue) + 1)
  BY DEF Dma, TypeOK, Told, Filling
<1>2. PICK l \in Nat : l = Len(dmaQueue) /\ l \in 0..I2SDMABUFCNT - 1
  BY LenProperties DEF TypeOK, QueueDepth
<1>3. PICK j \in 1..I2SDMABUFCNT : dma = Before(currDMABuff, j)
  BY <1>1, RingPlaces
<1>4. PICK k \in 0..I2SDMABUFCNT - 1 : j = k + 1
  <2>1. j - 1 \in 0..I2SDMABUFCNT - 1 /\ j = (j - 1) + 1
    OBVIOUS
  <2> QED
    BY <2>1
<1>5. dma' = Before(currDMABuff, k)
  BY <1>1, <1>3, <1>4, RingPlaces
<1>6. k = 0 => currDMABuffPos = I2SDMABUFLEN
  BY <1>1, <1>5, RingPlaces
<1>7. k # I2SDMABUFCNT - 1
  <2> SUFFICES ASSUME k = I2SDMABUFCNT - 1 PROVE FALSE
    OBVIOUS
  <2>1. dma = currDMABuff
    BY <1>1, <1>3, <1>4, RingPlaces
  <2>2. l = I2SDMABUFCNT - 1
    <3>1. l + 1 \in 1..I2SDMABUFCNT - 1 \/ l = I2SDMABUFCNT - 1
      BY <1>2
    <3> QED
      BY <1>1, <1>2, <2>1, <3>1, RingPlaces
  <2>3. 1 \in 1..Len(dmaQueue) /\ Len(dmaQueue) + 1 - 1 = l
    BY <1>2, <2>2
  <2>4. dmaQueue[1] = Before(dma, l)
    BY <1>1, <2>3, Zenon DEF QueueIsRing
  <2>5. dmaQueue[1] = dma'
    BY <1>5, <2>1, <2>2, <2>4
  <2> QED
    BY <1>1, <2>3, <2>5 DEF Queued
<1> QED
  BY <1>3, <1>4, <1>5, <1>6, <1>7

(* One buffer after the other.                                             *)
LEMMA BufferFollows ==
  ASSUME NEW t \in Nat, NEW k \in Nat
  PROVE  /\ Sample(t, k, 0) = IF Sample(t, k + 1, I2SDMABUFLEN - 1) = 0 /\ Sample(t, k, 0) = 0
                                THEN 0 ELSE Sample(t, k + 1, I2SDMABUFLEN - 1) + 1
         /\ \A p \in 1..I2SDMABUFLEN - 1 :
              Sample(t, k, p) = IF Sample(t, k, 0) = 0 THEN 0 ELSE Sample(t, k, 0) + p
<1> USE RingAssumption
<1>1. CASE t < k
  BY <1>1 DEF Sample
<1>2. CASE t = k
  <2>1. (t - k) * I2SDMABUFLEN = 0
    BY <1>2
  <2> QED
    BY <1>2, <2>1 DEF Sample
<1>3. CASE t > k
  <2>1. PICK d \in Nat : t - (k + 1) = d /\ t - k = d + 1
    <3>1. t - (k + 1) \in Nat /\ t - k = (t - (k + 1)) + 1
      BY <1>3
    <3> QED
      BY <3>1
  <2>2. PICK m \in Nat : m = d * I2SDMABUFLEN /\ (d + 1) * I2SDMABUFLEN = m + I2SDMABUFLEN
    <3>1. d * I2SDMABUFLEN \in Nat /\ (d + 1) * I2SDMABUFLEN = d * I2SDMABUFLEN + I2SDMABUFLEN
      OBVIOUS
    <3> QED
      BY <3>1
  <2>3. /\ \A p \in 0..I2SDMABUFLEN - 1 : Sample(t, k, p) = m + I2SDMABUFLEN + p + 1
        /\ Sample(t, k + 1, I2SDMABUFLEN - 1) = m + I2SDMABUFLEN
    BY <1>3, <2>1, <2>2 DEF Sample
  <2> QED
    BY <2>2, <2>3
<1> QED
  BY <1>1, <1>2, <1>3

LEMMA OrderInvariance == SafeSpec => []OrderInv
<1>1. Init => OrderInv
  BY OrderInit
<1>2. TypeOK /\ QueueIsRing /\ LateInv /\ OrderInv /\ [Next]_vars => OrderInv'
  BY OrderStep
<1> QED
  BY <1>1, <1>2, I2sInvariance, PTL DEF SafeSpec

(* As long as the decoder has kept up, what is sent is what was pushed, in *)
(* its order, without a gap or a repetition, for every number and length   *)
(* of buffers (lines 84-94 and 287-295).                                   *)
THEOREM SentAsPushed == SafeSpec => PlaysInOrder
<1> DEFINE Follows ==
      /\ First(dma') = IF Last(dma) = 0 /\ First(dma') = 0
                         THEN 0 ELSE Last(dma) + 1
      /\ \A p \in 1 .. I2SDMABUFLEN - 1 :
           i2sBuf[dma'][p] = IF First(dma') = 0 THEN 0 ELSE First(dma') + p
<1>1. ASSUME TypeOK, QueueIsRing, OrderInv, [Next]_vars, dma' # dma, ~late'
      PROVE  Follows
  <2> USE RingAssumption
  <2>1. Dma
    BY <1>1 DEF Next, vars, hardware, SlcIsr, PushCall, PushPop, PushWrite
  <2>2. /\ dma \in Buffers /\ dma' \in Buffers /\ ~late
        /\ 0 \in Positions /\ I2SDMABUFLEN - 1 \in Positions
        /\ \A p \in 1 .. I2SDMABUFLEN - 1 : p \in Positions
    BY <1>1, <2>1, NextLinkInRing DEF Dma, TypeOK, Positions
  <2>3. CASE Silent
    BY <2>2, <2>3 DEF Silent, First, Last
  <2>4. CASE Filling
    <3>1. PICK k \in 0..I2SDMABUFCNT - 2 :
            /\ dma' = Before(currDMABuff, k)
            /\ dma = Before(currDMABuff, k + 1)
            /\ k = 0 => currDMABuffPos = I2SDMABUFLEN
      BY <1>1, <2>1, <2>4, NextIsFilled
    <3>2. PICK t \in Nat : Filled(t)
      BY <2>4 DEF Filling
    <3>3. \A p \in Positions : i2sBuf[dma'][p] = Sample(t, k, p)
      <4>1. k \in 0..I2SDMABUFCNT /\ k # I2SDMABUFCNT
        OBVIOUS
      <4>2. \A p \in Positions : k = 0 => p < currDMABuffPos
        BY <3>1 DEF Positions
      <4> QED
        BY <3>1, <3>2, <4>1, <4>2 DEF Filled
    <3>4. Last(dma) = Sample(t, k + 1, I2SDMABUFLEN - 1)
      <4>1. k + 1 \in 0..I2SDMABUFCNT /\ k + 1 # 0 /\ k + 1 # I2SDMABUFCNT
        OBVIOUS
      <4> QED
        BY <2>2, <3>1, <3>2, <4>1 DEF Filled, Last
    <3>5. First(dma') = Sample(t, k, 0)
      BY <2>2, <3>3 DEF First
    <3>6. k \in Nat
      OBVIOUS
    <3>7. \A p \in 1 .. I2SDMABUFLEN - 1 : i2sBuf[dma'][p] = Sample(t, k, p)
      BY <2>2, <3>3
    <3> QED
      BY <3>4, <3>5, <3>6, <3>7, BufferFollows
  <2> QED
    BY <1>1, <2>2, <2>3, <2>4 DEF OrderInv
<1>2. TypeOK /\ QueueIsRing /\ OrderInv /\ [Next]_vars
        => [dma' # dma /\ ~late' => Follows]_vars
  BY <1>1
<1> QED
  BY <1>2, I2sInvariance, OrderInvariance, PTL DEF SafeSpec, PlaysInOrder
-----------------------------------------------------------------------------
\* What the fair actions of a waiting push wait for: their guards.  (Whatever
\* the other variables are, an action's primed variables have values.)
GuardsEnable ==
  /\ eof = None => ENABLED <<Dma>>_vars
  /\ eof # None => ENABLED <<SlcIsr>>_vars
  /\ ppc = "pop" /\ dmaQueue # <<>> => ENABLED <<PushPop>>_vars

\* The three places a push that waits for a buffer can be in: a buffer is being
\* sent, it has been sent, one is on the queue.
Sending == ppc = "pop" /\ dmaQueue = <<>> /\ eof = None
Ended == ppc = "pop" /\ dmaQueue = <<>> /\ eof # None
Refillable == ppc = "pop" /\ dmaQueue # <<>>

(* A step of the engine, of the interrupt or of the task takes a waiting   *)
(* push one place further, and no step takes it back.                      *)
LEMMA SendingEnds ==
  /\ TypeOK /\ Sending /\ [Next]_vars => Sending' \/ Ended'
  /\ TypeOK /\ Sending /\ <<Dma>>_vars => Ended'
<1>1. ASSUME TypeOK, Sending, Dma PROVE Ended'
  BY <1>1, RingAssumption DEF Dma, pusher, TypeOK, None, Buffers, Sending, Ended
<1>2. ASSUME Sending, UNCHANGED vars PROVE Sending'
  BY <1>2 DEF vars, hardware, pusher, Sending
<1> QED
  BY <1>1, <1>2 DEF Next, SlcIsr, PushCall, PushPop, PushWrite, Sending

LEMMA PushedOnQueue ==
  ASSUME TypeOK, ppc = "pop", SlcIsr
  PROVE  Refillable'
<1>1. dmaQueue \in Seq(Buffers) /\ eof \in Buffers /\ ppc' = "pop"
  BY DEF TypeOK, SlcIsr, pusher
<1>2. Tail(dmaQueue) \in Seq(Buffers) \/ Len(dmaQueue) # QueueDepth
  <2>1. Len(dmaQueue) = QueueDepth => dmaQueue # <<>>
    BY <1>1, RingAssumption DEF QueueDepth
  <2> QED
    BY <1>1, <2>1, PopFacts
<1>3. \A q \in Seq(Buffers) : Append(q, eof) # <<>>
  <2> SUFFICES ASSUME NEW q \in Seq(Buffers) PROVE Append(q, eof) # <<>>
    OBVIOUS
  <2>1. Len(Append(q, eof)) = Len(q) + 1 /\ Len(q) \in Nat
    BY <1>1, PushFacts
  <2> QED
    BY <2>1
<1>4. \/ dmaQueue' = Append(dmaQueue, eof)
      \/ Len(dmaQueue) = QueueDepth /\ dmaQueue' = Append(Tail(dmaQueue), eof)
  BY DEF SlcIsr
<1> QED
  BY <1>1, <1>2, <1>3, <1>4 DEF Refillable

LEMMA EndedIsQueued ==
  /\ TypeOK /\ Ended /\ [Next]_vars => Ended' \/ Refillable'
  /\ TypeOK /\ Ended /\ <<SlcIsr>>_vars => Refillable'
<1>1. ASSUME Ended, UNCHANGED vars PROVE Ended'
  BY <1>1 DEF vars, hardware, pusher, Ended
<1> QED
  BY <1>1, PushedOnQueue DEF Next, Dma, PushCall, PushPop, PushWrite, Ended

LEMMA RefillableIsPopped ==
  /\ TypeOK /\ Refillable /\ [Next]_vars => Refillable' \/ (ppc = "write")'
  /\ TypeOK /\ Refillable /\ <<PushPop>>_vars => (ppc = "write")'
<1>1. ASSUME Refillable, UNCHANGED vars \/ Dma PROVE Refillable'
  BY <1>1 DEF vars, hardware, pusher, Refillable, Dma
<1>2. ASSUME PushPop PROVE (ppc = "write")'
  BY <1>2 DEF PushPop
<1> QED
  BY <1>1, <1>2, PushedOnQueue DEF Next, PushCall, PushWrite, Refillable

\* A push that waits for a buffer gets one, for every number of buffers and
\* whatever the engine and the interrupt do meanwhile (lines 84-94, 287-295).
THEOREM PushIsResumed == Spec /\ []GuardsEnable => PushResumes
<1>1. Spec => []TypeOK
  BY I2sTypeCorrect, PTL DEF Spec, SafeSpec
<1>2. /\ Sending /\ GuardsEnable => ENABLED <<Dma>>_vars
      /\ Ended /\ GuardsEnable => ENABLED <<SlcIsr>>_vars
      /\ Refillable /\ GuardsEnable => ENABLED <<PushPop>>_vars
  BY DEF GuardsEnable, Sending, Ended, Refillable
<1>3. ppc = "pop" <=> Sending \/ Ended \/ Refillable
  BY DEF Sending, Ended, Refillable
<1>4. Spec /\ []GuardsEnable => (Sending ~> Ended)
  BY <1>1, <1>2, SendingEnds, PTL DEF Spec
<1>5. Spec /\ []GuardsEnable => (Ended ~> Refillable)
  BY <1>1, <1>2, EndedIsQueued, PTL DEF Spec
<1>6. Spec /\ []GuardsEnable => (Refillable ~> (ppc = "write"))
  BY <1>1, <1>2, RefillableIsPopped, PTL DEF Spec
<1> QED
  BY <1>3, <1>4, <1>5, <1>6, PTL DEF PushResumes
=============================================================================
