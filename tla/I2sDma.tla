------------------------------- MODULE I2sDma -------------------------------
(***************************************************************************)
(* The audio output of src/mp3/driver/i2s_freertos.c.  The SLC DMA engine  *)
(* sends a ring of I2SDMABUFCNT buffers for ever and raises an interrupt   *)
(* at the end of each; slc_isr puts the finished buffer on dmaQueue; the   *)
(* decoder task, in i2sPushSample, takes buffers off the queue and fills   *)
(* them with I2SDMABUFLEN samples each.                                    *)
(*                                                                         *)
(* Samples are numbered 1, 2, 3, ... in the order they are pushed and 0 is *)
(* the silence the buffers start with.  The engine is hardware: it is      *)
(* modelled from how i2sInit programs it and slc_isr reads it.  It never   *)
(* waits for the software.  Assumed: an end-of-buffer interrupt is served  *)
(* before the next buffer (64 samples, 1.5 ms) has been sent.              *)
(*                                                                         *)
(* A definition that stands right before another one, without a comment of *)
(* its own, is that other one with a plausible bug in it: the properties   *)
(* below are checked to notice it.                                         *)
(***************************************************************************)
EXTENDS Integers, Sequences

CONSTANTS I2SDMABUFCNT,   \* buffers in the ring (14)
          I2SDMABUFLEN,   \* samples per buffer (64)
          MaxSamples,     \* bound: samples the decoder pushes
          UdrCap          \* bound: the underrun counter saturates here

ASSUME RingAssumption ==
  /\ I2SDMABUFCNT \in Nat /\ I2SDMABUFCNT >= 2
  /\ I2SDMABUFLEN \in Nat /\ I2SDMABUFLEN > 0
ASSUME SampleAssumption == MaxSamples \in Nat /\ UdrCap \in Nat

VARIABLES
  dma,             \* buffer the engine is sending
  eof,             \* finished buffer whose interrupt is pending, or None
  dmaQueue,        \* buffers to be filled
  underrunCnt,
  currDMABuff,     \* buffer the decoder is filling, or None
  currDMABuffPos,
  ppc,             \* where i2sPushSample is
  pushed,          \* samples pushed so far
  i2sBuf,          \* contents of the buffers
  late             \* history: the engine has reached a buffer not refilled yet

hardware == <<dma, eof, late>>
pusher == <<currDMABuff, currDMABuffPos, ppc, pushed, i2sBuf>>
vars == <<hardware, dmaQueue, underrunCnt, pusher>>

Buffers == 0 .. I2SDMABUFCNT - 1
Positions == 0 .. I2SDMABUFLEN - 1
None == -1
QueueDepth == I2SDMABUFCNT - 1

\* next_link_ptr of the descriptors that i2sInit links to a circle.
NextLinkOpen(b) == IF b < I2SDMABUFCNT THEN b + 1 ELSE 0
NextLink(b) == IF b < I2SDMABUFCNT - 1 THEN b + 1 ELSE 0

Queued(b) == \E i \in 1 .. Len(dmaQueue) : dmaQueue[i] = b

\* i2sInit: silence everywhere, the engine is started on buffer 0.
Init ==
  /\ dma = 0 /\ eof = None /\ late = FALSE
  /\ dmaQueue = <<>> /\ underrunCnt = 0
  /\ currDMABuff = None /\ currDMABuffPos = 0
  /\ ppc = "idle" /\ pushed = 0
  /\ i2sBuf = [b \in Buffers |-> [p \in Positions |-> 0]]
-----------------------------------------------------------------------------
\* The engine comes to the end of a buffer, raises the interrupt and goes on
\* with the next one, refilled or not.
Dma ==
  /\ eof = None
  /\ eof' = dma /\ dma' = NextLink(dma)
  /\ late' = \/ late \/ Queued(dma')
             \/ currDMABuff = dma' /\ currDMABuffPos < I2SDMABUFLEN
  /\ UNCHANGED <<dmaQueue, underrunCnt, pusher>>

\* slc_isr: a full queue means that the engine has nothing fresh to send; its
\* first buffer is the one being sent now and is dropped.
SlcIsrDeaf ==
  /\ eof # None /\ eof' = None
  /\ dmaQueue' = IF Len(dmaQueue) = QueueDepth THEN Tail(dmaQueue) ELSE dmaQueue
  /\ UNCHANGED <<dma, late, underrunCnt, pusher>>
SlcIsrEarlyCount ==
  /\ eof # None /\ eof' = None
  /\ IF Len(dmaQueue) >= QueueDepth - 1
       THEN /\ underrunCnt' = IF underrunCnt < UdrCap THEN underrunCnt + 1
                                                      ELSE underrunCnt
            /\ dmaQueue' = Append(Tail(dmaQueue), eof)
       ELSE /\ dmaQueue' = Append(dmaQueue, eof)
            /\ UNCHANGED underrunCnt
  /\ UNCHANGED <<dma, late, pusher>>
SlcIsr ==
  /\ eof # None
  /\ IF Len(dmaQueue) = QueueDepth
       THEN /\ underrunCnt' = IF underrunCnt < UdrCap THEN underrunCnt + 1
                                                      ELSE underrunCnt
            /\ dmaQueue' = Append(Tail(dmaQueue), eof)
       ELSE /\ dmaQueue' = Append(dmaQueue, eof)
            /\ UNCHANGED underrunCnt
  /\ eof' = None
  /\ UNCHANGED <<dma, late, pusher>>
-----------------------------------------------------------------------------
(* i2sPushSample, run by the decoder task.  The interrupt comes before the *)
(* task's next step, except that xQueueReceive masks it while it takes the *)
(* buffer off the queue.                                                   *)

PushCall ==
  /\ ppc = "idle" /\ eof = None
  /\ pushed < MaxSamples
  /\ ppc' = IF currDMABuffPos = I2SDMABUFLEN \/ currDMABuff = None
              THEN "pop" ELSE "write"
  /\ UNCHANGED <<hardware, dmaQueue, underrunCnt, currDMABuff, currDMABuffPos,
                 pushed, i2sBuf>>

\* xQueueReceive: blocks while the queue is empty.
PushPopLast ==
  /\ ppc = "pop" /\ dmaQueue # <<>>
  /\ currDMABuff' = dmaQueue[Len(dmaQueue)]
  /\ dmaQueue' = SubSeq(dmaQueue, 1, Len(dmaQueue) - 1)
  /\ currDMABuffPos' = 0 /\ ppc' = "write"
  /\ UNCHANGED <<hardware, underrunCnt, pushed, i2sBuf>>
PushPop ==
  /\ ppc = "pop" /\ dmaQueue # <<>>
  /\ currDMABuff' = Head(dmaQueue)
  /\ dmaQueue' = Tail(dmaQueue)
  /\ currDMABuffPos' = 0 /\ ppc' = "write"
  /\ UNCHANGED <<hardware, underrunCnt, pushed, i2sBuf>>

PushWrite ==
  /\ ppc = "write" /\ eof = None
  /\ i2sBuf' = [i2sBuf EXCEPT ![currDMABuff][currDMABuffPos] = pushed + 1]
  /\ currDMABuffPos' = currDMABuffPos + 1
  /\ pushed' = pushed + 1 /\ ppc' = "idle"
  /\ UNCHANGED <<hardware, dmaQueue, underrunCnt, currDMABuff>>

Next == Dma \/ SlcIsr \/ PushCall \/ PushPop \/ PushWrite

\* The engine never stops, interrupts are served, and a task that is not
\* blocked gets on: the network reader leaves it the processor.
Spec == Init /\ [][Next]_vars /\ WF_vars(Dma) /\ WF_vars(SlcIsr)
             /\ WF_vars(PushPop) /\ WF_vars(PushWrite)
SafeSpec == Init /\ [][Next]_vars
-----------------------------------------------------------------------------
TypeOK ==
  /\ dma \in Buffers /\ eof \in Buffers \cup {None} /\ late \in BOOLEAN
  /\ dmaQueue \in Seq(Buffers) /\ Len(dmaQueue) <= QueueDepth
  /\ underrunCnt \in 0..UdrCap
  /\ currDMABuff \in Buffers \cup {None} /\ currDMABuffPos \in 0..I2SDMABUFLEN
  /\ ppc \in {"idle", "pop", "write"} /\ pushed \in 0..MaxSamples
  /\ i2sBuf \in [Buffers -> [Positions -> 0..MaxSamples]]

\* The buffer k places before b in the ring.
Before(b, k) == IF b >= k THEN b - k ELSE b - k + I2SDMABUFCNT

\* The buffer being sent, as far as the software has been told.
Told == IF eof = None THEN dma ELSE eof

(* The queue is always the stretch of the ring that the engine has just    *)
(* sent: in ring order, no buffer twice, and never the one being sent      *)
(* (slc_isr's drop and push against i2sPushSample's pop, lines 84-94).     *)
QueueIsRing ==
  /\ eof # None => dma = NextLink(eof)
  /\ \A i \in 1 .. Len(dmaQueue) :
       dmaQueue[i] = Before(Told, Len(dmaQueue) + 1 - i)

First(b) == i2sBuf[b][0]
Last(b) == i2sBuf[b][I2SDMABUFLEN - 1]

(* As long as the decoder has kept up, what is sent is what was pushed, in *)
(* the order it was pushed, without a gap or a repetition: a whole buffer  *)
(* follows on the one before it, after the silence of the start.           *)
PlaysInOrder ==
  [][dma' # dma /\ ~late' =>
       /\ First(dma') = IF Last(dma) = 0 /\ First(dma') = 0
                          THEN 0 ELSE Last(dma) + 1
       /\ \A p \in 1 .. I2SDMABUFLEN - 1 :
            i2sBuf[dma'][p] = IF First(dma') = 0 THEN 0 ELSE First(dma') + p]_vars

(* A decoder that keeps up is safe: an underrun is counted, and a sample   *)
(* is put into the buffer being sent, only after the engine has gone on to *)
(* a buffer that was not refilled (lines 86-90, 289-294).                  *)
LateExplains ==
  /\ underrunCnt > 0 => late
  /\ ppc = "write" /\ currDMABuff = dma => late

(* A push that waits for a buffer gets one: the engine frees them at its   *)
(* own pace ("it will suspend the calling thread if the buffer is full and *)
(* resume when there's room again", lines 284-286).                        *)
PushResumes == (ppc = "pop") ~> (ppc = "write")
=============================================================================
