----------------------------- MODULE SpiRamFifo -----------------------------
(***************************************************************************)
(* The MP3 byte fifo of src/mp3/user/spiram_fifo.c: a ring of SPIRAMSIZE   *)
(* bytes between the network reader task, which calls spiRamFifoWrite, and *)
(* the MAD decoder task, which calls spiRamFifoRead.  One mutex guards the *)
(* ring; two binary semaphores put a task to sleep when its side is short  *)
(* and wake it up again.                                                   *)
(*                                                                         *)
(* A step of this module is a stretch of code between two points where the *)
(* other task can tell the difference: taking the mutex, copying, storing  *)
(* the new fill, giving the mutex, giving a semaphore, falling asleep.     *)
(* Bytes are numbered 1, 2, 3, ... in the order the network delivers them  *)
(* and a byte's number is its value.                                       *)
(*                                                                         *)
(* A definition that stands right before another one, without a comment of *)
(* its own, is that other one with a plausible bug in it: the properties   *)
(* below are checked to notice it.                                         *)
(***************************************************************************)
EXTENDS Integers

CONSTANTS SPIRAMSIZE,     \* size of the ring (1850, or 128K with the chip)
          SPIREADSIZE,    \* most bytes copied per turn of the mutex (64)
          FIFO_LOWMARK,   \* below this fill a short reader goes to sleep (112K)
          MaxWrite,       \* longest write a caller asks for
          MaxRead,        \* longest read a caller asks for
          MaxStream,      \* bound: bytes the network delivers
          CntCap          \* bound: the two event counters saturate here

ASSUME SizeAssumption ==
  /\ SPIREADSIZE \in Nat /\ SPIREADSIZE > 0
  /\ SPIRAMSIZE \in Nat /\ SPIRAMSIZE > 0
ASSUME LowmarkAssumption == FIFO_LOWMARK \in Nat
ASSUME BoundAssumption ==
  /\ MaxWrite \in Nat /\ MaxRead \in Nat
  /\ MaxStream \in Nat /\ CntCap \in Nat

VARIABLES
  fifoRpos, fifoWpos, fifoFill,   \* the ring's indices and fill
  fifoOvfCnt, fifoUdrCnt,         \* writes and reads that found it short
  mux,                            \* holder of the mutex, or "free"
  semCanRead, semCanWrite,        \* the binary semaphores, 0 or 1
  mem,                            \* the ring's bytes
  wpc, wlen, wn, wreg,            \* spiRamFifoWrite: place, len, n, loaded fill
  sent,                           \* bytes copied in; the next one is sent + 1
  rpc, rlen, rn, rreg,            \* spiRamFifoRead: place, len, n, loaded fill
  rgot, dest,                     \* bytes copied to the caller, and its buffer
  taken                           \* bytes copied out since start-up

ring == <<fifoRpos, fifoWpos, fifoFill, mem>>
counts == <<fifoOvfCnt, fifoUdrCnt>>
sems == <<semCanRead, semCanWrite>>
writer == <<wpc, wlen, wn, wreg, sent>>
reader == <<rpc, rlen, rn, rreg, rgot, dest, taken>>
vars == <<ring, counts, mux, sems, writer, reader>>

Cells == 0 .. SPIRAMSIZE - 1
Slots == 1 .. MaxRead
Blank == [i \in Slots |-> 0]

WriterPlaces == {"idle", "take", "check", "update", "signal", "wait"}
ReaderPlaces == WriterPlaces \cup {"mark"}
-----------------------------------------------------------------------------
\* How many bytes one turn copies: at most SPIREADSIZE and not past the end.
ChunkPastEnd(len, pos) == IF len > SPIREADSIZE THEN SPIREADSIZE ELSE len
Chunk(len, pos) ==
  LET n == IF len > SPIREADSIZE THEN SPIREADSIZE ELSE len
  IN  IF n > SPIRAMSIZE - pos THEN SPIRAMSIZE - pos ELSE n

\* An index after n more bytes; it returns to 0 at the end of the ring.
AdvanceLate(pos, n) == IF pos + n > SPIRAMSIZE THEN 0 ELSE pos + n
Advance(pos, n) == IF pos + n >= SPIRAMSIZE THEN 0 ELSE pos + n

\* Room the writer sees under the mutex.
RoomOffByOne == SPIRAMSIZE - fifoFill + 1
RoomOneFree == SPIRAMSIZE - fifoFill - 1
Room == SPIRAMSIZE - fifoFill

\* An event counter; no decision of this module depends on its value.
Bump(c) == IF c < CntCap THEN c + 1 ELSE c

\* spiRamFifoInit: vSemaphoreCreateBinary leaves both semaphores given.
Init ==
  /\ fifoRpos = 0 /\ fifoWpos = 0 /\ fifoFill = 0
  /\ fifoOvfCnt = 0 /\ fifoUdrCnt = 0
  /\ mux = "free" /\ semCanRead = 1 /\ semCanWrite = 1
  /\ mem = [p \in Cells |-> 0]
  /\ wpc = "idle" /\ wlen = 0 /\ wn = 0 /\ wreg = 0 /\ sent = 0
  /\ rpc = "idle" /\ rlen = 0 /\ rn = 0 /\ rreg = 0
  /\ rgot = 0 /\ dest = Blank /\ taken = 0
-----------------------------------------------------------------------------
(* spiRamFifoWrite, run by the network reader task                         *)

\* The caller hands over the next len bytes of the stream.
WriteCall(len) ==
  /\ wpc = "idle"
  /\ sent + len <= MaxStream
  /\ wlen' = len /\ wpc' = "take"
  /\ UNCHANGED <<ring, counts, mux, sems, wn, wreg, sent, reader>>

\* n is worked out (no other task moves fifoWpos), then the mutex is taken.
WTakeUnlocked ==
  /\ wpc = "take"
  /\ wn' = Chunk(wlen, fifoWpos)
  /\ mux' = "writer" /\ wpc' = "check"
  /\ UNCHANGED <<ring, counts, sems, wlen, wreg, sent, reader>>
WTake ==
  /\ wpc = "take" /\ mux = "free"
  /\ wn' = Chunk(wlen, fifoWpos)
  /\ mux' = "writer" /\ wpc' = "check"
  /\ UNCHANGED <<ring, counts, sems, wlen, wreg, sent, reader>>

\* No room: count it, give the mutex, and go and wait for a read.
WFull ==
  /\ wpc = "check" /\ Room < wn
  /\ fifoOvfCnt' = Bump(fifoOvfCnt)
  /\ mux' = "free" /\ wpc' = "wait"
  /\ UNCHANGED <<ring, fifoUdrCnt, sems, wlen, wn, wreg, sent, reader>>

\* Room: the bytes go to the ring and fifoFill is loaded to be added to.
WCopy ==
  /\ wpc = "check" /\ ~(Room < wn)
  /\ mem' = [p \in Cells |-> IF fifoWpos <= p /\ p < fifoWpos + wn
                               THEN sent + 1 + (p - fifoWpos) ELSE mem[p]]
  /\ sent' = sent + wn /\ wlen' = wlen - wn
  /\ wreg' = fifoFill /\ wpc' = "update"
  /\ UNCHANGED <<fifoRpos, fifoWpos, fifoFill, counts, mux, sems, wn, reader>>

\* The sum is stored, the index moves on, the mutex is given.
WUpdate ==
  /\ wpc = "update"
  /\ fifoFill' = wreg + wn
  /\ fifoWpos' = Advance(fifoWpos, wn)
  /\ wreg' = 0 /\ mux' = "free" /\ wpc' = "signal"
  /\ UNCHANGED <<fifoRpos, mem, counts, sems, wlen, wn, sent, reader>>

\* The reader is told there is data; the loop ends when len is used up.
WSignalForgotten ==
  /\ wpc = "signal"
  /\ wpc' = IF wlen > 0 THEN "take" ELSE "idle"
  /\ UNCHANGED <<ring, counts, mux, sems, wlen, wn, wreg, sent, reader>>
WSignal ==
  /\ wpc = "signal"
  /\ semCanRead' = 1
  /\ wpc' = IF wlen > 0 THEN "take" ELSE "idle"
  /\ UNCHANGED <<ring, counts, mux, semCanWrite, wlen, wn, wreg, sent, reader>>

WWait ==
  /\ wpc = "wait" /\ semCanWrite = 1
  /\ semCanWrite' = 0 /\ wpc' = "take"
  /\ UNCHANGED <<ring, counts, mux, semCanRead, wlen, wn, wreg, sent, reader>>

WStep == WTake \/ WFull \/ WCopy \/ WUpdate \/ WSignal \/ WWait
-----------------------------------------------------------------------------
(* spiRamFifoRead, run by the MAD task                                     *)

\* The caller presents a buffer and asks for len bytes.
ReadCall(len) ==
  /\ rpc = "idle"
  /\ rlen' = len /\ rgot' = 0 /\ dest' = Blank /\ rpc' = "take"
  /\ UNCHANGED <<ring, counts, mux, sems, writer, rn, rreg, taken>>

RTake ==
  /\ rpc = "take" /\ mux = "free"
  /\ rn' = Chunk(rlen, fifoRpos)
  /\ mux' = "reader" /\ rpc' = "check"
  /\ UNCHANGED <<ring, counts, sems, writer, rlen, rreg, rgot, dest, taken>>

\* Not enough data: count it and give the mutex.
RShort ==
  /\ rpc = "check" /\ fifoFill < rn
  /\ fifoUdrCnt' = Bump(fifoUdrCnt)
  /\ mux' = "free" /\ rpc' = "mark"
  /\ UNCHANGED <<ring, fifoOvfCnt, sems, writer,
                 rlen, rn, rreg, rgot, dest, taken>>

\* fifoFill is read again without the mutex: sleep only below the mark.
RMark ==
  /\ rpc = "mark"
  /\ rpc' = IF fifoFill < FIFO_LOWMARK THEN "wait" ELSE "take"
  /\ UNCHANGED <<ring, counts, mux, sems, writer,
                 rlen, rn, rreg, rgot, dest, taken>>

\* Enough data: it goes to the caller's buffer and fifoFill is loaded.
RCopy ==
  /\ rpc = "check" /\ ~(fifoFill < rn)
  /\ dest' = [i \in Slots |-> IF rgot < i /\ i <= rgot + rn
                                THEN mem[fifoRpos + (i - rgot - 1)] ELSE dest[i]]
  /\ rgot' = rgot + rn /\ rlen' = rlen - rn /\ taken' = taken + rn
  /\ rreg' = fifoFill /\ rpc' = "update"
  /\ UNCHANGED <<ring, counts, mux, sems, writer, rn>>

RUpdate ==
  /\ rpc = "update"
  /\ fifoFill' = rreg - rn
  /\ fifoRpos' = Advance(fifoRpos, rn)
  /\ rreg' = 0 /\ mux' = "free" /\ rpc' = "signal"
  /\ UNCHANGED <<fifoWpos, mem, counts, sems, writer,
                 rlen, rn, rgot, dest, taken>>

\* The writer is told there is room; the loop ends when len is used up.
RSignalForgotten ==
  /\ rpc = "signal"
  /\ rpc' = IF rlen > 0 THEN "take" ELSE "idle"
  /\ UNCHANGED <<ring, counts, mux, sems, writer,
                 rlen, rn, rreg, rgot, dest, taken>>
RSignal ==
  /\ rpc = "signal"
  /\ semCanWrite' = 1
  /\ rpc' = IF rlen > 0 THEN "take" ELSE "idle"
  /\ UNCHANGED <<ring, counts, mux, semCanRead, writer,
                 rlen, rn, rreg, rgot, dest, taken>>

RWait ==
  /\ rpc = "wait" /\ semCanRead = 1
  /\ semCanRead' = 0 /\ rpc' = "take"
  /\ UNCHANGED <<ring, counts, mux, semCanWrite, writer,
                 rlen, rn, rreg, rgot, dest, taken>>

RStep == RTake \/ RShort \/ RMark \/ RCopy \/ RUpdate \/ RSignal \/ RWait
-----------------------------------------------------------------------------
Next == \/ \E len \in 1..MaxWrite : WriteCall(len)
        \/ \E len \in 1..MaxRead : ReadCall(len)
        \/ WStep
        \/ RStep

SafeSpec == Init /\ [][Next]_vars

\* FreeRTOS keeps running a ready task: the decoder has the lower priority,
\* but the network reader always gives way when it waits for the network or
\* for room.  Neither task is made to start another call.
Spec == SafeSpec /\ WF_vars(WStep) /\ WF_vars(RStep)
-----------------------------------------------------------------------------
TypeOK ==
  /\ fifoRpos \in Cells /\ fifoWpos \in Cells
  /\ fifoFill \in 0..SPIRAMSIZE
  /\ fifoOvfCnt \in 0..CntCap /\ fifoUdrCnt \in 0..CntCap
  /\ mux \in {"free", "writer", "reader"}
  /\ semCanRead \in {0, 1} /\ semCanWrite \in {0, 1}
  /\ mem \in [Cells -> Nat]
  /\ wpc \in WriterPlaces /\ wlen \in Nat /\ wn \in Nat /\ wreg \in Nat
  /\ rpc \in ReaderPlaces /\ rlen \in Nat /\ rn \in Nat /\ rreg \in Nat
  /\ rgot \in 0..MaxRead /\ dest \in [Slots -> Nat]
  /\ sent \in Nat /\ taken \in Nat

\* Where the next byte goes and where the next one comes from, counting the
\* chunk that is copied but not accounted for yet.
WPos == IF wpc = "update" THEN Advance(fifoWpos, wn) ELSE fifoWpos
RPos == IF rpc = "update" THEN Advance(fifoRpos, rn) ELSE fifoRpos

\* An index into the ring that may lie one turn too far.
Wrap(p) == IF p >= SPIRAMSIZE THEN p - SPIRAMSIZE ELSE p

(* The fill is the number of bytes written and not yet read: with the two  *)
(* tasks adding to it and subtracting from it, no update is ever lost and  *)
(* it differs from the true number only by a chunk in hand (lines 83, 112).*)
FillExact ==
  fifoFill = sent - taken - (IF wpc = "update" THEN wn ELSE 0)
                          + (IF rpc = "update" THEN rn ELSE 0)

(* Every byte written and not yet read is still in its place in the ring:  *)
(* wrap-around never lets the writer run over the reader (lines 98-114).   *)
RingHolds ==
  /\ sent - taken \in 0..SPIRAMSIZE
  /\ WPos = Wrap(RPos + (sent - taken))
  /\ \A i \in 0 .. (sent - taken) - 1 : mem[Wrap(RPos + i)] = taken + i + 1

(* What a read call has put in its caller's buffer is the next stretch of  *)
(* the stream: no byte lost, repeated or out of order over any number of   *)
(* chunks, waits and wrap-arounds (lines 65-90).                           *)
ReadInOrder == \A i \in 1..rgot : dest[i] = taken - rgot + i

(* A task sleeps on a semaphore that is not given only while its side is   *)
(* short, or while the other task is about to give it: the check under the *)
(* mutex and the sleep after it lose no wake-up (lines 72-77, 101-106).    *)
NoLostWakeup ==
  /\ wpc = "wait" /\ semCanWrite = 0 => Room < wn \/ rpc = "signal"
  /\ rpc = "wait" /\ semCanRead = 0 => fifoFill < rn \/ wpc = "signal"

(* The two tasks never sleep on each other, although a chunk may be longer *)
(* than half the ring: since no chunk passes the end of the ring (lines 69 *)
(* and 98), the ring cannot be short of both data and room.                *)
NeverBothAsleep ==
  ~(wpc = "wait" /\ semCanWrite = 0 /\ rpc = "wait" /\ semCanRead = 0)

(* A read whose bytes have all been written returns, whatever the writer   *)
(* does next: it need not be called again to wake the reader up.           *)
ReadReturns == (rpc # "idle" /\ rlen <= sent - taken) ~> (rpc = "idle")

(* The ring with its mutex and semaphores implements the byte pipe: a copy *)
(* in is a Put, a copy out a Get, a new read call a Present, and every     *)
(* other step of either task is invisible.                                 *)
Pipe == INSTANCE ByteFifo
          WITH Capacity <- SPIRAMSIZE, MaxCall <- MaxRead, got <- rgot
ImplementsByteFifo == Pipe!Spec
=============================================================================
