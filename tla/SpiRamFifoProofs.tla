-------------------------- MODULE SpiRamFifoProofs --------------------------
(***************************************************************************)
(* Proofs about SpiRamFifo for every ring size, chunk size, low mark and   *)
(* call length that the assumptions of that module allow.                  *)
(*                                                                         *)
(* None of the properties is inductive alone.  The invariant IInv adds     *)
(* who holds the mutex in which place (MutexInv) and what the locals of a  *)
(* call are worth there (ChunkInv); with these a step of one task leaves   *)
(* alone everything the other one relies on.                               *)
(***************************************************************************)
EXTENDS SpiRamFifo, TLAPS

(* The mutex is held exactly between its take and its give.                *)
MutexInv ==
  /\ wpc \in {"check", "update"} <=> mux = "writer"
  /\ rpc \in {"check", "update"} <=> mux = "reader"

(* What the locals of the two calls are worth at each place.               *)
ChunkInv ==
  /\ wpc = "check" => wn = Chunk(wlen, fifoWpos)
  /\ wpc = "update" => /\ wreg = fifoFill
                       /\ wn <= SPIRAMSIZE - fifoWpos
                       /\ wn <= SPIRAMSIZE - fifoFill
  /\ rpc = "check" => rn = Chunk(rlen, fifoRpos)
  /\ rpc = "update" => /\ rreg = fifoFill
                       /\ rn <= SPIRAMSIZE - fifoRpos
                       /\ rn <= fifoFill
  /\ wpc = "wait" => wn <= SPIRAMSIZE - fifoWpos
  /\ rpc \in {"mark", "wait"} => rn <= SPIRAMSIZE - fifoRpos
  /\ rgot + rlen <= MaxRead

(* NoLostWakeup, from the failed check on instead of from falling asleep.  *)
WakeInv ==
  /\ wpc = "wait" /\ semCanWrite = 0 => Room < wn \/ rpc = "signal"
  /\ rpc \in {"mark", "wait"} /\ semCanRead = 0
       => fifoFill < rn \/ wpc = "signal"

Control == TypeOK /\ MutexInv /\ ChunkInv
IInv == Control /\ FillExact /\ RingHolds /\ ReadInOrder /\ WakeInv

-----------------------------------------------------------------------------
(* A chunk is never longer than asked for, than SPIREADSIZE or than what   *)
(* is left of the ring.                                                    *)
LEMMA ChunkBounds ==
  ASSUME NEW len \in Nat, NEW pos \in Cells
  PROVE  /\ Chunk(len, pos) \in Nat
         /\ Chunk(len, pos) <= len
         /\ Chunk(len, pos) <= SPIREADSIZE
         /\ Chunk(len, pos) <= SPIRAMSIZE - pos
  BY SizeAssumption DEF Chunk, Cells

(* An index that advances by no more than what is left stays in the ring.  *)
LEMMA AdvanceInRing ==
  ASSUME NEW pos \in Cells, NEW n \in Nat, n <= SPIRAMSIZE - pos
  PROVE  Advance(pos, n) \in Cells
  BY SizeAssumption DEF Advance, Cells

LEMMA BumpInRange ==
  ASSUME NEW c \in 0..CntCap
  PROVE  Bump(c) \in 0..CntCap
  BY BoundAssumption DEF Bump

(* What is copied in keeps the ring a ring of bytes.                       *)
LEMMA CopyInType ==
  ASSUME NEW m \in [Cells -> Nat], NEW w \in Cells, NEW n \in Nat,
         NEW s \in Nat
  PROVE  [p \in Cells |-> IF w <= p /\ p < w + n THEN s + 1 + (p - w)
                                               ELSE m[p]] \in [Cells -> Nat]
<1>1. ASSUME NEW p \in Cells
      PROVE  (IF w <= p /\ p < w + n THEN s + 1 + (p - w) ELSE m[p]) \in Nat
  <2>1. CASE w <= p /\ p < w + n
    BY <2>1, SizeAssumption DEF Cells
  <2>2. CASE ~(w <= p /\ p < w + n)
    BY <2>2
  <2> QED
    BY <2>1, <2>2
<1> QED
  BY <1>1

(* What is copied out comes from the ring and fits the caller's buffer.    *)
LEMMA CopyOutType ==
  ASSUME NEW m \in [Cells -> Nat], NEW d \in [Slots -> Nat], NEW r \in Cells,
         NEW n \in Nat, n <= SPIRAMSIZE - r, NEW g \in Nat
  PROVE  [i \in Slots |-> IF g < i /\ i <= g + n THEN m[r + (i - g - 1)]
                                               ELSE d[i]] \in [Slots -> Nat]
<1>1. ASSUME NEW i \in Slots
      PROVE  (IF g < i /\ i <= g + n THEN m[r + (i - g - 1)] ELSE d[i]) \in Nat
  <2>1. CASE g < i /\ i <= g + n
    <3>1. r + (i - g - 1) \in Cells
      BY <2>1, SizeAssumption, BoundAssumption DEF Cells, Slots
    <3> QED
      BY <2>1, <3>1
  <2>2. CASE ~(g < i /\ i <= g + n)
    BY <2>2
  <2> QED
    BY <2>1, <2>2
<1> QED
  BY <1>1

LEMMA ControlInit == Init => Control
  BY SizeAssumption, BoundAssumption
  DEF Init, Control, TypeOK, MutexInv, ChunkInv, Cells, Slots, Blank,
      WriterPlaces, ReaderPlaces

LEMMA ControlWCopy == Control /\ WCopy => Control'
<1> SUFFICES ASSUME Control, WCopy PROVE Control'
  OBVIOUS
<1>1. /\ mem \in [Cells -> Nat] /\ fifoWpos \in Cells
      /\ wn \in Nat /\ wlen \in Nat /\ sent \in Nat /\ fifoFill \in Nat
      /\ wpc = "check" /\ wn = Chunk(wlen, fifoWpos)
  BY SizeAssumption DEF Control, TypeOK, ChunkInv, WCopy
<1>2. wn <= wlen /\ wn <= SPIREADSIZE /\ wn <= SPIRAMSIZE - fifoWpos
  BY <1>1, ChunkBounds
<1>3. wn <= SPIRAMSIZE - fifoFill
  BY <1>1, SizeAssumption DEF WCopy, Room
<1>4. mem' \in [Cells -> Nat]
  BY <1>1, CopyInType DEF WCopy
<1>5. wlen' \in Nat /\ sent' \in Nat
  BY <1>1, <1>2 DEF WCopy
<1>6. TypeOK'
  BY <1>1, <1>4, <1>5
  DEF Control, TypeOK, WCopy, counts, sems, reader, WriterPlaces
<1>7. MutexInv'
  BY DEF Control, MutexInv, WCopy, reader
<1>8. ChunkInv'
  BY <1>1, <1>2, <1>3 DEF Control, ChunkInv, MutexInv, WCopy, reader
<1> QED
  BY <1>6, <1>7, <1>8 DEF Control

LEMMA ControlRCopy == Control /\ RCopy => Control'
<1> SUFFICES ASSUME Control, RCopy PROVE Control'
  OBVIOUS
<1>1. /\ mem \in [Cells -> Nat] /\ dest \in [Slots -> Nat]
      /\ fifoRpos \in Cells /\ fifoFill \in Nat
      /\ rn \in Nat /\ rlen \in Nat /\ taken \in Nat /\ rgot \in Nat
      /\ rgot + rlen <= MaxRead
      /\ rpc = "check" /\ rn = Chunk(rlen, fifoRpos)
  BY SizeAssumption, BoundAssumption DEF Control, TypeOK, ChunkInv, RCopy
<1>2. rn <= rlen /\ rn <= SPIREADSIZE /\ rn <= SPIRAMSIZE - fifoRpos
  BY <1>1, ChunkBounds
<1>3. rn <= fifoFill
  BY <1>1 DEF RCopy
<1>4. dest' \in [Slots -> Nat]
  <2>1. [i \in Slots |-> IF rgot < i /\ i <= rgot + rn
                           THEN mem[fifoRpos + (i - rgot - 1)]
                           ELSE dest[i]] \in [Slots -> Nat]
    BY <1>1, <1>2, CopyOutType
  <2> QED
    BY <2>1 DEF RCopy
<1>5. /\ rlen' \in Nat /\ taken' \in Nat /\ rgot' \in 0..MaxRead
      /\ rgot' + rlen' <= MaxRead
  BY <1>1, <1>2, BoundAssumption DEF RCopy
<1>6. TypeOK'
  BY <1>1, <1>4, <1>5
  DEF Control, TypeOK, RCopy, ring, counts, sems, writer, ReaderPlaces,
      WriterPlaces
<1>7. MutexInv'
  BY DEF Control, MutexInv, RCopy, writer
<1>8. ChunkInv'
  BY <1>1, <1>2, <1>3, <1>5
  DEF Control, ChunkInv, MutexInv, RCopy, writer, ring
<1> QED
  BY <1>6, <1>7, <1>8 DEF Control

LEMMA ControlStep == Control /\ [Next]_vars => Control'
<1> SUFFICES ASSUME Control, [Next]_vars PROVE Control'
  OBVIOUS
<1> USE SizeAssumption, BoundAssumption
    DEF Control, TypeOK, MutexInv, ChunkInv, ring, counts, sems, writer, reader,
        Slots, WriterPlaces, ReaderPlaces
<1>1. ASSUME NEW len \in 1..MaxWrite, WriteCall(len) PROVE Control'
  BY <1>1 DEF WriteCall
<1>2. ASSUME NEW len \in 1..MaxRead, ReadCall(len) PROVE Control'
  BY <1>2 DEF ReadCall, Blank
<1>3. CASE WTake
  BY <1>3, ChunkBounds DEF WTake
<1>4. CASE WFull
  <2>1. wn <= SPIRAMSIZE - fifoWpos
    BY <1>4, ChunkBounds DEF WFull
  <2> QED
    BY <1>4, <2>1, BumpInRange DEF WFull
<1>5. CASE WCopy
  BY <1>5, ControlWCopy
<1>6. CASE WUpdate
  BY <1>6, AdvanceInRing DEF WUpdate
<1>7. CASE WSignal
  BY <1>7 DEF WSignal
<1>8. CASE WWait
  BY <1>8 DEF WWait
<1>9. CASE RTake
  BY <1>9, ChunkBounds DEF RTake
<1>10. CASE RShort
  <2>1. rn <= SPIRAMSIZE - fifoRpos
    BY <1>10, ChunkBounds DEF RShort
  <2> QED
    BY <1>10, <2>1, BumpInRange DEF RShort
<1>11. CASE RMark
  BY <1>11 DEF RMark
<1>12. CASE RCopy
  BY <1>12, ControlRCopy
<1>13. CASE RUpdate
  BY <1>13, AdvanceInRing DEF RUpdate
<1>14. CASE RSignal
  BY <1>14 DEF RSignal
<1>15. CASE RWait
  BY <1>15 DEF RWait
<1>16. CASE UNCHANGED vars
  BY <1>16 DEF vars, Chunk
<1> QED
  BY <1>1, <1>2, <1>3, <1>4, <1>5, <1>6, <1>7, <1>8, <1>9, <1>10, <1>11,
     <1>12, <1>13, <1>14, <1>15, <1>16 DEF Next, WStep, RStep

-----------------------------------------------------------------------------
(* No update of the fill is lost: each task adds or subtracts what it      *)
(* loaded under the mutex, and nobody stores in between.                   *)
LEMMA FillStep == Control /\ FillExact /\ [Next]_vars => FillExact'
<1> SUFFICES ASSUME Control, FillExact, [Next]_vars PROVE FillExact'
  OBVIOUS
<1>1. /\ fifoFill \in Int /\ sent \in Int /\ taken \in Int
      /\ wn \in Int /\ rn \in Int /\ wreg \in Int /\ rreg \in Int
  BY SizeAssumption DEF Control, TypeOK
<1>2. ~(wpc \in {"check", "update"} /\ rpc \in {"check", "update"})
  BY DEF Control, MutexInv
<1>3. /\ wpc = "update" => wreg = fifoFill
      /\ rpc = "update" => rreg = fifoFill
      /\ mux = "free" => wpc # "update" /\ rpc # "update"
  BY DEF Control, ChunkInv, MutexInv
<1> USE <1>1, <1>2, <1>3 DEF FillExact, ring, counts, sems, writer, reader
<1>4. CASE \/ \E len \in 1..MaxWrite : WriteCall(len)
           \/ \E len \in 1..MaxRead : ReadCall(len)
  BY <1>4 DEF WriteCall, ReadCall
<1>5. CASE WTake \/ WFull \/ WSignal \/ WWait
  BY <1>5 DEF WTake, WFull, WSignal, WWait
<1>6. CASE WCopy
  BY <1>6 DEF WCopy
<1>7. CASE WUpdate
  BY <1>7 DEF WUpdate
<1>8. CASE RTake \/ RShort \/ RMark \/ RSignal \/ RWait
  BY <1>8 DEF RTake, RShort, RMark, RSignal, RWait
<1>9. CASE RCopy
  BY <1>9 DEF RCopy
<1>10. CASE RUpdate
  BY <1>10 DEF RUpdate
<1>11. CASE UNCHANGED vars
  BY <1>11 DEF vars
<1> QED
  BY <1>4, <1>5, <1>6, <1>7, <1>8, <1>9, <1>10, <1>11 DEF Next, WStep, RStep

(* A task that sleeps, or is about to, is short or is about to be woken.   *)
LEMMA WakeStep == Control /\ WakeInv /\ [Next]_vars => WakeInv'
<1> SUFFICES ASSUME Control, WakeInv, [Next]_vars PROVE WakeInv'
  OBVIOUS
<1>1. /\ fifoFill \in Int /\ wn \in Nat /\ rn \in Nat
      /\ semCanRead \in {0, 1} /\ semCanWrite \in {0, 1}
  BY SizeAssumption DEF Control, TypeOK
<1>2. /\ wpc = "update" => wreg = fifoFill
      /\ rpc = "update" => rreg = fifoFill
  BY DEF Control, ChunkInv
<1> USE <1>1, <1>2, SizeAssumption
    DEF WakeInv, Room, ring, counts, sems, writer, reader
<1>3. CASE \/ \E len \in 1..MaxWrite : WriteCall(len)
           \/ \E len \in 1..MaxRead : ReadCall(len)
  BY <1>3 DEF WriteCall, ReadCall
<1>4. CASE WTake \/ WFull \/ WSignal \/ WWait
  BY <1>4 DEF WTake, WFull, WSignal, WWait
<1>5. CASE WCopy \/ WUpdate
  BY <1>5 DEF WCopy, WUpdate
<1>6. CASE RTake \/ RShort \/ RMark \/ RSignal \/ RWait
  BY <1>6 DEF RTake, RShort, RMark, RSignal, RWait
<1>7. CASE RCopy \/ RUpdate
  BY <1>7 DEF RCopy, RUpdate
<1>8. CASE UNCHANGED vars
  BY <1>8 DEF vars
<1> QED
  BY <1>3, <1>4, <1>5, <1>6, <1>7, <1>8 DEF Next, WStep, RStep

-----------------------------------------------------------------------------
(* Where a chunk of n goes that is copied in behind f bytes that start at  *)
(* r: off every one of those, and one after the other.                     *)
LEMMA CopyInPlaces ==
  ASSUME NEW r \in Cells, NEW w \in Cells, NEW f \in 0..SPIRAMSIZE,
         NEW n \in Nat,
         w = Wrap(r + f), n <= SPIRAMSIZE - w, n <= SPIRAMSIZE - f
  PROVE  /\ Advance(w, n) = Wrap(r + (f + n))
         /\ \A i \in 0 .. f - 1 : /\ Wrap(r + i) \in Cells
                                 /\ ~(w <= Wrap(r + i) /\ Wrap(r + i) < w + n)
         /\ \A i \in f .. (f + n) - 1 : /\ Wrap(r + i) \in Cells
                                      /\ Wrap(r + i) = w + (i - f)
  BY SizeAssumption DEF Advance, Wrap, Cells

(* What is left of f bytes that start at r, after n are copied out.        *)
LEMMA CopyOutPlaces ==
  ASSUME NEW r \in Cells, NEW w \in Cells, NEW f \in 0..SPIRAMSIZE,
         NEW n \in Nat,
         w = Wrap(r + f), n <= SPIRAMSIZE - r, n <= f
  PROVE  /\ w = Wrap(Advance(r, n) + (f - n))
         /\ \A i \in 0 .. (f - n) - 1 :
              Wrap(Advance(r, n) + i) = Wrap(r + (i + n))
  BY SizeAssumption DEF Advance, Wrap, Cells

(* Every byte keeps its place: only the two copies move the ends.          *)
LEMMA RingStep ==
  Control /\ FillExact /\ RingHolds /\ [Next]_vars => RingHolds'
<1> SUFFICES ASSUME Control, FillExact, RingHolds, [Next]_vars
             PROVE  RingHolds'
  OBVIOUS
<1>1. /\ mem \in [Cells -> Nat] /\ fifoRpos \in Cells /\ fifoWpos \in Cells
      /\ fifoFill \in 0..SPIRAMSIZE /\ sent \in Nat /\ taken \in Nat
      /\ wn \in Nat /\ rn \in Nat /\ wlen \in Nat /\ rlen \in Nat
  BY DEF Control, TypeOK
<1>2. CASE WCopy
  <2>1. /\ wpc = "check" /\ rpc # "update" /\ wpc' = "update"
        /\ rpc' = rpc /\ fifoRpos' = fifoRpos /\ fifoWpos' = fifoWpos
        /\ wn' = wn /\ rn' = rn /\ taken' = taken /\ sent' = sent + wn
    BY <1>2 DEF WCopy, Control, MutexInv, reader
  <2>2. wn <= SPIRAMSIZE - fifoWpos
    BY <1>1, <2>1, ChunkBounds DEF Control, ChunkInv
  <2>3. fifoFill = sent - taken /\ wn <= SPIRAMSIZE - fifoFill
    BY <1>1, <1>2, <2>1, SizeAssumption DEF WCopy, Room, FillExact
  <2>4. WPos = fifoWpos /\ RPos = fifoRpos
    BY <2>1 DEF WPos, RPos
  <2>5. WPos' = Advance(fifoWpos, wn) /\ RPos' = fifoRpos
    BY <2>1 DEF WPos, RPos, Advance
  <2>6. /\ fifoWpos = Wrap(fifoRpos + fifoFill)
        /\ \A i \in 0 .. fifoFill - 1 :
             mem[Wrap(fifoRpos + i)] = taken + i + 1
    BY <2>3, <2>4 DEF RingHolds
  <2>7. mem' = [p \in Cells |-> IF fifoWpos <= p /\ p < fifoWpos + wn
                                  THEN (taken + fifoFill) + 1 + (p - fifoWpos)
                                  ELSE mem[p]]
    BY <1>1, <1>2, <2>3 DEF WCopy
  <2>8. /\ Advance(fifoWpos, wn) = Wrap(fifoRpos + (fifoFill + wn))
        /\ \A i \in 0 .. fifoFill - 1 :
             /\ Wrap(fifoRpos + i) \in Cells
             /\ ~(/\ fifoWpos <= Wrap(fifoRpos + i)
                  /\ Wrap(fifoRpos + i) < fifoWpos + wn)
        /\ \A i \in fifoFill .. (fifoFill + wn) - 1 :
             /\ Wrap(fifoRpos + i) \in Cells
             /\ Wrap(fifoRpos + i) = fifoWpos + (i - fifoFill)
    BY <1>1, <2>2, <2>3, <2>6, CopyInPlaces
  <2>9. ASSUME NEW i \in 0 .. (fifoFill + wn) - 1
         PROVE  mem'[Wrap(fifoRpos + i)] = taken + i + 1
    <3>1. CASE i < fifoFill
      <4>1. i \in 0 .. fifoFill - 1
        BY <1>1, <3>1
      <4> QED
        BY <2>6, <2>7, <2>8, <4>1
    <3>2. CASE i >= fifoFill
      <4>1. i \in fifoFill .. (fifoFill + wn) - 1
        BY <1>1, <3>2
      <4>2. /\ Wrap(fifoRpos + i) \in Cells
            /\ Wrap(fifoRpos + i) = fifoWpos + (i - fifoFill)
        BY <2>8, <4>1
      <4>3. fifoWpos + (i - fifoFill) < fifoWpos + wn
            /\ fifoWpos <= fifoWpos + (i - fifoFill)
        BY <1>1, <4>1, SizeAssumption DEF Cells
      <4>4. mem'[Wrap(fifoRpos + i)]
              = (taken + fifoFill) + 1 + (Wrap(fifoRpos + i) - fifoWpos)
        BY <2>7, <4>2, <4>3
      <4> QED
        BY <1>1, <4>1, <4>2, <4>4, SizeAssumption DEF Cells
    <3> QED
      BY <1>1, <3>1, <3>2
  <2>10. sent' - taken' = fifoFill + wn /\ fifoFill + wn \in 0..SPIRAMSIZE
    BY <1>1, <2>1, <2>3, SizeAssumption
  <2>11. WPos' = Wrap(RPos + (sent - taken))'
    BY <2>5, <2>8, <2>10 DEF Wrap
  <2>12. ASSUME NEW i \in (0 .. (sent - taken) - 1)'
         PROVE  mem'[Wrap(RPos + i)'] = taken' + i + 1
    BY <2>1, <2>5, <2>9, <2>10, Wrap(RPos + i)' = Wrap(fifoRpos + i) DEF Wrap
  <2> QED
    BY <2>10, <2>11, <2>12 DEF RingHolds
<1>3. CASE RCopy
  <2>1. /\ rpc = "check" /\ wpc # "update" /\ rpc' = "update"
        /\ wpc' = wpc /\ fifoRpos' = fifoRpos /\ fifoWpos' = fifoWpos
        /\ wn' = wn /\ rn' = rn /\ taken' = taken + rn /\ sent' = sent
        /\ mem' = mem
    BY <1>3 DEF RCopy, Control, MutexInv, writer, ring
  <2>2. rn <= SPIRAMSIZE - fifoRpos
    BY <1>1, <2>1, ChunkBounds DEF Control, ChunkInv
  <2>3. fifoFill = sent - taken /\ rn <= fifoFill
    BY <1>1, <1>3, <2>1 DEF RCopy, FillExact
  <2>4. WPos = fifoWpos /\ RPos = fifoRpos
    BY <2>1 DEF WPos, RPos
  <2>5. RPos' = Advance(fifoRpos, rn) /\ WPos' = fifoWpos
    BY <2>1 DEF WPos, RPos, Advance
  <2>6. /\ fifoWpos = Wrap(fifoRpos + fifoFill)
        /\ \A i \in 0 .. fifoFill - 1 :
             mem[Wrap(fifoRpos + i)] = taken + i + 1
    BY <2>3, <2>4 DEF RingHolds
  <2>7. /\ fifoWpos = Wrap(Advance(fifoRpos, rn) + (fifoFill - rn))
        /\ \A i \in 0 .. (fifoFill - rn) - 1 :
             Wrap(Advance(fifoRpos, rn) + i) = Wrap(fifoRpos + (i + rn))
    BY <1>1, <2>2, <2>3, <2>6, CopyOutPlaces
  <2>8. ASSUME NEW i \in 0 .. (fifoFill - rn) - 1
         PROVE  mem[Wrap(Advance(fifoRpos, rn) + i)] = (taken + rn) + i + 1
    <3>1. i + rn \in 0 .. fifoFill - 1
      BY <1>1, <2>3
    <3>2. mem[Wrap(fifoRpos + (i + rn))] = taken + (i + rn) + 1
      BY <2>6, <3>1
    <3> QED
      BY <1>1, <2>7, <3>2
  <2>9. sent' - taken' = fifoFill - rn /\ fifoFill - rn \in 0..SPIRAMSIZE
    BY <1>1, <2>1, <2>3, SizeAssumption
  <2>10. WPos' = Wrap(RPos + (sent - taken))'
    BY <2>5, <2>7, <2>9 DEF Wrap
  <2>11. ASSUME NEW i \in (0 .. (sent - taken) - 1)'
         PROVE  mem'[Wrap(RPos + i)'] = taken' + i + 1
    BY <2>1, <2>5, <2>8, <2>9,
       Wrap(RPos + i)' = Wrap(Advance(fifoRpos, rn) + i) DEF Wrap
  <2> QED
    BY <2>9, <2>10, <2>11 DEF RingHolds
<1>4. CASE ~(WCopy \/ RCopy)
  <2>1. UNCHANGED <<mem, sent, taken, WPos, RPos>>
    <3> USE <1>4 DEF ring, counts, sems, writer, reader, WPos, RPos, Advance
    <3>1. CASE \/ \E len \in 1..MaxWrite : WriteCall(len)
               \/ \E len \in 1..MaxRead : ReadCall(len)
      BY <3>1 DEF WriteCall, ReadCall
    <3>2. CASE WTake \/ WFull \/ WSignal \/ WWait
      BY <3>2 DEF WTake, WFull, WSignal, WWait
    <3>3. CASE WUpdate
      BY <3>3 DEF WUpdate
    <3>4. CASE RTake \/ RShort \/ RMark \/ RSignal \/ RWait
      BY <3>4 DEF RTake, RShort, RMark, RSignal, RWait
    <3>5. CASE RUpdate
      BY <3>5 DEF RUpdate
    <3>6. CASE UNCHANGED vars
      BY <3>6 DEF vars
    <3> QED
      BY <3>1, <3>2, <3>3, <3>4, <3>5, <3>6 DEF Next, WStep, RStep
  <2> QED
    BY <2>1 DEF RingHolds, Wrap
<1> QED
  BY <1>2, <1>3, <1>4

(* What the caller of the current read has been given stays as it was, and *)
(* a new chunk continues it: it is the oldest of the bytes in the ring.    *)
LEMMA OrderStep ==
  Control /\ FillExact /\ RingHolds /\ ReadInOrder /\ [Next]_vars
    => ReadInOrder'
<1> SUFFICES ASSUME Control, FillExact, RingHolds, ReadInOrder, [Next]_vars
             PROVE  ReadInOrder'
  OBVIOUS
<1>1. /\ fifoRpos \in Cells /\ fifoFill \in Nat /\ sent \in Nat
      /\ taken \in Nat /\ rn \in Nat /\ rlen \in Nat /\ rgot \in Nat
      /\ rgot + rlen <= MaxRead
  BY SizeAssumption, BoundAssumption DEF Control, TypeOK, ChunkInv
<1>2. CASE RCopy
  <2>1. /\ rpc = "check" /\ wpc # "update" /\ rgot' = rgot + rn
        /\ taken' = taken + rn
    BY <1>2 DEF RCopy, Control, MutexInv
  <2>2. rn <= SPIRAMSIZE - fifoRpos /\ rn <= rlen
    BY <1>1, <2>1, ChunkBounds DEF Control, ChunkInv
  <2>3. rn <= sent - taken
    BY <1>1, <1>2, <2>1 DEF RCopy, FillExact
  <2>4. ASSUME NEW i \in 1 .. rgot + rn
        PROVE  dest'[i] = (taken + rn) - (rgot + rn) + i
    <3>1. i \in Slots
      BY <1>1, <2>2, BoundAssumption DEF Slots
    <3>2. CASE i <= rgot
      <4>1. dest'[i] = dest[i]
        BY <1>1, <1>2, <3>1, <3>2 DEF RCopy
      <4>2. dest[i] = taken - rgot + i
        BY <1>1, <3>2 DEF ReadInOrder
      <4> QED
        BY <1>1, <4>1, <4>2
    <3>3. CASE rgot < i
      <4> DEFINE j == i - rgot - 1
      <4>1. j \in 0 .. (sent - taken) - 1
        BY <1>1, <2>3, <3>3
      <4>2. fifoRpos + j < SPIRAMSIZE
        BY <1>1, <2>2, SizeAssumption DEF Cells
      <4>3. Wrap(RPos + j) = fifoRpos + j
        BY <1>1, <2>1, <4>1, <4>2, SizeAssumption DEF Wrap, RPos, Cells
      <4>4. mem[fifoRpos + j] = taken + j + 1
        BY <4>1, <4>3 DEF RingHolds
      <4>5. dest'[i] = mem[fifoRpos + j]
        BY <1>1, <1>2, <3>1, <3>3 DEF RCopy
      <4> QED
        BY <1>1, <4>4, <4>5
    <3> QED
      BY <1>1, <3>2, <3>3
  <2> QED
    BY <2>1, <2>4 DEF ReadInOrder
<1>3. CASE \E len \in 1..MaxRead : ReadCall(len)
  BY <1>3 DEF ReadCall, ReadInOrder
<1>4. CASE UNCHANGED <<rgot, dest, taken>>
  BY <1>4 DEF ReadInOrder
<1>5. \/ RCopy \/ \E len \in 1..MaxRead : ReadCall(len)
      \/ UNCHANGED <<rgot, dest, taken>>
  BY DEF Next, WStep, RStep, vars, reader, WriteCall, WTake, WFull, WCopy,
         WUpdate, WSignal, WWait, RTake, RShort, RMark, RUpdate, RSignal, RWait
<1> QED
  BY <1>2, <1>3, <1>4, <1>5

-----------------------------------------------------------------------------
LEMMA InitInv == Init => IInv
<1> SUFFICES ASSUME Init PROVE IInv
  OBVIOUS
<1>1. Control
  BY ControlInit
<1>2. FillExact /\ RingHolds /\ ReadInOrder /\ WakeInv
  BY SizeAssumption
  DEF Init, FillExact, RingHolds, ReadInOrder, WakeInv, WPos, RPos, Wrap, Cells
<1> QED
  BY <1>1, <1>2 DEF IInv

LEMMA StepInv == IInv /\ [Next]_vars => IInv'
  BY ControlStep, FillStep, RingStep, OrderStep, WakeStep DEF IInv

(* In every reachable state the invariant holds.                           *)
THEOREM Invariance == SafeSpec => []IInv
  BY InitInv, StepInv, PTL DEF SafeSpec

(* The indices stay in the ring, the fill within its size, and every local *)
(* in its range.                                                           *)
THEOREM TypeCorrect == SafeSpec => []TypeOK
<1>1. IInv => TypeOK
  BY DEF IInv, Control
<1> QED
  BY <1>1, Invariance, PTL

(* The fill is exact although two tasks update it (spiram_fifo.c, lines 83 *)
(* and 112).                                                               *)
THEOREM FillIsExact == SafeSpec => []FillExact
<1>1. IInv => FillExact
  BY DEF IInv
<1> QED
  BY <1>1, Invariance, PTL

(* No unread byte is ever overwritten.                                     *)
THEOREM RingIsKept == SafeSpec => []RingHolds
<1>1. IInv => RingHolds
  BY DEF IInv
<1> QED
  BY <1>1, Invariance, PTL

(* A reader is given the stream in order, whatever the sizes.              *)
THEOREM ReadsAreInOrder == SafeSpec => []ReadInOrder
<1>1. IInv => ReadInOrder
  BY DEF IInv
<1> QED
  BY <1>1, Invariance, PTL

(* No wake-up is lost between a check under the mutex and the sleep.       *)
THEOREM WakeupsAreKept == SafeSpec => []NoLostWakeup
<1>1. IInv => NoLostWakeup
  BY DEF IInv, WakeInv, NoLostWakeup
<1> QED
  BY <1>1, Invariance, PTL

(* The two tasks never sleep on each other, in a ring of any size and with *)
(* chunks of any size: bytes that run up to the end of the ring are enough *)
(* for a chunk that stops there, and so is room.                           *)
THEOREM TasksDoNotDeadlock == SafeSpec => []NeverBothAsleep
<1>1. IInv => NeverBothAsleep
  <2> SUFFICES ASSUME IInv, ~NeverBothAsleep PROVE FALSE
    OBVIOUS
  <2>1. Room < wn /\ fifoFill < rn
    BY DEF IInv, WakeInv, NeverBothAsleep
  <2>2. /\ fifoWpos \in Cells /\ fifoRpos \in Cells
        /\ wn \in Nat /\ rn \in Nat /\ fifoFill \in 0..SPIRAMSIZE
        /\ wn <= SPIRAMSIZE - fifoWpos /\ rn <= SPIRAMSIZE - fifoRpos
    BY DEF IInv, Control, TypeOK, ChunkInv, NeverBothAsleep
  <2>3. fifoWpos = Wrap(fifoRpos + fifoFill)
    BY DEF IInv, Control, TypeOK, FillExact, RingHolds, WPos, RPos, NeverBothAsleep
  <2> QED
    BY <2>1, <2>2, <2>3, SizeAssumption DEF Room, Wrap, Cells
<1> QED
  BY <1>1, Invariance, PTL

-----------------------------------------------------------------------------
LEMMA PipeInit == Init => Pipe!Init
  BY DEF Init, Pipe!Init, Blank, Slots, Pipe!Blank, Pipe!Slots

(* A copy in is one Put, a copy out one Get, a read call one Present; the  *)
(* mutex, the semaphores and the indices are invisible.                    *)
LEMMA PipeStep == IInv /\ [Next]_vars => [Pipe!Next]_(Pipe!vars)
<1> SUFFICES ASSUME IInv, [Next]_vars PROVE [Pipe!Next]_(Pipe!vars)
  OBVIOUS
<1>1. /\ fifoRpos \in Cells /\ fifoWpos \in Cells /\ fifoFill \in Nat
      /\ sent \in Nat /\ taken \in Nat /\ wn \in Nat /\ wlen \in Nat
      /\ rn \in Nat /\ rlen \in Nat /\ rgot \in Nat
      /\ rgot + rlen <= MaxRead /\ dest \in [Slots -> Nat]
  BY SizeAssumption, BoundAssumption DEF IInv, Control, TypeOK, ChunkInv
<1>2. CASE WCopy
  <2>1. /\ wpc = "check" /\ rpc # "update" /\ sent' = sent + wn
        /\ taken' = taken /\ rgot' = rgot /\ dest' = dest
    BY <1>2 DEF WCopy, IInv, Control, MutexInv, reader
  <2>2. (sent + wn) - taken <= SPIRAMSIZE
    BY <1>1, <1>2, <2>1, SizeAssumption DEF WCopy, Room, IInv, FillExact
  <2>3. wn <= SPIRAMSIZE
    BY <1>1, <2>1, ChunkBounds, SizeAssumption
    DEF IInv, Control, ChunkInv, Cells
  <2>4. CASE wn = 0
    BY <1>1, <2>1, <2>4 DEF Pipe!vars
  <2>5. CASE wn > 0
    <3>1. wn \in 1..SPIRAMSIZE
      BY <1>1, <2>3, <2>5, SizeAssumption
    <3>2. Pipe!Put(wn)
      BY <2>1, <2>2 DEF Pipe!Put
    <3> QED
      BY <3>1, <3>2 DEF Pipe!Next
  <2> QED
    BY <1>1, <2>4, <2>5
<1>3. CASE RCopy
  <2>1. /\ rpc = "check" /\ wpc # "update" /\ rgot' = rgot + rn
        /\ taken' = taken + rn /\ sent' = sent
    BY <1>3 DEF RCopy, IInv, Control, MutexInv, writer
  <2>2. rn <= SPIRAMSIZE - fifoRpos /\ rn <= rlen
    BY <1>1, <2>1, ChunkBounds DEF IInv, Control, ChunkInv
  <2>3. rn <= sent - taken
    BY <1>1, <1>3, <2>1 DEF RCopy, IInv, FillExact
  <2>4. dest' = [i \in Slots |-> IF rgot < i /\ i <= rgot + rn
                                   THEN taken + (i - rgot) ELSE dest[i]]
    <3>1. ASSUME NEW i \in Slots, rgot < i, i <= rgot + rn
          PROVE  mem[fifoRpos + (i - rgot - 1)] = taken + (i - rgot)
      <4> DEFINE j == i - rgot - 1
      <4>1. j \in 0 .. (sent - taken) - 1
        BY <1>1, <2>3, <3>1, BoundAssumption DEF Slots
      <4>2. fifoRpos + j < SPIRAMSIZE
        BY <1>1, <2>2, <3>1, BoundAssumption, SizeAssumption DEF Cells, Slots
      <4>3. Wrap(RPos + j) = fifoRpos + j
        BY <1>1, <2>1, <4>1, <4>2, SizeAssumption DEF Wrap, RPos, Cells
      <4>4. mem[fifoRpos + j] = taken + j + 1
        BY <4>1, <4>3 DEF IInv, RingHolds
      <4> QED
        BY <1>1, <4>4, BoundAssumption DEF Slots
    <3>2. dest' = [i \in Slots |-> IF rgot < i /\ i <= rgot + rn
                                     THEN mem[fifoRpos + (i - rgot - 1)]
                                     ELSE dest[i]]
      BY <1>3 DEF RCopy
    <3> DEFINE F == [i \in Slots |-> IF rgot < i /\ i <= rgot + rn
                                     THEN mem[fifoRpos + (i - rgot - 1)]
                                     ELSE dest[i]]
               G == [i \in Slots |-> IF rgot < i /\ i <= rgot + rn
                                     THEN taken + (i - rgot) ELSE dest[i]]
    <3>3. \A i \in Slots : F[i] = G[i]
      BY <3>1
    <3>4. F = G
      BY <3>3
    <3> QED
      BY <3>2, <3>4
  <2>5. Pipe!Get(rn)
    <3>1. rn <= sent - taken /\ rgot + rn <= MaxRead
      BY <1>1, <2>2, <2>3, BoundAssumption
    <3>2. Pipe!Slots = Slots
      BY DEF Pipe!Slots, Slots
    <3> QED
      BY <2>1, <2>4, <3>1, <3>2, Zenon DEF Pipe!Get
  <2>6. CASE rn = 0
    <3>1. \A i \in Slots : ~(rgot < i /\ i <= rgot + rn)
      BY <1>1, <2>6, BoundAssumption DEF Slots
    <3>2. dest' = [i \in Slots |-> dest[i]]
      BY <2>4, <3>1
    <3>3. dest' = dest
      BY <1>1, <3>2
    <3> QED
      BY <1>1, <2>1, <2>6, <3>3 DEF Pipe!vars
  <2>7. CASE rn > 0
    <3>1. rn \in 1..SPIRAMSIZE
      BY <1>1, <2>2, <2>7, SizeAssumption DEF Cells
    <3> QED
      BY <2>5, <3>1 DEF Pipe!Next
  <2> QED
    BY <1>1, <2>6, <2>7
<1>4. CASE \E len \in 1..MaxRead : ReadCall(len)
  <2>1. Pipe!Present
    BY <1>4 DEF ReadCall, writer, Pipe!Present, Pipe!Blank, Pipe!Slots, Blank,
                Slots
  <2> QED
    BY <2>1 DEF Pipe!Next
<1>5. CASE UNCHANGED <<sent, rgot, dest, taken>>
  BY <1>5 DEF Pipe!vars
<1>6. \/ WCopy \/ RCopy \/ \E len \in 1..MaxRead : ReadCall(len)
      \/ UNCHANGED <<sent, rgot, dest, taken>>
  BY DEF Next, WStep, RStep, vars, writer, reader, WriteCall, WTake, WFull,
         WUpdate, WSignal, WWait, RTake, RShort, RMark, RUpdate, RSignal, RWait
<1> QED
  BY <1>2, <1>3, <1>4, <1>5, <1>6

(* The ring implements the bounded byte pipe of ByteFifo.                  *)
THEOREM Refinement == SafeSpec => ImplementsByteFifo
  BY PipeInit, PipeStep, Invariance, PTL DEF SafeSpec, ImplementsByteFifo, Pipe!Spec
=============================================================================
